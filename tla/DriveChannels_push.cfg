\* Two folder_watch subscriptions, two requests and the refresh worker: their
\* calls to Google cross in every order.
\* CHECK_DEADLOCK FALSE: when the users are done and both subscriptions are
\* deleted, nothing is left to do.
SPECIFICATION ChannelSpec
CONSTANTS
  Subs = {s1, s2}
  Channels = {c1, c2, c3}
  Requests = {q1, q2}
  Worker = worker
  NoSub = NoSub
  NoChannel = NoChannel
  MaxTrouble = 1
  MaxActs = 6
SYMMETRY Alike
INVARIANTS
  StaysSubscribed
  NothingLeaks
CHECK_DEADLOCK FALSE
