\* Two jobs for one printer of three protocols; a stolen token, lost messages, restarts.
\* It may stop: with every job over, the loop polls, which changes nothing.
CONSTANTS
  j1 = j1  j2 = j2
  Me = me
  Agents <- MyAgent
  NoAgent = noAgent
  NoJob = noJob
  NoExchange = noExchange
  Jobs = {j1, j2}
  Exchanges = {e1, e2}
  Spoken = {"moonraker", "octoprint", "chitu"}
  CreatedAt <- InOrder
  MaxStarts = 2
  MaxLost = 1
  MaxByHand = 1
  MaxInbox = 2
SPECIFICATION CourierSpec
INVARIANTS
  OneKeyPerToken
  CompletedSawDone
  NoClaimLeftBehind
PROPERTIES
  EndIsReported
CHECK_DEADLOCK FALSE
