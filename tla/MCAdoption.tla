------------------------------ MODULE MCAdoption ------------------------------
(* An instance of Adoption for TLC. *)
EXTENDS Adoption, TLC

\* A model at the top, and a folder; another folder has the name of the model.
FirstFiles == [s \in Spots |->
  CASE s = <<".", "dragon.3mf">>     -> "b1"
    [] s = <<"ann/mk1", "part.stl">> -> "b2"
    [] OTHER -> "none"]
Stems == "dragon.3mf" :> "dragon" @@ "part.stl" :> "part"
Kinds == "dragon.3mf" :> "3mf" @@ "part.stl" :> "other"

\* What the metadata of the model says is what the path of one folder says.
Hunch(title, creator, sure) == [title |-> title, creator |-> creator, sure |-> sure]
InMetadata == [b \in Contents |->
  IF b = "b1" THEN [title |-> "Mech", creator |-> "Ann", more |-> TRUE]
  ELSE [title |-> "noWord", creator |-> "noWord", more |-> FALSE]]
InNames == [n \in Names |-> Hunch("Dragon", "noWord", 30)]
InFolders == [l \in Labels |->
  IF l \in {"ann/mk1", "ann/mech"} THEN Hunch("Mech", "Ann", 60) ELSE Hunch("Dragon", "noWord", 40)]

\* The template by creator and title.
ByCreator == [t \in Templates |-> [title \in Words \cup {"noWord"} |->
  [creator \in Words \cup {"noWord"} |->
     IF title = "Mech" /\ creator = "Ann" THEN "ann/mech" ELSE "nowhere"]]]
=============================================================================
