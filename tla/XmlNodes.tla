------------------------------ MODULE XmlNodes ------------------------------
(* XML documents as the programs under tools/mavgen see them.  An element   *)
(* of a document is [name, at, text, kids]; name and the attributes that at *)
(* gives values to are pairs of a namespace and a local name.               *)
EXTENDS Integers, Sequences, SequencesExt, FiniteSets, FiniteSetsExt, TLC

None == "none"
Empty == [k \in {} |-> None]
=============================================================================
