---------------------------- MODULE DocumentLock ----------------------------
(***************************************************************************)
(* The optimistic lock a RESTHeart document promises its writers: a write  *)
(* that names the etag of the document replaces, patches or removes it, a  *)
(* write that does not is refused and changes nothing.                     *)
(***************************************************************************)
EXTENDS Naturals

CONSTANTS
  NoTag,    \* the etag of a document that has none, and of no document
  Garbage   \* the tag of a write that names no etag at all

VARIABLES
  doc,      \* the document
  issued,   \* the etags issued so far: 1..issued
  verdict   \* the etag the last write named, and whether it was accepted

vars == <<doc, issued, verdict>>

Absent == [etag |-> NoTag, parts |-> {}]

\* The write that is given the next etag has the named etag, or needs none.
Granted(tag) ==
  /\ doc.etag \in {NoTag, tag}
  /\ verdict' = [tag |-> tag, accepted |-> TRUE]
  /\ issued' = issued + 1

Put(tag) ==
  /\ Granted(tag)
  /\ doc' = [etag |-> issued + 1, parts |-> {issued + 1}]

Patch(tag) ==
  /\ doc # Absent
  /\ Granted(tag)
  /\ doc' = [etag |-> issued + 1, parts |-> doc.parts \cup {issued + 1}]

Delete(tag) ==
  /\ doc # Absent
  /\ Granted(tag)
  /\ doc' = Absent

\* Only an etag that the document does not have is refused.
Refuse(tag) ==
  /\ doc.etag \notin {NoTag, tag}
  /\ verdict' = [tag |-> tag, accepted |-> FALSE]
  /\ issued' = issued + 1
  /\ UNCHANGED doc

Init ==
  /\ doc \in {Absent, [etag |-> NoTag, parts |-> {0}]}
  /\ issued = 0
  /\ verdict = [tag |-> NoTag, accepted |-> TRUE]

Next == \E tag \in 1..issued \cup {NoTag, Garbage} :
  Put(tag) \/ Patch(tag) \/ Delete(tag) \/ Refuse(tag)

Spec == Init /\ [][Next]_vars
=============================================================================
