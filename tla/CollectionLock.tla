--------------------------- MODULE CollectionLock ---------------------------
(***************************************************************************)
(* What RESTHeart promises about the properties of a collection: they are  *)
(* created once, changed or removed only by a write that names their etag, *)
(* and keep their creation date until they are removed.                    *)
(***************************************************************************)
EXTENDS Naturals

CONSTANTS NoTag, NoDate, Garbage

VARIABLES
  props,    \* the properties
  data,     \* whether the collection itself exists
  issued,   \* the etags issued so far
  verdict   \* the etag the last request named, and whether it was accepted

vars == <<props, data, issued, verdict>>

Absent == [etag |-> NoTag, created |-> NoDate]

Accept(tag) == verdict' = [tag |-> tag, over |-> props.etag, accepted |-> TRUE]

Create(tag) ==
  /\ props = Absent
  /\ Accept(tag)
  /\ issued' = issued + 1
  /\ props' = [etag |-> issued + 1, created |-> issued + 1]
  /\ data' = TRUE

Change(tag) ==
  /\ tag = props.etag
  /\ tag # NoTag
  /\ Accept(tag)
  /\ issued' = issued + 1
  /\ props' = [props EXCEPT !.etag = issued + 1]
  /\ UNCHANGED data

Remove(tag) ==
  /\ tag = props.etag
  /\ tag # NoTag
  /\ Accept(tag)
  /\ props' = Absent
  /\ data' = FALSE
  /\ UNCHANGED issued

Refuse(tag) ==
  /\ props # Absent
  /\ tag # props.etag
  /\ verdict' = [tag |-> tag, over |-> NoTag, accepted |-> FALSE]
  /\ UNCHANGED <<props, data, issued>>

\* A collection that exists without properties is given some.
Fix ==
  /\ data
  /\ props = Absent
  /\ issued' = issued + 1
  /\ props' = [etag |-> issued + 1, created |-> issued + 1]
  /\ UNCHANGED <<data, verdict>>

WriteDocument == data' = TRUE /\ UNCHANGED <<props, issued, verdict>>

Init ==
  /\ props = Absent
  /\ data \in BOOLEAN
  /\ issued = 0
  /\ verdict = [tag |-> NoTag, over |-> NoTag, accepted |-> FALSE]

Next ==
  \/ \E tag \in 1..issued \cup {NoTag, Garbage} :
       Create(tag) \/ Change(tag) \/ Remove(tag) \/ Refuse(tag)
  \/ Fix
  \/ WriteDocument

Spec == Init /\ [][Next]_vars
=============================================================================
