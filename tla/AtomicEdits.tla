----------------------------- MODULE AtomicEdits -----------------------------
(***************************************************************************)
(* What docs/conflict-resolution.md promises for a record that several       *)
(* clients edit: an edit takes effect at one instant, merged into the value  *)
(* of that instant.  A store that remembers what it applied takes no edit a  *)
(* second time; one that knows only its latest writer, not twice in a row.   *)
(***************************************************************************)
EXTENDS ThreeWayMerge, Sequences, SequencesExt

CONSTANTS Edits, Start

VARIABLES
    remembers,  \* the store keeps a log of the operations it applied
    value,      \* the document
    applied,    \* the edits applied, in order
    base,       \* [Edits -> the document the edit was made from]
    proposal    \* [Edits -> the edited document]

editVars == <<remembers, value, applied, base, proposal>>

Init ==
    /\ remembers \in BOOLEAN
    /\ value = Start
    /\ applied = <<>>
    /\ base = [e \in Edits |-> Start]
    /\ proposal = [e \in Edits |-> Start]

MayApply(e) ==
    /\ remembers => ~Contains(applied, e)
    /\ applied = <<>> \/ Last(applied) # e

\* A client edits the current document.
Propose(e) ==
    /\ base' = [base EXCEPT ![e] = value]
    /\ \E doc \in Document : proposal' = [proposal EXCEPT ![e] = doc]
    /\ UNCHANGED <<remembers, value, applied>>

Apply(e) ==
    /\ MayApply(e)
    /\ value' = Merge(base[e], value, proposal[e])
    /\ applied' = Append(applied, e)
    /\ UNCHANGED <<remembers, base, proposal>>

Next == \E e \in Edits : Propose(e) \/ Apply(e)

Spec == Init /\ [][Next]_editVars
==============================================================================
