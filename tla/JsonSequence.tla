----------------------------- MODULE JsonSequence -----------------------------
(***************************************************************************)
(* What an array of the JSON library promises: a sequence, counted from    *)
(* zero, that grows by nulls up to an index that is used and shifts what   *)
(* stands behind a place when something is inserted or removed there.      *)
(* Nulls at the end that nobody stored may go when the array is cut.       *)
(***************************************************************************)
EXTENDS Naturals, SequencesExt

CONSTANTS Filler,     \* what an entry is before something is stored: null
          Entries,    \* what is stored
          Ends,       \* the indices and lengths that are used
          Others      \* what is assigned to the array as a whole

VARIABLE seq

Padded(n) == seq \o [k \in 1..Max({n - Len(seq), 0}) |-> Filler]

(* s, or s without some of the fillers at its end.                         *)
CutTo(s) ==
  \E n \in 0..Len(s) : /\ seq' = SubSeq(s, 1, n)
                       /\ \A k \in (n + 1)..Len(s) : s[k] = Filler

Store(i, x) == seq' = [Padded(i + 1) EXCEPT ![i + 1] = x]
Use(i) == seq' = Padded(i + 1)
Add(x) == seq' = Append(seq, x)
InsertEntry(i, x) == i <= Len(seq) /\ seq' = InsertAt(seq, i + 1, x)
RemoveEntry(i) == i < Len(seq) /\ CutTo(RemoveAt(seq, i + 1))
Resize(n) == IF n >= Len(seq) THEN seq' = Padded(n) ELSE CutTo(SubSeq(seq, 1, n))
Clear == seq' = <<>>
Assign(s) == seq' = s

Init == seq = <<>>
Next == \/ Clear
        \/ \E i \in Ends : Use(i) \/ RemoveEntry(i) \/ Resize(i)
        \/ \E x \in Entries : Add(x)
        \/ \E i \in Ends, x \in Entries : Store(i, x) \/ InsertEntry(i, x)
        \/ \E s \in Others : Assign(s)

Spec == Init /\ [][Next]_seq
=============================================================================
