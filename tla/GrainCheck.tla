----------------------------- MODULE GrainCheck -----------------------------
(***************************************************************************)
(* The startup check that an upsert target holds one row per key:          *)
(* src/src/grain.rs.                                                       *)
(*                                                                         *)
(* A pass hashes the key column, keeps the hashes of one congruence class  *)
(* in a buffer of fixed size and nominates the repeated ones; a class with *)
(* too many distinct hashes is split in two.  Nominated hashes are         *)
(* resolved against the keys.  The hash is a constant, so it may collide   *)
(* and may be as skewed as the instance likes.                             *)
(***************************************************************************)
EXTENDS Integers, SequencesExt

CONSTANTS
    Keys,       \* the key column's values
    Hash,       \* hash64: a hash for each key
    MaxModulus, \* bound: above every hash, as 2^64 is
    Cap,        \* hashes_per_pass
    MaxPasses,  \* MAX_PASSES
    Chunk,      \* VERIFY_CHUNK
    Examples,   \* duplicates to show
    MaxRows     \* bound: rows of the target

(* Assumed of the constants; the suites that instantiate the module assume it. *)
ConstantsAssumption ==
    /\ MaxModulus \in Nat /\ Hash \in [Keys -> 0 .. MaxModulus - 1]
    /\ Cap \in Nat /\ Cap >= 4
    /\ MaxPasses \in Nat \ {0} /\ Chunk \in Nat \ {0} /\ Examples \in Nat \ {0}
    /\ MaxRows \in Nat

VARIABLES
    rows,      \* the key of each of the target's rows, in the order of the scan
    queue,     \* classes to scan, the first of them being scanned
    pos,       \* rows of it already scanned
    hashes,    \* the buffer
    nominated, \* hashes seen twice
    found,     \* duplicates found
    passes,
    answer

vars == <<rows, queue, pos, hashes, nominated, found, passes, answer>>

Class(modulus, residue) == [modulus |-> modulus, residue |-> residue]

Holds(class, h) == h % class.modulus = class.residue

Copies(k) == Cardinality({i \in DOMAIN rows : rows[i] = k})

-----------------------------------------------------------------------------

\* initial_modulus: the rows the log records, or a guess from the files' bytes, with
\* one per cent of slack.
InitialModulus(estimate) ==
    LET want == (estimate * 101) \div 100
    IN  Max({1, (want + Cap - 1) \div Cap})

\* A modulus above MAX_PASSES is refused before anything is read.
Init ==
    \E n \in 0 .. MaxRows : \E estimate \in {n, 0, MaxRows * 4} :
        LET m == InitialModulus(estimate) IN
        /\ rows \in [1 .. n -> Keys]
        /\ queue = [i \in 1 .. m |-> Class(m, i - 1)]
        /\ pos = 0 /\ hashes = << >> /\ nominated = {} /\ found = {} /\ passes = 0
        /\ answer = IF m > MaxPasses THEN "refused" ELSE "none"

Scanning == answer = "none" /\ pos # -1

\* The next class, unless the passes have run out.
StartPass ==
    /\ Scanning /\ pos = 0 /\ queue # << >> /\ hashes = << >> /\ nominated = {}
    /\ IF passes >= 4 * MaxPasses
       THEN answer' = "refused" /\ UNCHANGED <<pos, passes>>
       ELSE passes' = passes + 1 /\ pos' = 1 /\ UNCHANGED answer
    /\ UNCHANGED <<rows, queue, hashes, nominated, found>>

Twice(hs) == {h \in ToSet(hs) : \E i, j \in DOMAIN hs : i # j /\ hs[i] = h /\ hs[j] = h}

\* compact: a hash is in the buffer once, or nominated, never both.
CompactNominated(hs) == nominated \cup Twice(hs)
CompactHashes(hs) == SetToSeq(ToSet(hs) \ CompactNominated(hs))

\* Mutant: a full buffer is given up without looking for repeats.
TooWideAtOnce == Len(hashes) + Cardinality(nominated) > Cap - Cap \div 4

\* Compaction barely helped: too many distinct keys.
TooWide == Len(CompactHashes(hashes)) + Cardinality(CompactNominated(hashes)) > Cap - Cap \div 4

\* Mutant: one more than the ceiling.
FullLate == Len(hashes) + Cardinality(nominated) > Cap

Full == Len(hashes) + Cardinality(nominated) >= Cap

ScanRow ==
    /\ Scanning /\ ~Full /\ pos \in DOMAIN rows
    /\ LET h == Hash[rows[pos]] IN
       hashes' = IF Holds(queue[1], h) THEN Append(hashes, h) ELSE hashes
    /\ pos' = pos + 1
    /\ UNCHANGED <<rows, queue, nominated, found, passes, answer>>

\* The buffer is full: what is repeated is taken out of it.
CompactBuffer ==
    /\ Scanning /\ Full /\ ~TooWide
    /\ hashes' = CompactHashes(hashes) /\ nominated' = CompactNominated(hashes)
    /\ UNCHANGED <<rows, queue, pos, found, passes, answer>>

\* Mutant: the second half starts at the same residue.
SplitInto(class) ==
    <<Class(2 * class.modulus, class.residue), Class(2 * class.modulus, class.residue)>>

\* Class::split.
Split(class) ==
    <<Class(2 * class.modulus, class.residue),
      Class(2 * class.modulus, class.residue + class.modulus)>>

\* Overflowed: nothing is decided, and the class is scanned again as its two halves.
Overflow ==
    /\ Scanning /\ Full /\ TooWide
    /\ IF 2 * queue[1].modulus > MaxModulus
       THEN answer' = "undividable" /\ UNCHANGED queue
       ELSE queue' = Split(queue[1]) \o Tail(queue) /\ UNCHANGED answer
    /\ pos' = 0 /\ hashes' = << >> /\ nominated' = {}
    /\ UNCHANGED <<rows, found, passes>>

\* The end of the column: what is nominated goes to be verified.
EndPass ==
    /\ Scanning /\ ~Full /\ pos = Len(rows) + 1
    /\ nominated' = CompactNominated(hashes)
    /\ hashes' = << >>
    /\ queue' = Tail(queue)
    /\ pos' = IF nominated' = {} THEN 0 ELSE -1
    /\ UNCHANGED <<rows, found, passes, answer>>

\* The hashes of one verification pass: the lowest of the sorted candidates.
NextChunk == {h \in nominated : Cardinality({g \in nominated : g < h}) < Chunk}

\* A key seen twice, which a collision is not.
Real(chunk) ==
    {[key |-> k, rows |-> Copies(k)] : k \in {k \in ToSet(rows) : Hash[k] \in chunk /\ Copies(k) > 1}}

\* One chunk of candidates against the real keys; the check ends with enough examples.
Verify ==
    /\ answer = "none" /\ pos = -1
    /\ found' = found \cup Real(NextChunk)
    /\ LET enough == Cardinality(found') >= Examples
           rest == nominated \ NextChunk
       IN  /\ nominated' = IF enough THEN {} ELSE rest
           /\ pos' = IF enough \/ rest = {} THEN 0 ELSE -1
           /\ queue' = IF enough THEN << >> ELSE queue
    /\ UNCHANGED <<rows, hashes, passes, answer>>

Answer ==
    /\ Scanning /\ pos = 0 /\ queue = << >>
    /\ answer' = IF found = {} THEN "unique" ELSE "duplicated"
    /\ UNCHANGED <<rows, queue, pos, hashes, nominated, found, passes>>

Next == StartPass \/ ScanRow \/ CompactBuffer \/ Overflow \/ EndPass \/ Verify \/ Answer

Spec == Init /\ [][Next]_vars

-----------------------------------------------------------------------------
(* Properties.                                                             *)

Duplicated == {k \in ToSet(rows) : Copies(k) > 1}

\* The answer is exact although the hash is not: a target is refused only for a key it
\* holds twice, and passed only if it holds none, however often the key space was split
\* and whatever the row count in the log (grain::check, verify).
Exact ==
    /\ answer = "unique" => Duplicated = {}
    /\ answer = "duplicated" => found # {}
    /\ \A d \in found : d.key \in Duplicated /\ d.rows = Copies(d.key)

\* A pass never holds more hashes than its ceiling (scan_class).
WithinCeiling == Len(hashes) + Cardinality(nominated) <= Cap

\* A class is never split further than the hash reaches: rows that share a key are
\* compacted, not split (Class::split: "Nothing should reach this now").
NeverUndividable == answer # "undividable"

=============================================================================
