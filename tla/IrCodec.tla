------------------------------- MODULE IrCodec ------------------------------
(***************************************************************************)
(* The PRONTO and GlobalCache decoders of src/lib/util/ir_codes.hpp and   *)
(* the send task's use of them (InfraredService::send_ir_f).               *)
(*                                                                         *)
(* A message is abstracted to the sequence of numbers strtoul() returns    *)
(* for its separator-delimited fields, whether it ends in a separator, and *)
(* (GlobalCache) whether it starts with the word "sendir", whose own       *)
(* field strtoul() reads as 0.  Counters and array cells are uint16_t and  *)
(* are kept modulo 2^16; comparisons are done in int, as C promotes them.  *)
(***************************************************************************)
EXTENDS Naturals, Sequences, SequencesExt

CONSTANTS
    ProntoValues,     \* numbers strtoul(.., 16) may return for a field
    GcValues,         \* numbers strtoul(.., 10) may return for a field
    ProntoMaxFields,  \* bound on the fields of a PRONTO message
    GcMaxFields,      \* bound on the fields of a GlobalCache message
    SafeAlloc         \* malloc of up to this many uint16_t always succeeds

ASSUME /\ ProntoValues \subseteq Nat /\ GcValues \subseteq Nat
       /\ 0 \in GcValues
       /\ ProntoMaxFields \in Nat /\ GcMaxFields \in Nat /\ SafeAlloc \in Nat

U16(x) == x % 65536

\* A message ends in a separator only if it has a field before it; a
\* "sendir" message has the word as its first field.
ProntoMessages ==
    {m \in [format : {"pronto"}, sendir : {FALSE},
            fields : BoundedSeq(ProntoValues, ProntoMaxFields),
            trailing : BOOLEAN] :
        m.trailing => m.fields # <<>>}

GcMessages ==
    {m \in [format : {"gc"}, sendir : BOOLEAN,
            fields : BoundedSeq(GcValues, GcMaxFields), trailing : BOOLEAN] :
        /\ m.trailing => m.fields # <<>>
        /\ m.sendir => m.fields # <<>> /\ m.fields[1] = 0}

NoResult == [ok |-> FALSE, memError |-> FALSE, codes |-> <<>>, alloc |-> 0,
             done |-> FALSE]

VARIABLES
    msg,  \* pIrMsg->message of the message the send task peeked
    out   \* what the decoder returned: the array (ok), memError, the
          \* number of uint16_t it asked malloc for, and whether it ran

vars == <<msg, out>>

TypeOK ==
    /\ msg \in ProntoMessages \cup GcMessages
    /\ out.ok \in BOOLEAN /\ out.memError \in BOOLEAN /\ out.done \in BOOLEAN
    /\ out.codes \in Seq(0..65535)
    /\ out.alloc \in 0..65535

-----------------------------------------------------------------------------
(***************************************************************************)
(* The decoders.                                                           *)
(***************************************************************************)

\* countValuesInCStr(): 0 for an empty string, else separators + 1, in
\* uint16_t.  A message of n fields has n - 1 separators, one more if it
\* ends in one.
CountValuesInCStr(m) ==
    IF m.fields = <<>> THEN 0
    ELSE U16(Len(m.fields) + (IF m.trailing THEN 1 ELSE 0))

\* Mutant: the strtoul() result stored without truncation to uint16_t.
ParsedFieldsUntruncated(m) == [i \in 1..Len(m.fields) |-> m.fields[i]]

\* The parse loops store strtoul() of every field that a separator ends,
\* and of the last field if it is not empty, into uint16_t cells.
ParsedFields(m) == [i \in 1..Len(m.fields) |-> U16(m.fields[i])]

\* malloc(n * 2): guaranteed below SafeAlloc, either outcome above it
\* (the largest free block of the heap is not known statically).
MallocOutcomes(n) == IF n <= SafeAlloc THEN {TRUE} ELSE BOOLEAN

Null(memError, alloc) ==
    [ok |-> FALSE, memError |-> memError, codes |-> <<>>, alloc |-> alloc,
     done |-> TRUE]
Array(codes, alloc) ==
    [ok |-> TRUE, memError |-> FALSE, codes |-> codes, alloc |-> alloc,
     done |-> TRUE]

\* Mutant: the minimum length compared with <= instead of <.
ProntoLongEnoughOffByOne(count) == count > 6

\* "minimal length is 6": preamble of 4 and one code pair.
ProntoLongEnough(count) == count >= 6

\* The two burst-table checks, with seq1Len, seq2Len and seq2Start
\* computed in uint16_t.
ProntoTablesFit(arr, n) ==
    LET seq1Len   == U16(arr[3] * 2)
        seq2Len   == U16(arr[4] * 2)
        seq2Start == U16(4 + seq1Len)
    IN  /\ ~(seq1Len > 0 /\ seq1Len + 4 > n)
        /\ ~(seq2Len > 0 /\ seq2Len + seq2Start > n)

\* prontoBufferToArray(msg, separator, &count, &memError).
ProntoBufferToArray(m, mallocOk) ==
    LET count == CountValuesInCStr(m)
        arr   == ParsedFields(m)
    IN  IF ~ProntoLongEnough(count) THEN Null(FALSE, 0)
        ELSE IF ~mallocOk THEN Null(TRUE, count)
        ELSE IF arr[1] # 0 THEN Null(FALSE, count)
        ELSE IF ProntoTablesFit(arr, Len(arr)) THEN Array(arr, count)
        ELSE Null(FALSE, count)

\* Mutant: one field too many skipped after "sendir".
GcKeptSkipFour(arr, startIndex, trailing) ==
    IF Len(arr) > startIndex + 1 THEN SubSeq(arr, startIndex + 2, Len(arr))
    ELSE IF trailing \/ arr = <<>> THEN <<>> ELSE <<Last(arr)>>

\* The fields the GlobalCache loop stores: those at index >= startIndex
\* that a separator ends, and the last field whatever its index, if it is
\* not empty.
GcKept(arr, startIndex, trailing) ==
    IF Len(arr) > startIndex THEN SubSeq(arr, startIndex + 1, Len(arr))
    ELSE IF trailing \/ arr = <<>> THEN <<>> ELSE <<Last(arr)>>

\* globalCacheBufferToArray(msg, &count, &memError): "sendir" lowers the
\* uint16_t count by 3 and skips three fields.
GlobalCacheBufferToArray(m, mallocOk) ==
    LET startIndex == IF m.sendir THEN 3 ELSE 0
        count      == U16(CountValuesInCStr(m) - startIndex)
    IN  IF count < 6 THEN Null(FALSE, 0)
        ELSE IF ~mallocOk THEN Null(TRUE, count)
        ELSE Array(GcKept(ParsedFields(m), startIndex, m.trailing), count)

\* The count malloc is asked for, before it is called.
AllocCount(m) ==
    IF m.format = "pronto" THEN CountValuesInCStr(m)
    ELSE U16(CountValuesInCStr(m) - (IF m.sendir THEN 3 ELSE 0))

-----------------------------------------------------------------------------
Init ==
    /\ msg \in ProntoMessages \cup GcMessages
    /\ out = NoResult

\* The PRONTO and GLOBAL_CACHE cases of send_ir_f: decode, then send the
\* array, or log and rebootIfMemError().  (The separator is detected
\* before the call; the abstraction of msg already has it split.)
Decode ==
    /\ ~out.done
    /\ \E mallocOk \in MallocOutcomes(AllocCount(msg)) :
          out' = IF msg.format = "pronto"
                   THEN ProntoBufferToArray(msg, mallocOk)
                   ELSE GlobalCacheBufferToArray(msg, mallocOk)
    /\ UNCHANGED msg

Next == Decode

Spec == Init /\ [][Next]_vars

-----------------------------------------------------------------------------
(***************************************************************************)
(* The reference: the formats as spec section 4.1 states them, with       *)
(* unbounded integers.                                                     *)
(***************************************************************************)

AllU16(s) == \A i \in DOMAIN s : s[i] <= 65535

\* parseProntoRaw: at least 6 values, the first 0, and both burst tables
\* within the values.
ProntoWellFormed(s) ==
    /\ AllU16(s) /\ Len(s) >= 6 /\ s[1] = 0
    /\ 4 + 2 * s[3] <= Len(s)
    /\ 4 + 2 * s[3] + 2 * s[4] <= Len(s)

\* parseGlobalCache: after "sendir" the first three fields are skipped;
\* the values that remain are the code (at least the 6 the code asks for).
GcValuesOf(m) ==
    IF ~m.sendir THEN m.fields
    ELSE IF Len(m.fields) > 3 THEN SubSeq(m.fields, 4, Len(m.fields))
    ELSE <<>>

WellFormed(m) ==
    IF m.format = "pronto" THEN ProntoWellFormed(m.fields)
    ELSE AllU16(GcValuesOf(m)) /\ Len(GcValuesOf(m)) >= 6

ReferenceValues(m) ==
    IF m.format = "pronto" THEN m.fields ELSE GcValuesOf(m)

-----------------------------------------------------------------------------
(***************************************************************************)
(* Properties.                                                             *)
(***************************************************************************)

\* Every well-formed PRONTO or GlobalCache code is decoded to exactly its
\* values (unless malloc fails): the length checks and the field skipping
\* of the decoders reject nothing they should accept.
WellFormedDecoded ==
    out.done /\ WellFormed(msg) =>
        \/ out.ok /\ out.codes = ReferenceValues(msg)
        \/ out.memError

\* Malformed input is rejected and never crashes the dock (spec 7 (1)):
\* the reboot of rebootIfMemError() follows only an allocation for a
\* well-formed code.
MalformedNeverReboots == out.memError => WellFormed(msg)

=============================================================================
