----------------------------- MODULE Normalize -----------------------------
(***************************************************************************)
(* normalize_and_hexhash (src/keystore.cc 105-144): the canonical form of  *)
(* a PEM public key, whose digest is a persona id or a kex id.             *)
(*                                                                         *)
(* Strings are sequences over a small alphabet Char, and the two markers   *)
(* are constants. The real BEGIN marker "-----BEGIN PUBLIC KEY-----" both *)
(* starts and ends with "-----", so one occurrence can overlap another; a  *)
(* model marker such as <<"-","B","-">> keeps that property.               *)
(* The digest and blob2hex are an injective function of the canonical     *)
(* form (collisions are not modelled), so the model returns the canonical  *)
(* form itself: two inputs get the same id iff their canonical forms are   *)
(* equal.                                                                  *)
(***************************************************************************)
EXTENDS Naturals, Sequences

CONSTANTS
    Char,       \* the alphabet of the modelled strings
    PubBegin,   \* marker::pub_begin
    PubEnd,     \* marker::pub_end
    MaxLen,     \* the longest input string enumerated
    MaxGarbage  \* the longest garbage appended to an input

ASSUME NormAssumption ==
    /\ PubBegin \in Seq(Char) /\ PubEnd \in Seq(Char)
    /\ Len(PubBegin) > 0 /\ Len(PubEnd) > 0
    /\ MaxLen \in Nat /\ MaxGarbage \in Nat

(* What the real markers "-----BEGIN PUBLIC KEY-----" and "-----END PUBLIC *)
(* KEY-----" of marker:: satisfy: END does not occur inside BEGIN, and    *)
(* BEGIN does not end with the newline that line 128 appends.             *)
ASSUME MarkerAssumption ==
    /\ \A i \in 1..(Len(PubBegin) - Len(PubEnd) + 1) :
          SubSeq(PubBegin, i, i + Len(PubEnd) - 1) # PubEnd
    /\ PubBegin[Len(PubBegin)] # "\n"

\* The strings over Char of length at most n.
Strings(n) == UNION {[1..k -> Char] : k \in 0..n}

\* std::string::find(m, from) with 1-based positions: the first position
\* i >= from at which m occurs in s, or 0 (string::npos) when there is none.
Find(s, m, from) ==
    LET At == {i \in from..(Len(s) - Len(m) + 1) :
                  SubSeq(s, i, i + Len(m) - 1) = m}
    IN  IF At = {} THEN 0 ELSE CHOOSE i \in At : \A j \in At : i <= j

\* The result of the function: failure (return -1), or success with the
\* canonical string whose digest is the id.
Fail == [ok |-> FALSE, canon |-> <<>>]
Ok(c) == [ok |-> TRUE, canon |-> c]

NL == <<"\n">>

\* Mutants of NormalizeAndHexhash, each a plausible slip in lines 116-128.
\* The truncation after the END marker (line 125) is left out.
Bug_NoTruncate(s) ==
    LET start == Find(s, PubBegin, 1)
        r     == SubSeq(s, start, Len(s))
    IN  IF start = 0 \/ Find(r, PubBegin, Len(PubBegin) + 1) # 0
           \/ Find(r, PubEnd, 1) = 0 THEN Fail
        ELSE Ok(r \o NL)

\* The END marker is searched with rfind: the last one, not the first.
Bug_LastEnd(s) ==
    LET start == Find(s, PubBegin, 1)
        r     == SubSeq(s, start, Len(s))
        Ends  == {i \in 1..Len(r) : Find(r, PubEnd, i) = i}
    IN  IF start = 0 \/ Find(r, PubBegin, Len(PubBegin) + 1) # 0
           \/ Ends = {} THEN Fail
        ELSE LET end == CHOOSE i \in Ends : \A j \in Ends : j <= i
             IN  Ok(SubSeq(r, 1, end + Len(PubEnd) - 1) \o NL)

\* The second BEGIN is searched one position too late (line 121).
Bug_SecondLate(s) ==
    LET start == Find(s, PubBegin, 1)
        r     == SubSeq(s, start, Len(s))
        end   == Find(r, PubEnd, 1)
    IN  IF start = 0 \/ Find(r, PubBegin, Len(PubBegin) + 2) # 0
           \/ end = 0 THEN Fail
        ELSE Ok(SubSeq(r, 1, end + Len(PubEnd) - 1) \o NL)

(***************************************************************************)
(* The code. After erasing the prefix the BEGIN marker is at position 1,   *)
(* and the search for a second one starts at offset pub_begin.size(), the *)
(* 1-based position Len(PubBegin) + 1. The END marker is the first one.    *)
(***************************************************************************)
NormalizeAndHexhash(s) ==
    LET start == Find(s, PubBegin, 1)
        r     == SubSeq(s, start, Len(s))           \* s.erase(0, start)
        end   == Find(r, PubEnd, 1)
    IN  IF start = 0 THEN Fail
        ELSE IF Find(r, PubBegin, Len(PubBegin) + 1) # 0 THEN Fail
        ELSE IF end = 0 THEN Fail
        ELSE Ok(SubSeq(r, 1, end + Len(PubEnd) - 1) \o NL)

(***************************************************************************)
(* The reference: spec.md 4.2 read literally. Step 3 rejects a remaining   *)
(* string in which BEGIN occurs more than once, at any position.          *)
(***************************************************************************)
SpecNormalize(s) ==
    LET start == Find(s, PubBegin, 1)
        r     == SubSeq(s, start, Len(s))
        end   == Find(r, PubEnd, 1)
    IN  IF start = 0 \/ Find(r, PubBegin, 2) # 0 \/ end = 0 THEN Fail
        ELSE Ok(SubSeq(r, 1, end + Len(PubEnd) - 1) \o NL)

(***************************************************************************)
(* One call of the function on an input the program can be handed: any    *)
(* blob read from a file or from a mail, up to MaxLen characters.          *)
(***************************************************************************)
VARIABLES input, out, returned

vars == <<input, out, returned>>

Init ==
    /\ input \in Strings(MaxLen)
    /\ out = Fail
    /\ returned = FALSE

Normalize ==
    /\ ~returned
    /\ out' = NormalizeAndHexhash(input)
    /\ returned' = TRUE
    /\ UNCHANGED input

Next == Normalize

Spec == Init /\ [][Next]_vars

-----------------------------------------------------------------------------
(* Properties. Each is checked after the call has returned.               *)

Done == returned

\* Normalizing a canonical form again gives the same id: the id stored as a
\* directory name is reproducible from the stored rsa.pub.pem/dh.pub.pem, as
\* the comment at line 140 ("can be re-checked via sha256sum") promises.
Idempotent ==
    Done /\ out.ok => NormalizeAndHexhash(out.canon) = out

\* Trailing garbage or extra newlines after an accepted key never change its
\* id: the result is the same id or a rejection (spec.md 4.2, last
\* paragraph), so one key cannot be imported twice under two ids this way.
TrailingStable ==
    Done /\ out.ok =>
        \A t \in Strings(MaxGarbage) :
            NormalizeAndHexhash(input \o t) \in {out, Fail}

\* The code computes spec.md 4.2 exactly, except on an input whose second
\* BEGIN marker overlaps the first one: then the code accepts where the
\* spec rejects.
AgreesWithSpec ==
    Done =>
        \/ out = SpecNormalize(input)
        \/ LET r == SubSeq(input, Find(input, PubBegin, 1), Len(input))
           IN  out.ok /\ Find(r, PubBegin, 2) \in 2..Len(PubBegin)

\* spec.md 4.2 step 3 and section 3 invariant 4: an accepted key holds the
\* BEGIN marker exactly once ("only a single key is permitted").
OneBeginFrame ==
    Done /\ out.ok =>
        Find(out.canon, PubBegin, 2) = 0
=============================================================================
