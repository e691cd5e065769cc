--------------------------- MODULE NormalizeProofs ---------------------------
(***************************************************************************)
(* Proofs about normalize_and_hexhash for strings of every length and for *)
(* any markers that satisfy NormAssumption and MarkerAssumption.  The     *)
(* lemmas first pin down Find (std::string::find): it returns the least    *)
(* position from `from' on where the marker occurs, and an occurrence      *)
(* that lies inside a prefix of a string is found in the whole string.    *)
(***************************************************************************)
EXTENDS Normalize, SequenceTheorems, WellFoundedInduction, TLAPS

USE NormAssumption

(* The marker m occurs in s at position i (a window inside s).            *)
Occurs(s, m, i) ==
  /\ i \in 1..(Len(s) - Len(m) + 1)
  /\ SubSeq(s, i, i + Len(m) - 1) = m

(* A nonempty set of naturals has a least element.                        *)
LEMMA NatMin ==
  ASSUME NEW T \in SUBSET Nat, T # {}
  PROVE  \E x \in T : \A y \in T : x <= y
<1>1. IsWellFoundedOn(OpToRel(<, Nat), Nat)
  BY NatLessThanWellFounded
<1>2. PICK x \in T : \A y \in T : ~(<<y, x>> \in OpToRel(<, Nat))
  BY <1>1, WFMin
<1>3. ASSUME NEW y \in T PROVE x <= y
  <2>1. <<y, x>> \in Nat \X Nat
    OBVIOUS
  <2>2. ~(y < x)
    BY <1>2, <2>1 DEF OpToRel
  <2>3. QED
    BY <2>2
<1>4. QED
  BY <1>3

(* Find chooses the least of the positions from `from' on where the       *)
(* marker occurs.                                                          *)
Positions(s, m, from) == {i \in Nat : i >= from /\ Occurs(s, m, i)}

(* What Find returns for a set of positions.                             *)
Least(P) == IF P = {} THEN 0 ELSE CHOOSE i \in P : \A j \in P : i <= j

LEMMA FindSet ==
  ASSUME NEW S, NEW s \in Seq(S), NEW m \in Seq(S), NEW from \in Nat \ {0}
  PROVE  Find(s, m, from) = Least(Positions(s, m, from))
<1>1. ASSUME NEW i
      PROVE  i \in from..(Len(s) - Len(m) + 1)
               <=> i \in Nat /\ i >= from /\ i \in 1..(Len(s) - Len(m) + 1)
  OBVIOUS
<1>2. {i \in from..(Len(s) - Len(m) + 1) : SubSeq(s, i, i + Len(m) - 1) = m}
        = Positions(s, m, from)
  BY <1>1, Zenon DEF Positions, Occurs
<1>3. Find(s, m, from) =
        Least({i \in from..(Len(s) - Len(m) + 1) : SubSeq(s, i, i + Len(m) - 1) = m})
  BY DEF Find, Least
<1>4. QED
  BY <1>2, <1>3

(* A first occurrence from `from' on is what Find returns.                *)
LEMMA FindFirst ==
  ASSUME NEW S, NEW s \in Seq(S), NEW m \in Seq(S), NEW from \in Nat \ {0},
         NEW f \in Nat, f >= from, Occurs(s, m, f),
         \A j \in from..(f - 1) : ~Occurs(s, m, j)
  PROVE  Find(s, m, from) = f
<1> DEFINE P == Positions(s, m, from)
<1>1. f \in P /\ \A j \in P : f <= j
  BY DEF Positions
<1> DEFINE c == CHOOSE i \in P : \A j \in P : i <= j
<1>2. c \in P /\ \A j \in P : c <= j
  BY <1>1
<1>3. c = f
  <2>1. c \in Nat /\ c <= f /\ f <= c
    BY <1>1, <1>2 DEF Positions
  <2>2. QED
    BY <2>1
<1>4. QED
  BY <1>1, <1>3, FindSet DEF Least

(* No occurrence from `from' on: Find returns 0 (string::npos).           *)
LEMMA FindNone ==
  ASSUME NEW S, NEW s \in Seq(S), NEW m \in Seq(S), NEW from \in Nat \ {0},
         \A i \in Nat : i >= from => ~Occurs(s, m, i)
  PROVE  Find(s, m, from) = 0
<1>1. Positions(s, m, from) = {}
  BY DEF Positions
<1>2. QED
  BY <1>1, FindSet DEF Least

(* A result other than 0 is a first occurrence from `from' on ...         *)
LEMMA FindFound ==
  ASSUME NEW S, NEW s \in Seq(S), NEW m \in Seq(S), NEW from \in Nat \ {0},
         Find(s, m, from) # 0
  PROVE  /\ Find(s, m, from) \in Nat
         /\ Find(s, m, from) >= from
         /\ Occurs(s, m, Find(s, m, from))
         /\ \A j \in from..(Find(s, m, from) - 1) : ~Occurs(s, m, j)
<1> DEFINE P == Positions(s, m, from)
<1>1. P # {}
  BY FindSet DEF Least
<1>2. \E x \in P : \A y \in P : x <= y
  BY <1>1, NatMin DEF Positions
<1>3. Find(s, m, from) \in P /\ \A y \in P : Find(s, m, from) <= y
  BY <1>1, <1>2, FindSet DEF Least
<1>4. QED
  BY <1>3 DEF Positions

(* ... and 0 means there is none.                                          *)
LEMMA FindZero ==
  ASSUME NEW S, NEW s \in Seq(S), NEW m \in Seq(S), NEW from \in Nat \ {0},
         Find(s, m, from) = 0
  PROVE  \A i \in Nat : i >= from => ~Occurs(s, m, i)
<1> DEFINE P == Positions(s, m, from)
<1>1. SUFFICES ASSUME P # {} PROVE FALSE
  BY DEF Positions
<1>2. \E x \in P : \A y \in P : x <= y
  BY <1>1, NatMin DEF Positions
<1>3. Find(s, m, from) \in P
  BY <1>1, <1>2, FindSet DEF Least
<1>4. QED
  BY <1>3 DEF Positions

(* Moving the start of the search forward past no occurrence finds none,   *)
(* and past none before the first occurrence finds that same occurrence.  *)
LEMMA FindLaterNone ==
  ASSUME NEW S, NEW s \in Seq(S), NEW m \in Seq(S), NEW from \in Nat \ {0},
         NEW from2 \in Nat, from2 >= from, Find(s, m, from) = 0
  PROVE  Find(s, m, from2) = 0
<1>1. \A i \in Nat : i >= from => ~Occurs(s, m, i)
  BY FindZero
<1>2. QED
  BY <1>1, FindNone

LEMMA FindLaterSame ==
  ASSUME NEW S, NEW s \in Seq(S), NEW m \in Seq(S), NEW from \in Nat \ {0},
         NEW from2 \in Nat, from2 >= from, Find(s, m, from) # 0,
         Find(s, m, from) >= from2
  PROVE  Find(s, m, from2) = Find(s, m, from)
<1> DEFINE f == Find(s, m, from)
<1>1. f \in Nat /\ Occurs(s, m, f) /\ \A j \in from..(f - 1) : ~Occurs(s, m, j)
  BY FindFound
<1>2. \A j \in from2..(f - 1) : ~Occurs(s, m, j)
  BY <1>1
<1>3. QED
  BY <1>1, <1>2, FindFirst

(* Whether m occurs at i depends only on the characters of the window.    *)
LEMMA OccursAgree ==
  ASSUME NEW S, NEW u \in Seq(S), NEW v \in Seq(S), NEW m \in Seq(S),
         NEW i \in Nat \ {0},
         i + Len(m) - 1 <= Len(u), i + Len(m) - 1 <= Len(v),
         \A k \in i..(i + Len(m) - 1) : u[k] = v[k]
  PROVE  Occurs(u, m, i) <=> Occurs(v, m, i)
<1>1. SubSeq(u, i, i + Len(m) - 1) = SubSeq(v, i, i + Len(m) - 1)
  OBVIOUS
<1>2. i \in 1..(Len(u) - Len(m) + 1) /\ i \in 1..(Len(v) - Len(m) + 1)
  OBVIOUS
<1>3. QED
  BY <1>1, <1>2, SMTT(20) DEF Occurs

(* Occurs, character by character.                                         *)
LEMMA OccursAt ==
  ASSUME NEW S, NEW s \in Seq(S), NEW m \in Seq(S), NEW i, Occurs(s, m, i)
  PROVE  /\ i \in Nat \ {0} /\ i + Len(m) - 1 <= Len(s)
         /\ \A k \in 1..Len(m) : s[i + k - 1] = m[k]
<1>1. i \in Nat \ {0} /\ i + Len(m) - 1 <= Len(s)
  BY DEF Occurs
<1>2. ASSUME NEW k \in 1..Len(m) PROVE s[i + k - 1] = m[k]
  <2>1. SubSeq(s, i, i + Len(m) - 1)[k] = s[i + k - 1]
    BY <1>1, SubSeqProperties
  <2>2. QED
    BY <2>1 DEF Occurs
<1>3. QED
  BY <1>1, <1>2

LEMMA OccursIntro ==
  ASSUME NEW S, NEW s \in Seq(S), NEW m \in Seq(S), NEW i \in Nat \ {0},
         i + Len(m) - 1 <= Len(s),
         \A k \in 1..Len(m) : s[i + k - 1] = m[k]
  PROVE  Occurs(s, m, i)
<1>1. /\ SubSeq(s, i, i + Len(m) - 1) \in Seq(S)
      /\ Len(SubSeq(s, i, i + Len(m) - 1)) = Len(m)
      /\ \A k \in 1..Len(m) : SubSeq(s, i, i + Len(m) - 1)[k] = s[i + k - 1]
  BY SubSeqProperties
<1>2. SubSeq(s, i, i + Len(m) - 1) = m
  BY <1>1, SeqEqual
<1>3. QED
  BY <1>2 DEF Occurs

(* Appending characters after a found marker does not move it: an earlier *)
(* occurrence in the longer string would lie inside the shorter one.      *)
LEMMA FindExtend ==
  ASSUME NEW S, NEW x \in Seq(S), NEW y \in Seq(S), NEW m \in Seq(S),
         NEW from \in Nat \ {0}, Find(x, m, from) # 0
  PROVE  Find(x \o y, m, from) = Find(x, m, from)
<1> DEFINE f == Find(x, m, from)
           xy == x \o y
<1>1. /\ f \in Nat /\ f >= from /\ Occurs(x, m, f)
      /\ \A j \in from..(f - 1) : ~Occurs(x, m, j)
  BY FindFound
<1>2. /\ xy \in Seq(S) /\ Len(xy) = Len(x) + Len(y)
      /\ \A k \in 1..Len(x) : xy[k] = x[k]
  BY ConcatProperties
<1>3. /\ f + Len(m) - 1 <= Len(x) /\ f + Len(m) - 1 <= Len(xy)
      /\ \A k \in f..(f + Len(m) - 1) : xy[k] = x[k]
  BY <1>1, <1>2, SMTT(20) DEF Occurs
<1>4. Occurs(xy, m, f)
  BY <1>1, <1>2, <1>3, OccursAgree
<1>5. ASSUME NEW j \in from..(f - 1) PROVE ~Occurs(xy, m, j)
  <2>1. /\ j \in Nat \ {0}
        /\ j + Len(m) - 1 <= Len(x) /\ j + Len(m) - 1 <= Len(xy)
        /\ \A k \in j..(j + Len(m) - 1) : xy[k] = x[k]
    BY <1>1, <1>2, <1>3, SMTT(20)
  <2>2. Occurs(xy, m, j) <=> Occurs(x, m, j)
    BY <1>2, <2>1, OccursAgree
  <2>3. QED
    BY <1>1, <2>2
<1>6. QED
  BY <1>1, <1>2, <1>4, <1>5, FindFirst

-----------------------------------------------------------------------------
(* The remaining string after line 118 erases the prefix before BEGIN.    *)
Rest(s) == SubSeq(s, Find(s, PubBegin, 1), Len(s))

LEMMA RestType ==
  ASSUME NEW s \in Seq(Char), Find(s, PubBegin, 1) # 0
  PROVE  /\ Find(s, PubBegin, 1) \in 1..Len(s)
         /\ Rest(s) \in Seq(Char)
         /\ Len(Rest(s)) = Len(s) - Find(s, PubBegin, 1) + 1
         /\ \A i \in 1..Len(Rest(s)) : Rest(s)[i] = s[Find(s, PubBegin, 1) + i - 1]
<1> DEFINE st == Find(s, PubBegin, 1)
<1>1. st \in Nat /\ Occurs(s, PubBegin, st)
  BY FindFound
<1>2. st \in 1..Len(s)
  BY <1>1 DEF Occurs
<1>3. QED
  BY <1>2, SubSeqProperties, SMTT(20) DEF Rest

(* The code and spec.md 4.2 part only on the second-BEGIN check: the code *)
(* searches from pub_begin.size() (line 121), the spec from the character *)
(* after the first marker.  A BEGIN found from position 2 on but not      *)
(* after the first marker overlaps it; otherwise both checks agree.       *)
LEMMA NormAgrees ==
  ASSUME NEW s \in Seq(Char)
  PROVE  \/ NormalizeAndHexhash(s) = SpecNormalize(s)
         \/ /\ NormalizeAndHexhash(s).ok
            /\ Find(Rest(s), PubBegin, 2) \in 2..Len(PubBegin)
<1> DEFINE st == Find(s, PubBegin, 1)
           r  == Rest(s)
           f2 == Find(r, PubBegin, 2)
           fl == Find(r, PubBegin, Len(PubBegin) + 1)
<1>1. CASE st = 0
  BY <1>1 DEF NormalizeAndHexhash, SpecNormalize
<1>2. CASE st # 0
  <2>1. r \in Seq(Char)
    BY <1>2, RestType
  <2>2. CASE f2 = 0
    <3>1. fl = 0
      BY <2>1, <2>2, FindLaterNone
    <3>2. QED
      BY <1>2, <2>2, <3>1 DEF NormalizeAndHexhash, SpecNormalize, Rest
  <2>3. CASE f2 # 0 /\ f2 >= Len(PubBegin) + 1
    <3>1. fl = f2
      BY <2>1, <2>3, FindLaterSame
    <3>2. QED
      BY <1>2, <2>3, <3>1 DEF NormalizeAndHexhash, SpecNormalize, Rest
  <2>4. CASE f2 # 0 /\ f2 < Len(PubBegin) + 1
    <3>1. f2 \in 2..Len(PubBegin)
      BY <2>1, <2>4, FindFound
    <3>2. SpecNormalize(s) = Fail
      BY <2>4 DEF SpecNormalize, Rest
    <3>3. NormalizeAndHexhash(s) = Fail \/ NormalizeAndHexhash(s).ok
      BY DEF NormalizeAndHexhash, Fail, Ok
    <3>4. QED
      BY <3>1, <3>2, <3>3
  <2>5. f2 \in Nat
    <3>1. CASE f2 # 0
      BY <2>1, <3>1, FindFound
    <3>2. QED
      BY <3>1
  <2>6. QED
    BY <2>2, <2>3, <2>4, <2>5
<1>3. QED
  BY <1>1, <1>2


-----------------------------------------------------------------------------
(* The call: the input is a string, and once the call has returned its    *)
(* result is what normalize_and_hexhash computes of that input.            *)
NInv ==
  /\ input \in Seq(Char)
  /\ returned => out = NormalizeAndHexhash(input)

LEMMA StringsSeq ==
  ASSUME NEW n \in Nat PROVE Strings(n) \subseteq Seq(Char)
  BY DEF Strings

LEMMA NInvInductive == Spec => []NInv
<1>1. Init => NInv
  BY StringsSeq DEF Init, NInv
<1>2. NInv /\ [Next]_vars => NInv'
  BY DEF NInv, Next, Normalize, vars
<1>3. QED
  BY <1>1, <1>2, PTL DEF Spec

(* For every alphabet, input length and pair of markers, the code's       *)
(* result (lines 116-128) is what spec.md 4.2 prescribes, except that it   *)
(* accepts an input whose second BEGIN marker overlaps the first one,      *)
(* since line 121 starts the search at pub_begin.size().                   *)
THEOREM AgreesWithSpecProved == Spec => []AgreesWithSpec
<1>1. NInv => AgreesWithSpec
  BY NormAgrees DEF NInv, AgreesWithSpec, Done, Rest
<1>2. QED
  BY <1>1, NInvInductive, PTL


-----------------------------------------------------------------------------
(* The canonical form of an accepted input: the remaining string up to    *)
(* and including the first END marker (line 125), and one newline (128).  *)
LEMMA NormOk ==
  ASSUME NEW s \in Seq(Char), NormalizeAndHexhash(s).ok
  PROVE  LET st == Find(s, PubBegin, 1)
             r  == Rest(s)
             e  == Find(r, PubEnd, 1)
         IN  /\ st # 0
             /\ Find(r, PubBegin, Len(PubBegin) + 1) = 0
             /\ e # 0
             /\ NormalizeAndHexhash(s) = Ok(SubSeq(r, 1, e + Len(PubEnd) - 1) \o NL)
  BY DEF NormalizeAndHexhash, Rest, Fail

(* The characters of a canonical form: the alphabet and the newline.      *)
Text == Char \cup {"\n"}

(* OccursAt and OccursIntro for strings of Text.                         *)
LEMMA TextOccursAt ==
  ASSUME NEW s \in Seq(Text), NEW m \in Seq(Text), NEW i, Occurs(s, m, i)
  PROVE  /\ i \in Nat \ {0} /\ i + Len(m) - 1 <= Len(s)
         /\ \A k \in 1..Len(m) : s[i + k - 1] = m[k]
  BY OccursAt

LEMMA TextOccursIntro ==
  ASSUME NEW s \in Seq(Text), NEW m \in Seq(Text), NEW i \in Nat \ {0},
         i + Len(m) - 1 <= Len(s),
         \A k \in 1..Len(m) : s[i + k - 1] = m[k]
  PROVE  Occurs(s, m, i)
  BY OccursIntro

(* The canonical form c of a remaining string r whose first END marker is *)
(* at e: r up to the end of that marker, and one newline.                  *)
Canon(u, len) == SubSeq(u, 1, len) \o NL

LEMMA CanonShape ==
  ASSUME NEW u \in Seq(Char), NEW len \in Nat \ {0}, len <= Len(u)
  PROVE  LET w == Canon(u, len) IN
         /\ w \in Seq(Text) /\ Len(w) = len + 1
         /\ \A k \in 1..len : w[k] = u[k]
         /\ w[len + 1] = "\n"
         /\ SubSeq(w, 1, len) = SubSeq(u, 1, len)
         /\ SubSeq(w, 1, Len(w)) = w
<1> DEFINE q0 == SubSeq(u, 1, len)
           w  == Canon(u, len)
<1>1. u \in Seq(Text) /\ \A i \in 1..len : u[i] \in Text
  BY DEF Text
<1>2. q0 \in Seq(Text) /\ Len(q0) = len /\ \A k \in 1..len : q0[k] = u[k]
  <2>1. /\ q0 \in Seq(Text)
        /\ Len(q0) = IF 1 <= len THEN len - 1 + 1 ELSE 0
        /\ \A i \in 1..(len - 1 + 1) : q0[i] = u[1 + i - 1]
    BY <1>1, SubSeqProperties
  <2>2. QED
    BY <2>1
<1>3. NL \in Seq(Text) /\ Len(NL) = 1 /\ NL[1] = "\n"
  BY DEF NL, Text
<1>4. /\ q0 \o NL \in Seq(Text) /\ Len(q0 \o NL) = Len(q0) + Len(NL)
      /\ \A i \in 1..(Len(q0) + Len(NL)) :
           (q0 \o NL)[i] = IF i <= Len(q0) THEN q0[i] ELSE NL[i - Len(q0)]
  BY <1>2, <1>3, ConcatProperties, ZenonT(30)
<1>5. /\ w \in Seq(Text) /\ Len(w) = len + 1
      /\ \A k \in 1..len : w[k] = u[k]
      /\ w[len + 1] = "\n"
  BY <1>2, <1>3, <1>4 DEF Canon
<1>6. SubSeq(w, 1, len) = q0
  <2>1. /\ SubSeq(w, 1, len) \in Seq(Text)
        /\ Len(SubSeq(w, 1, len)) = IF 1 <= len THEN len - 1 + 1 ELSE 0
        /\ \A i \in 1..(len - 1 + 1) : SubSeq(w, 1, len)[i] = w[1 + i - 1]
    <3>1. \A i \in 1..len : w[i] \in Text
      BY <1>5
    <3>2. QED
      BY <3>1, SubSeqProperties
  <2>2. Len(SubSeq(w, 1, len)) = Len(q0) /\ \A i \in 1..Len(q0) : SubSeq(w, 1, len)[i] = q0[i]
    BY <1>2, <1>5, <2>1
  <2>3. QED
    BY <1>2, <2>1, <2>2, SeqEqual
<1>7. SubSeq(w, 1, Len(w)) = w
  <2>1. /\ SubSeq(w, 1, Len(w)) \in Seq(Text)
        /\ Len(SubSeq(w, 1, Len(w))) = IF 1 <= Len(w) THEN Len(w) - 1 + 1 ELSE 0
        /\ \A i \in 1..(Len(w) - 1 + 1) : SubSeq(w, 1, Len(w))[i] = w[1 + i - 1]
    <3>1. \A i \in 1..Len(w) : w[i] \in Text
      BY <1>5
    <3>2. QED
      BY <3>1, SubSeqProperties
  <2>2. Len(SubSeq(w, 1, Len(w))) = Len(w)
        /\ \A i \in 1..Len(w) : SubSeq(w, 1, Len(w))[i] = w[i]
    BY <1>5, <2>1
  <2>3. QED
    BY <1>5, <2>1, <2>2, SeqEqual
<1>8. QED
  BY <1>5, <1>6, <1>7

(* The canonical form of a remaining string normalizes to itself.  BEGIN  *)
(* is at position 1; END does not occur inside BEGIN, so the form reaches  *)
(* past BEGIN; a second BEGIN in it would lie in the remaining string, or *)
(* end on the appended newline, which BEGIN does not end with; and the     *)
(* first END is where it was.                                              *)
Remaining(r, e) ==
  /\ Occurs(r, PubBegin, 1)
  /\ Occurs(r, PubEnd, e) /\ \A j \in 1..(e - 1) : ~Occurs(r, PubEnd, j)
  /\ \A i \in Nat : i >= Len(PubBegin) + 1 => ~Occurs(r, PubBegin, i)

LEMMA IdemCore ==
  ASSUME NEW r \in Seq(Char), NEW e \in Nat \ {0}, Remaining(r, e),
         NEW n \in Nat, n + 1 = e + Len(PubEnd)
  PROVE  NormalizeAndHexhash(Canon(r, n)) = Ok(Canon(r, n))
<1> DEFINE lb == Len(PubBegin)
           le == Len(PubEnd)
           c  == Canon(r, n)
<1>1. /\ PubBegin \in Seq(Text) /\ PubEnd \in Seq(Text) /\ r \in Seq(Text)
      /\ lb \in Nat \ {0} /\ le \in Nat \ {0}
  BY DEF Text
<1>2. Occurs(r, PubBegin, 1)
  BY DEF Remaining
<1>3. Occurs(r, PubEnd, e)
  BY DEF Remaining
<1>4. \A j \in 1..(e - 1) : ~Occurs(r, PubEnd, j)
  BY DEF Remaining
<1>5. \A i \in Nat : i >= lb + 1 => ~Occurs(r, PubBegin, i)
  BY DEF Remaining
<1>6. 1 + lb - 1 <= Len(r) /\ \A k \in 1..lb : r[1 + k - 1] = PubBegin[k]
  BY <1>1, <1>2, TextOccursAt, SMTT(20)
<1>7. e + le - 1 <= Len(r) /\ \A k \in 1..le : r[e + k - 1] = PubEnd[k]
  BY <1>1, <1>3, TextOccursAt, SMTT(20)
<1>8. n >= lb
  <2>1. SUFFICES ASSUME n < lb PROVE FALSE
    BY <1>1
  <2>2. \A k \in 1..le : PubBegin[e + k - 1] = PubEnd[k]
    BY <1>1, <1>6, <1>7, <2>1
  <2>3. e + le - 1 <= Len(PubBegin)
    BY <2>1
  <2>4. Occurs(PubBegin, PubEnd, e)
    BY <1>1, <2>2, <2>3, TextOccursIntro
  <2>5. QED
    BY <2>4, MarkerAssumption DEF Occurs
<1>9. n \in Nat \ {0} /\ n <= Len(r)
  BY <1>1, <1>7
<1>10. c \in Seq(Text) /\ Len(c) = n + 1
  BY <1>9, CanonShape
<1>11. \A k \in 1..n : c[k] = r[k]
  BY <1>9, CanonShape
<1>12. c[n + 1] = "\n"
  BY <1>9, CanonShape
<1>13. SubSeq(c, 1, n) = SubSeq(r, 1, n) /\ SubSeq(c, 1, Len(c)) = c
  BY <1>9, CanonShape
<1>14. Find(c, PubBegin, 1) = 1
  <2>1. 1 + lb - 1 <= Len(c) /\ \A k \in 1..lb : c[1 + k - 1] = PubBegin[k]
    <3>1. lb \in Nat /\ 1 + lb - 1 <= Len(c)
      BY <1>1, <1>8, <1>10
    <3>2. ASSUME NEW k \in 1..lb PROVE c[1 + k - 1] = PubBegin[k]
      <4>1. k \in 1..n /\ 1 + k - 1 = k
        BY <1>1, <1>8
      <4>2. c[k] = r[k] /\ r[1 + k - 1] = PubBegin[k]
        BY <1>6, <1>11, <4>1
      <4>3. QED
        BY <4>1, <4>2
    <3>3. QED
      BY <3>1, <3>2
  <2>2. Occurs(c, PubBegin, 1)
    BY ONLY <1>1, <1>10, <2>1, TextOccursIntro
  <2>3. \A j \in 1..(1 - 1) : ~Occurs(c, PubBegin, j)
    OBVIOUS
  <2>4. QED
    BY <1>1, <1>10, <2>2, <2>3, FindFirst
<1>15. Find(c, PubBegin, lb + 1) = 0
  <2>1. ASSUME NEW x \in Nat, x >= lb + 1, Occurs(c, PubBegin, x) PROVE FALSE
    <3>1. x + lb - 1 <= Len(c) /\ \A k \in 1..lb : c[x + k - 1] = PubBegin[k]
      <4>1. Occurs(c, PubBegin, x)
        BY <2>1
      <4>2. QED
        BY ONLY <1>1, <1>10, <4>1, TextOccursAt, SMTT(20)
    <3>2. CASE x + lb - 1 <= n
      <4>1. /\ x \in Nat \ {0} /\ x + lb - 1 <= Len(r)
            /\ \A k \in 1..lb : r[x + k - 1] = PubBegin[k]
        BY <1>1, <1>9, <1>11, <2>1, <3>1, <3>2
      <4>2. Occurs(r, PubBegin, x)
        BY <1>1, <4>1, TextOccursIntro
      <4>3. QED
        BY <1>5, <2>1, <4>2
    <3>3. CASE x + lb - 1 = n + 1
      <4>1. c[x + lb - 1] = PubBegin[lb]
        <5>1. lb \in 1..lb
          BY <1>1
        <5>2. QED
          BY <3>1, <5>1
      <4>2. PubBegin[lb] = "\n"
        BY <1>12, <3>3, <4>1
      <4>3. QED
        BY <4>2, MarkerAssumption
    <3>4. QED
      BY <1>10, <3>1, <3>2, <3>3
  <2>2. QED
    BY <1>1, <1>10, <2>1, FindNone
<1>16. Find(c, PubEnd, 1) = e
  <2>1. e + le - 1 <= Len(c) /\ \A k \in 1..le : c[e + k - 1] = PubEnd[k]
    BY <1>1, <1>7, <1>10, <1>11, SMTT(20)
  <2>2. Occurs(c, PubEnd, e)
    BY <1>1, <1>10, <2>1, TextOccursIntro
  <2>3. ASSUME NEW y \in 1..(e - 1), Occurs(c, PubEnd, y) PROVE FALSE
    <3>1. y + le - 1 <= Len(c) /\ \A k \in 1..le : c[y + k - 1] = PubEnd[k]
      <4>1. Occurs(c, PubEnd, y)
        BY <2>3
      <4>2. c \in Seq(Text) /\ PubEnd \in Seq(Text)
        BY <1>1, <1>10
      <4>3. QED
        BY <4>1, <4>2, TextOccursAt, SMTT(60)
    <3>2. /\ y \in Nat \ {0} /\ y + le - 1 <= Len(r)
          /\ \A k \in 1..le : r[y + k - 1] = PubEnd[k]
      BY <1>1, <1>9, <1>11, <3>1
    <3>3. Occurs(r, PubEnd, y)
      BY <1>1, <3>2, TextOccursIntro
    <3>4. QED
      BY <1>4, <3>3
  <2>4. QED
    BY <1>1, <1>10, <2>2, <2>3, FindFirst
<1>17. SubSeq(c, 1, e + le - 1) \o NL = c
  <2>1. e + le - 1 = n
    OBVIOUS
  <2>2. QED
    BY <1>13, <2>1 DEF Canon
<1>18. SubSeq(c, Find(c, PubBegin, 1), Len(c)) = c
  BY <1>13, <1>14
<1>19. NormalizeAndHexhash(c) =
          IF Find(c, PubBegin, 1) = 0 THEN Fail
          ELSE IF Find(c, PubBegin, lb + 1) # 0 THEN Fail
          ELSE IF Find(c, PubEnd, 1) = 0 THEN Fail
          ELSE Ok(SubSeq(c, 1, Find(c, PubEnd, 1) + le - 1) \o NL)
  BY <1>18 DEF NormalizeAndHexhash
<1>20. NormalizeAndHexhash(c) = Ok(SubSeq(c, 1, e + le - 1) \o NL)
  BY <1>14, <1>15, <1>16, <1>19
<1>21. QED
  BY <1>17, <1>20

(* Normalizing the canonical form of an accepted input again gives the    *)
(* same canonical form, hence the same id.                                 *)
LEMMA NormIdem ==
  ASSUME NEW s \in Seq(Char), NormalizeAndHexhash(s).ok
  PROVE  NormalizeAndHexhash(NormalizeAndHexhash(s).canon) = NormalizeAndHexhash(s)
<1> DEFINE lb == Len(PubBegin)
           le == Len(PubEnd)
           st == Find(s, PubBegin, 1)
           r  == Rest(s)
           e  == Find(r, PubEnd, 1)
<1>1. /\ st # 0 /\ Find(r, PubBegin, lb + 1) = 0 /\ e # 0
      /\ NormalizeAndHexhash(s) = Ok(SubSeq(r, 1, e + le - 1) \o NL)
  BY NormOk
<1>2. /\ st \in 1..Len(s) /\ r \in Seq(Char) /\ Len(r) = Len(s) - st + 1
      /\ \A i \in 1..Len(r) : r[i] = s[st + i - 1]
  BY <1>1, RestType
<1>3. Occurs(r, PubBegin, 1)
  <2>1. Occurs(s, PubBegin, st)
    BY <1>1, FindFound
  <2>2. st + lb - 1 <= Len(s) /\ \A k \in 1..lb : s[st + k - 1] = PubBegin[k]
    BY <2>1, OccursAt
  <2>3. lb <= Len(r)
    BY <1>2, <2>2
  <2>4. \A k \in 1..lb : r[k] = s[st + k - 1]
    BY <1>2, <2>3, SMTT(20)
  <2>5. 1 + lb - 1 <= Len(r) /\ \A k \in 1..lb : r[1 + k - 1] = PubBegin[k]
    BY <2>2, <2>3, <2>4
  <2>6. r \in Seq(Char) /\ PubBegin \in Seq(Char) /\ 1 \in Nat \ {0}
    BY <1>2
  <2>7. QED
    BY <2>5, <2>6, OccursIntro
<1>4. /\ e \in Nat \ {0} /\ Occurs(r, PubEnd, e)
      /\ \A j \in 1..(e - 1) : ~Occurs(r, PubEnd, j)
  <2>1. e \in Nat /\ e >= 1 /\ Occurs(r, PubEnd, e)
        /\ \A j \in 1..(e - 1) : ~Occurs(r, PubEnd, j)
    BY <1>1, <1>2, FindFound
  <2>2. QED
    BY <2>1
<1>5. \A i \in Nat : i >= lb + 1 => ~Occurs(r, PubBegin, i)
  BY <1>1, <1>2, FindZero
<1>6. Remaining(r, e)
  BY <1>3, <1>4, <1>5 DEF Remaining
<1>7. e + le - 1 \in Nat /\ (e + le - 1) + 1 = e + Len(PubEnd)
  BY <1>4
<1>8. NormalizeAndHexhash(Canon(r, e + le - 1)) = Ok(Canon(r, e + le - 1))
  BY <1>2, <1>4, <1>6, <1>7, IdemCore
<1>9. NormalizeAndHexhash(s) = Ok(Canon(r, e + le - 1))
  BY <1>1 DEF Canon
<1>10. QED
  BY <1>8, <1>9 DEF Ok


(* SubSeqProperties for a window of a string of Char.                       *)
LEMMA CharWindow ==
  ASSUME NEW x \in Seq(Char), NEW a \in Nat \ {0}, NEW b \in Nat, b <= Len(x)
  PROVE  /\ SubSeq(x, a, b) \in Seq(Char)
         /\ Len(SubSeq(x, a, b)) = IF a <= b THEN b - a + 1 ELSE 0
         /\ \A i \in 1..(b - a + 1) : SubSeq(x, a, b)[i] = x[a + i - 1]
<1>1. \A i \in a..b : x[i] \in Char
  OBVIOUS
<1>2. a \in Int /\ b \in Int
  OBVIOUS
<1>3. QED
  BY <1>1, <1>2, SubSeqProperties

(* The prefix of length b of a string, and its suffix from position a.     *)
LEMMA CharPrefix ==
  ASSUME NEW x \in Seq(Char), NEW b \in 0..Len(x)
  PROVE  /\ SubSeq(x, 1, b) \in Seq(Char)
         /\ Len(SubSeq(x, 1, b)) = b
         /\ \A i \in 1..b : SubSeq(x, 1, b)[i] = x[i]
<1>1. b \in Nat
  OBVIOUS
<1>2. QED
  BY <1>1, CharWindow

LEMMA CharSuffix ==
  ASSUME NEW x \in Seq(Char), NEW a \in 1..Len(x)
  PROVE  /\ SubSeq(x, a, Len(x)) \in Seq(Char)
         /\ Len(SubSeq(x, a, Len(x))) = Len(x) - a + 1
         /\ \A i \in 1..(Len(x) - a + 1) : SubSeq(x, a, Len(x))[i] = x[a + i - 1]
<1>1. a \in Nat \ {0} /\ Len(x) \in Nat /\ Len(x) <= Len(x)
  OBVIOUS
<1>2. QED
  BY <1>1, CharWindow

(* Garbage appended to an input that holds BEGIN leaves the BEGIN where   *)
(* it was and is appended to the remaining string.                          *)
LEMMA RestAppend ==
  ASSUME NEW inp \in Seq(Char), NEW gar \in Seq(Char), Find(inp, PubBegin, 1) # 0
  PROVE  /\ Find(inp \o gar, PubBegin, 1) = Find(inp, PubBegin, 1)
         /\ Rest(inp \o gar) = Rest(inp) \o gar
<1> DEFINE st == Find(inp, PubBegin, 1)
           r  == Rest(inp)
           st2 == inp \o gar
           u  == SubSeq(st2, st, Len(st2))
<1>1. Find(st2, PubBegin, 1) = st
  BY FindExtend
<1>2. /\ st \in 1..Len(inp) /\ r \in Seq(Char) /\ Len(r) = Len(inp) - st + 1
      /\ \A i \in 1..Len(r) : r[i] = inp[st + i - 1]
  BY RestType
<1>3. /\ st2 \in Seq(Char) /\ Len(st2) = Len(inp) + Len(gar)
      /\ \A i \in 1..(Len(inp) + Len(gar)) :
           st2[i] = IF i <= Len(inp) THEN inp[i] ELSE gar[i - Len(inp)]
  BY ConcatProperties
<1>4. Rest(st2) = u
  BY <1>1 DEF Rest
<1>5. /\ u \in Seq(Char)
      /\ Len(u) = Len(st2) - st + 1
      /\ \A i \in 1..(Len(st2) - st + 1) : u[i] = st2[st + i - 1]
  <2>1. st \in 1..Len(st2)
    BY <1>2, <1>3
  <2>2. QED
    BY <1>3, <2>1, CharSuffix
<1>6. /\ r \o gar \in Seq(Char) /\ Len(r \o gar) = Len(r) + Len(gar)
      /\ \A i \in 1..(Len(r) + Len(gar)) :
           (r \o gar)[i] = IF i <= Len(r) THEN r[i] ELSE gar[i - Len(r)]
  BY <1>2, ConcatProperties
<1>7. Len(u) = Len(r \o gar)
  BY <1>2, <1>3, <1>5, <1>6
<1>8. \A i \in 1..Len(u) : u[i] = (r \o gar)[i]
  <2> SUFFICES ASSUME NEW i \in 1..Len(u) PROVE u[i] = (r \o gar)[i]
    OBVIOUS
  <2>1. i \in 1..(Len(st2) - st + 1) /\ u[i] = st2[st + i - 1]
    BY <1>2, <1>3, <1>5
  <2>2. CASE i <= Len(r)
    <3>1. st + i - 1 \in 1..Len(inp) /\ st2[st + i - 1] = inp[st + i - 1]
      BY <1>2, <1>3, <2>2, SMTT(20)
    <3>2. (r \o gar)[i] = r[i] /\ r[i] = inp[st + i - 1]
      BY <1>2, <1>6, <2>1, <2>2
    <3>3. QED
      BY <2>1, <3>1, <3>2
  <2>3. CASE ~(i <= Len(r))
    <3>0. /\ st \in 1..Len(inp) /\ Len(r) = Len(inp) - st + 1
          /\ Len(st2) = Len(inp) + Len(gar) /\ Len(gar) \in Nat
      BY <1>2, <1>3
    <3>1. st + i - 1 \in 1..(Len(inp) + Len(gar)) /\ ~(st + i - 1 <= Len(inp))
      <4>1. i \in Int /\ 1 <= i /\ i <= Len(st2) - st + 1
        BY <2>1
      <4>2. i > Len(r)
        BY <2>3, <4>1, <3>0
      <4>3. QED
        BY <4>1, <4>2, <3>0, SMTT(20)
    <3>2. st2[st + i - 1] = gar[st + i - 1 - Len(inp)]
      <4>1. \A k \in 1..(Len(inp) + Len(gar)) :
              st2[k] = IF k <= Len(inp) THEN inp[k] ELSE gar[k - Len(inp)]
        BY <1>3
      <4>2. st2[st + i - 1] = IF st + i - 1 <= Len(inp) THEN inp[st + i - 1]
                              ELSE gar[st + i - 1 - Len(inp)]
        <5>1. st \in Nat /\ i \in Nat
          BY <3>0
        <5>2. QED
          BY ONLY <3>1, <4>1, <5>1, SMTT(20)
      <4>3. QED
        BY <3>1, <4>2
    <3>3. i \in 1..(Len(r) + Len(gar)) /\ (r \o gar)[i] = gar[i - Len(r)]
      BY <1>2, <1>5, <1>6, <1>7, <2>1, <2>3, SMTT(20)
    <3>4. st + i - 1 - Len(inp) = i - Len(r)
      BY <1>2, SMTT(20)
    <3>5. QED
      BY <2>1, <3>2, <3>3, <3>4
  <2>4. QED
    BY <2>2, <2>3
<1>9. u = r \o gar
  BY <1>5, <1>6, <1>7, <1>8, SeqEqual
<1>10. QED
  BY <1>1, <1>4, <1>9

(* Garbage appended to an accepted input: the END marker found is the same *)
(* one, so the result is the same canonical form, unless the garbage holds *)
(* a second BEGIN marker, which line 121 rejects.                          *)
LEMMA NormTrailing ==
  ASSUME NEW inp \in Seq(Char), NEW gar \in Seq(Char), NormalizeAndHexhash(inp).ok
  PROVE  NormalizeAndHexhash(inp \o gar) \in {NormalizeAndHexhash(inp), Fail}
<1> DEFINE lb == Len(PubBegin)
           le == Len(PubEnd)
           st == Find(inp, PubBegin, 1)
           r  == Rest(inp)
           e  == Find(r, PubEnd, 1)
<1>1. /\ st # 0 /\ Find(r, PubBegin, lb + 1) = 0 /\ e # 0
      /\ NormalizeAndHexhash(inp) = Ok(SubSeq(r, 1, e + le - 1) \o NL)
  BY NormOk
<1>2. Find(inp \o gar, PubBegin, 1) = st /\ Rest(inp \o gar) = r \o gar
  BY <1>1, RestAppend, SMTT(20)
<1>3. r \in Seq(Char)
  BY <1>1, RestType
<1>4. Find(r \o gar, PubEnd, 1) = e
  BY <1>1, <1>3, FindExtend
<1>5. e + le - 1 <= Len(r) /\ e + le - 1 \in Nat
  <2>1. e \in Nat /\ Occurs(r, PubEnd, e)
    BY <1>1, <1>3, FindFound
  <2>2. QED
    BY <1>3, <2>1, OccursAt
<1>6. SubSeq(r \o gar, 1, e + le - 1) = SubSeq(r, 1, e + le - 1)
  <2>1. /\ r \o gar \in Seq(Char) /\ Len(r \o gar) = Len(r) + Len(gar)
        /\ \A i \in 1..(Len(r) + Len(gar)) :
             (r \o gar)[i] = IF i <= Len(r) THEN r[i] ELSE gar[i - Len(r)]
    BY <1>3, ConcatProperties
  <2>2. /\ SubSeq(r \o gar, 1, e + le - 1) \in Seq(Char)
        /\ Len(SubSeq(r \o gar, 1, e + le - 1)) = e + le - 1
        /\ \A i \in 1..(e + le - 1) : SubSeq(r \o gar, 1, e + le - 1)[i] = (r \o gar)[i]
    <3>1. e + le - 1 \in 0..Len(r \o gar)
      BY <1>5, <2>1
    <3>2. QED
      BY <2>1, <3>1, CharPrefix, SMTT(20)
  <2>3. /\ SubSeq(r, 1, e + le - 1) \in Seq(Char)
        /\ Len(SubSeq(r, 1, e + le - 1)) = e + le - 1
        /\ \A i \in 1..(e + le - 1) : SubSeq(r, 1, e + le - 1)[i] = r[i]
    <3>1. e + le - 1 \in 0..Len(r)
      BY <1>5
    <3>2. QED
      BY <1>3, <3>1, CharPrefix
  <2>4. /\ Len(SubSeq(r \o gar, 1, e + le - 1)) = Len(SubSeq(r, 1, e + le - 1))
        /\ \A i \in 1..Len(SubSeq(r \o gar, 1, e + le - 1)) :
             SubSeq(r \o gar, 1, e + le - 1)[i] = SubSeq(r, 1, e + le - 1)[i]
    BY <1>5, <2>1, <2>2, <2>3
  <2>5. QED
    BY <2>2, <2>3, <2>4, SeqEqual
<1>7. NormalizeAndHexhash(inp \o gar) =
        IF Find(r \o gar, PubBegin, lb + 1) # 0 THEN Fail
        ELSE Ok(SubSeq(r \o gar, 1, e + le - 1) \o NL)
  BY <1>1, <1>2, <1>4 DEF NormalizeAndHexhash, Rest
<1>8. QED
  BY <1>1, <1>6, <1>7

(* For every alphabet, pair of markers and input length: the canonical     *)
(* form that normalize_and_hexhash (lines 116-128) returns normalizes to   *)
(* itself and so to the same id, which is what lets the id stored as a     *)
(* directory name be re-checked from the stored key (comment at line 140). *)
THEOREM IdempotentProved == Spec => []Idempotent
<1>1. NInv => Idempotent
  BY NormIdem DEF NInv, Idempotent, Done
<1>2. QED
  BY <1>1, NInvInductive, PTL

(* For every garbage length: appending anything to a key that              *)
(* normalize_and_hexhash accepts yields the same canonical form and id, or *)
(* the rejection of line 121 when the garbage holds a second BEGIN marker. *)
THEOREM TrailingStableProved == Spec => []TrailingStable
<1>1. NInv => TrailingStable
  <2> SUFFICES ASSUME NInv, Done, out.ok, NEW t \in Strings(MaxGarbage)
               PROVE  NormalizeAndHexhash(input \o t) \in {out, Fail}
    BY DEF TrailingStable
  <2>1. t \in Seq(Char)
    BY StringsSeq
  <2>2. input \in Seq(Char) /\ out = NormalizeAndHexhash(input)
    BY DEF NInv, Done
  <2>3. QED
    BY <2>1, <2>2, NormTrailing
<1>2. QED
  BY <1>1, NInvInductive, PTL

=============================================================================
