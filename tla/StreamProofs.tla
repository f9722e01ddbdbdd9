----------------------------- MODULE StreamProofs -----------------------------
(***************************************************************************)
(* Proofs about texts: what pzmq_data packs and unpacks, what the scanner  *)
(* of the stream helpers reads, and what becomes of a streamed request.    *)
(***************************************************************************)
EXTENDS Stream, PzmqData, WellFoundedInduction, FiniteSetTheorems, SequenceTheorems, TLAPS

(* Induction over the natural numbers, by the least counterexample.        *)
LEMMA LeastNat ==
    ASSUME NEW T, T \subseteq Nat, T # {}
    PROVE  \E n \in T : \A m \in T : n <= m
  <1> DEFINE R == OpToRel(<, Nat)
  <1>1. IsWellFoundedOn(R, Nat)
    BY NatLessThanWellFounded
  <1>2. PICK n \in T : \A m \in T : ~(<<m, n>> \in R)
    <2> HIDE DEF R
    <2> QED
      BY <1>1, WFMin
  <1>3. \A m \in T : ~(m < n)
    BY <1>2 DEF OpToRel
  <1> QED
    BY <1>3

(* The same for a set of numbers that is closed under successor.           *)
LEMMA Climb ==
    ASSUME NEW S, NEW a \in Nat, NEW b \in Nat, a \in S,
           \A i \in a..(b - 1) : i \in S => i + 1 \in S
    PROVE  \A i \in a..b : i \in S
  <1> DEFINE T == {i \in a..b : i \notin S}
  <1> SUFFICES ASSUME T # {} PROVE FALSE
    OBVIOUS
  <1>1. T \subseteq Nat
    OBVIOUS
  <1>2. PICK n \in T : \A m \in T : n <= m
    <2> HIDE DEF T
    <2> QED
      BY <1>1, LeastNat
  <1>3. n # a /\ n - 1 \in a..(b - 1)
    OBVIOUS
  <1>4. n - 1 \in S
    BY <1>2, <1>3
  <1> QED
    BY <1>3, <1>4
-----------------------------------------------------------------------------
(* The scanner.                                                            *)

Start == St(0, "nul", 0, <<>>)

(* g has the scanner's state after each of the first n characters.         *)
Trace(json, from, g, n) ==
    g = [i \in 0..n |-> IF i < from THEN Start ELSE ScanStep(g[i - 1], json[i])]

LEMMA TraceExists ==
    ASSUME NEW json, NEW from \in Nat \ {0}, NEW n \in Nat
    PROVE  \E g : Trace(json, from, g, n)
  <1> DEFINE T == {k \in Nat : ~\E g : Trace(json, from, g, k)}
  <1>1. SUFFICES ASSUME T # {} PROVE FALSE
    OBVIOUS
  <1>2. PICK k \in T : \A m \in T : k <= m
    <2> HIDE DEF T
    <2>1. T \subseteq Nat
      BY DEF T
    <2> QED
      BY <1>1, <2>1, LeastNat
  <1>3. CASE k = 0
    <2> DEFINE g == [i \in 0..0 |-> Start]
    <2>1. Trace(json, from, g, 0)
      BY DEF Trace
    <2> QED
      BY <1>3, <2>1
  <1>4. CASE k # 0
    <2>1. k - 1 \in Nat /\ k - 1 \notin T
      BY <1>2, <1>4
    <2>2. PICK h : Trace(json, from, h, k - 1)
      BY <2>1
    <2> DEFINE last == IF k < from THEN Start ELSE ScanStep(h[k - 1], json[k])
               g == [i \in 0..k |-> IF i = k THEN last ELSE h[i]]
    <2>3. \A i \in 0..(k - 1) : h[i] = IF i < from THEN Start ELSE ScanStep(h[i - 1], json[i])
      BY <2>1, <2>2 DEF Trace
    <2>4. \A i \in 0..k : g[i] = IF i < from THEN Start ELSE ScanStep(g[i - 1], json[i])
      <3> SUFFICES ASSUME NEW i \in 0..k
                   PROVE  g[i] = IF i < from THEN Start ELSE ScanStep(g[i - 1], json[i])
        OBVIOUS
      <3>1. CASE i = k
        <4>1. g[i] = last
          BY <3>1
        <4>2. i >= from => g[i - 1] = h[k - 1]
          BY <3>1, <1>4
        <4> QED
          BY <3>1, <4>1, <4>2
      <3>2. CASE i # k
        <4>1. g[i] = h[i] /\ i \in 0..(k - 1)
          BY <3>2
        <4>2. i >= from => g[i - 1] = h[i - 1]
          BY <3>2
        <4> QED
          BY <4>1, <4>2, <2>3
      <3> QED
        BY <3>1, <3>2
    <2>5. Trace(json, from, g, k)
      <3>1. DOMAIN g = 0..k /\ g = [i \in 0..k |-> g[i]]
        OBVIOUS
      <3> HIDE DEF g
      <3> QED
        BY <2>4, <3>1 DEF Trace
    <2> QED
      BY <2>5
  <1> QED
    BY <1>3, <1>4

(* The scanner's states, one after the other.                              *)
LEMMA ScanTrace ==
    ASSUME NEW json, Len(json) \in Nat, NEW from \in Nat \ {0}
    PROVE  \E g : /\ \A i \in 0..Len(json) : i < from => g[i] = Start
                  /\ \A i \in 0..Len(json) : i >= from => g[i] = ScanStep(g[i - 1], json[i])
                  /\ Scan(json, from) = g[Len(json)]
  <1> DEFINE g == CHOOSE f : Trace(json, from, f, Len(json))
  <1>1. Trace(json, from, g, Len(json))
    BY TraceExists
  <1>2. Scan(json, from) = g[Len(json)]
    BY DEF Scan, Trace, Start
  <1> HIDE DEF g
  <1>3. /\ \A i \in 0..Len(json) : i < from => g[i] = Start
        /\ \A i \in 0..Len(json) : i >= from => g[i] = ScanStep(g[i - 1], json[i])
    BY <1>1 DEF Trace
  <1> QED
    BY <1>2, <1>3
-----------------------------------------------------------------------------
(* What sample_json_str_get does with one character: before the value ...  *)
LEMMA StepBefore ==
    ASSUME NEW l, NEW f, NEW v, NEW c
    PROVE  /\ ScanStep(St(0, l, f, v), "colon") = St(0, "colon", 1, v)
           /\ ScanStep(St(0, l, f, v), "q") = St(100, "q", f, v)
           /\ ScanStep(St(0, l, f, v), "o") = St(10, "o", 1, Append(v, "o"))
           /\ c \in {"comma", "c"} => ScanStep(St(0, l, f, v), c) = St(-1, c, 0, v)
  <1> DEFINE s == St(0, l, f, v)
  <1>1. s.status = 0 /\ s.obj_flage = f /\ s.key_val = v
    BY DEF St
  <1> HIDE DEF s
  <1>2. \A d : ScanStep(s, d) = ScanBefore(s, d)
    BY <1>1 DEF ScanStep
  <1>3. /\ ScanStep(s, "colon") = St(0, "colon", 1, v)
        /\ ScanStep(s, "q") = St(100, "q", f, v)
        /\ ScanStep(s, "o") = St(10, "o", 1, Append(v, "o"))
        /\ c \in {"comma", "c"} => ScanStep(s, c) = St(-1, c, 0, v)
    BY <1>1, <1>2 DEF ScanBefore
  <1> QED
    BY <1>3 DEF s

LEMMA StepBare ==
    ASSUME NEW l, NEW v, NEW c, c \notin Punctuation
    PROVE  ScanStep(St(0, l, 1, v), c) = St(0, c, 1, Append(v, c))
  <1> DEFINE s == St(0, l, 1, v)
  <1>1. s.status = 0 /\ s.obj_flage = 1 /\ s.key_val = v
    BY DEF St
  <1> HIDE DEF s
  <1>2. ScanStep(s, c) = ScanBefore(s, c)
    BY <1>1 DEF ScanStep
  <1>3. c # "q" /\ c # "o" /\ c # "colon" /\ c # "comma" /\ c # "c"
    BY DEF Punctuation
  <1> QED
    BY <1>1, <1>2, <1>3 DEF ScanBefore, s

(* ... inside a quoted value, behind a value ...                           *)
LEMMA StepInText ==
    ASSUME NEW l, NEW f, NEW v, NEW c
    PROVE  /\ c # "q" => ScanStep(St(100, l, f, v), c) = St(100, c, f, Append(v, c))
           /\ l # "b" => ScanStep(St(100, l, f, v), "q") = St(-1, "q", 0, v)
           /\ ScanStep(St(-1, l, f, v), c) = St(-1, c, f, v)
  <1> DEFINE s == St(100, l, f, v)
             t == St(-1, l, f, v)
  <1>1. s.status = 100 /\ s.last_c = l /\ s.obj_flage = f /\ s.key_val = v
    BY DEF St
  <1>2. t.status = -1 /\ [t EXCEPT !.last_c = c] = St(-1, c, f, v)
    BY DEF St
  <1> HIDE DEF s, t
  <1>3. (\A d : ScanStep(s, d) = ScanQuoted(s, d)) /\ ScanStep(t, c) = [t EXCEPT !.last_c = c]
    BY <1>1, <1>2 DEF ScanStep
  <1>4. /\ c # "q" => ScanStep(s, c) = St(100, c, f, Append(v, c))
        /\ l # "b" => ScanStep(s, "q") = St(-1, "q", 0, v)
    BY <1>1, <1>3 DEF ScanQuoted
  <1> QED
    BY <1>2, <1>3, <1>4 DEF s, t

(* ... and inside an object.                                               *)
Brace(c) == IF c = "o" THEN 1 ELSE IF c = "c" THEN -1 ELSE 0

LEMMA StepInObject ==
    ASSUME NEW l, NEW f \in Int, NEW v, NEW c
    PROVE  ScanStep(St(10, l, f, v), c) =
               St(IF f + Brace(c) = 0 THEN -1 ELSE 10, c, f + Brace(c), Append(v, c))
  <1> DEFINE s == St(10, l, f, v)
  <1>1. s.status = 10 /\ s.obj_flage = f /\ s.key_val = v
    BY DEF St
  <1> HIDE DEF s
  <1>2. f + Brace(c) = s.obj_flage + (IF c = "o" THEN 1 ELSE 0) - (IF c = "c" THEN 1 ELSE 0)
    BY <1>1 DEF Brace
  <1>3. ScanStep(s, c) = St(IF f + Brace(c) = 0 THEN -1 ELSE 10, c, f + Brace(c), Append(v, c))
    BY <1>1, <1>2 DEF ScanStep, ScanObject
  <1> QED
    BY <1>3 DEF s
-----------------------------------------------------------------------------
(* Values.                                                                 *)

LEMMA KeyAt ==
    ASSUME NEW T, NEW s \in Seq(T), NEW i \in 1..(Len(s) - 2), NEW key
    PROVE  SubSeq(s, i, i + 2) = <<"q", key, "q">>
               <=> s[i] = "q" /\ s[i + 1] = key /\ s[i + 2] = "q"
  <1> DEFINE u == SubSeq(s, i, i + 2)
  <1>1. /\ u \in Seq(T) /\ Len(u) = 3
        /\ u[1] = s[i] /\ u[2] = s[i + 1] /\ u[3] = s[i + 2]
    BY SubSeqProperties
  <1> HIDE DEF u
  <1>2. u = <<u[1], u[2], u[3]>>
    BY <1>1
  <1> QED
    BY <1>1, <1>2 DEF u

LEMMA SliceGrows ==
    ASSUME NEW T, NEW s \in Seq(T), NEW a \in 1..(Len(s) + 1), NEW b \in (a - 1)..(Len(s) - 1)
    PROVE  Append(SubSeq(s, a, b), s[b + 1]) = SubSeq(s, a, b + 1)
  <1> DEFINE u == SubSeq(s, a, b)
             v == SubSeq(s, a, b + 1)
  <1>1. /\ u \in Seq(T) /\ Len(u) = b - a + 1 /\ \A i \in 1..(b - a + 1) : u[i] = s[a + i - 1]
    BY SubSeqProperties
  <1>2. /\ v \in Seq(T) /\ Len(v) = b - a + 2 /\ \A i \in 1..(b - a + 2) : v[i] = s[a + i - 1]
    BY SubSeqProperties
  <1>3. s[b + 1] \in T
    BY ElementOfSeq
  <1> HIDE DEF u, v
  <1>4. /\ Append(u, s[b + 1]) \in Seq(T) /\ Len(Append(u, s[b + 1])) = b - a + 2
        /\ \A i \in 1..(b - a + 2) : Append(u, s[b + 1])[i] = s[a + i - 1]
    <2>1. /\ Append(u, s[b + 1]) \in Seq(T) /\ Len(Append(u, s[b + 1])) = b - a + 2
          /\ \A i \in 1..(b - a + 1) : Append(u, s[b + 1])[i] = u[i]
          /\ Append(u, s[b + 1])[b - a + 2] = s[b + 1]
      BY <1>1, <1>3, AppendProperties
    <2>2. ASSUME NEW i \in 1..(b - a + 2) PROVE Append(u, s[b + 1])[i] = s[a + i - 1]
      <3>1. CASE i = b - a + 2
        <4>1. a + i - 1 = b + 1
          BY <3>1
        <4> QED
          BY <2>1, <3>1, <4>1
      <3>2. CASE i # b - a + 2
        <4>1. i \in 1..(b - a + 1)
          BY <3>2
        <4> QED
          BY <1>1, <2>1, <4>1
      <3> QED
        BY <3>1, <3>2
    <2> QED
      BY <2>1, <2>2
  <1>5. Append(u, s[b + 1]) = v
    BY <1>2, <1>4, SeqEqual
  <1> QED
    BY <1>5 DEF u, v

(* The key at p is the first one.                                          *)
FirstKey(json, key, p) ==
    /\ p \in 1..(Len(json) - 2)
    /\ json[p] = "q" /\ json[p + 1] = key /\ json[p + 2] = "q"
    /\ \A j \in 1..(p - 1) : ~(json[j] = "q" /\ json[j + 1] = key /\ json[j + 2] = "q")

Outcome(end) == IF end.obj_flage # 0 THEN <<>> ELSE end.key_val

LEMMA ScanFromKey ==
    ASSUME NEW T, NEW json \in Seq(T), NEW key, NEW p, FirstKey(json, key, p)
    PROVE  sample_json_str_get(json, key) = Outcome(Scan(json, p + 3))
  <1> DEFINE hits == {i \in 1..(Len(json) - 2) : SubSeq(json, i, i + 2) = <<"q", key, "q">>}
             first == CHOOSE i \in hits : \A j \in hits : i <= j
  <1>1. \A i \in 1..(Len(json) - 2) :
            i \in hits <=> json[i] = "q" /\ json[i + 1] = key /\ json[i + 2] = "q"
    <2> SUFFICES ASSUME NEW i \in 1..(Len(json) - 2)
                 PROVE  i \in hits <=> json[i] = "q" /\ json[i + 1] = key /\ json[i + 2] = "q"
      OBVIOUS
    <2> HIDE DEF hits
    <2>1. SubSeq(json, i, i + 2) = <<"q", key, "q">>
              <=> json[i] = "q" /\ json[i + 1] = key /\ json[i + 2] = "q"
      BY KeyAt
    <2> QED
      BY <2>1 DEF hits
  <1>2. hits \subseteq 1..(Len(json) - 2)
    OBVIOUS
  <1>3. sample_json_str_get(json, key) =
            IF hits = {} THEN <<>> ELSE Outcome(Scan(json, first + 3))
    BY DEF sample_json_str_get, Outcome
  <1> HIDE DEF hits
  <1>4. p \in hits /\ \A j \in hits : p <= j
    BY <1>1, <1>2 DEF FirstKey
  <1>5. first \in hits /\ \A j \in hits : first <= j
    BY <1>4
  <1>6. first = p
    <2> HIDE DEF first
    <2> QED
      BY <1>2, <1>4, <1>5
  <1> QED
    BY <1>3, <1>4, <1>6

(* The scanner works from position `from' on.                              *)
Scans(json, from, g) ==
    \A i \in 0..Len(json) : i >= from => g[i] = ScanStep(g[i - 1], json[i])

(* Once a value has been read nothing changes it.                          *)
LEMMA ValueStays ==
    ASSUME NEW json, Len(json) \in Nat, NEW g, NEW from \in Nat, Scans(json, from, g),
           NEW e \in from..Len(json), NEW v, \E l : g[e] = St(-1, l, 0, v)
    PROVE  Outcome(g[Len(json)]) = v
  <1> DEFINE S == {i \in e..Len(json) : \E m : g[i] = St(-1, m, 0, v)}
  <1>1. e \in S
    OBVIOUS
  <1>2. ASSUME NEW i \in e..(Len(json) - 1), i \in S PROVE i + 1 \in S
    <2>1. PICK m : g[i] = St(-1, m, 0, v)
      BY <1>2
    <2>2. g[i + 1] = ScanStep(g[i], json[i + 1])
      BY DEF Scans
    <2> QED
      BY <2>1, <2>2, StepInText
  <1>3. \A i \in e..Len(json) : i \in S
    <2>1. e \in Nat /\ \A i \in e..(Len(json) - 1) : i \in S => i + 1 \in S
      BY <1>2
    <2> HIDE DEF S
    <2> QED
      BY <1>1, <2>1, Climb
  <1>4. PICK m : g[Len(json)] = St(-1, m, 0, v)
    BY <1>3
  <1> QED
    BY <1>4 DEF Outcome, St

(* A quoted value grows character by character.                            *)
LEMMA QuotedGrows ==
    ASSUME NEW T, NEW json \in Seq(T), NEW g, NEW from \in Nat, Scans(json, from, g),
           NEW a \in from..Len(json), NEW b \in a..Len(json),
           g[a] = St(100, "q", 1, <<>>), json[a] = "q",
           \A i \in (a + 1)..b : json[i] # "q"
    PROVE  g[b] = St(100, json[b], 1, SubSeq(json, a + 1, b))
  <1> DEFINE P(i) == g[i] = St(100, json[i], 1, SubSeq(json, a + 1, i))
             S == {i \in a..b : P(i)}
  <1>1. a \in S
    <2>1. SubSeq(json, a + 1, a) = <<>>
      BY SubSeqProperties, EmptySeq
    <2>2. P(a)
      BY <2>1
    <2> QED
      BY <2>2
  <1>2. ASSUME NEW i \in a..(b - 1), i \in S PROVE i + 1 \in S
    <2>1. g[i + 1] = ScanStep(g[i], json[i + 1]) /\ json[i + 1] # "q"
      BY DEF Scans
    <2>2. Append(SubSeq(json, a + 1, i), json[i + 1]) = SubSeq(json, a + 1, i + 1)
      BY SliceGrows
    <2>3. P(i)
      BY <1>2
    <2>4. ScanStep(g[i], json[i + 1]) =
              St(100, json[i + 1], 1, Append(SubSeq(json, a + 1, i), json[i + 1]))
      BY <2>1, <2>3, StepInText
    <2>5. P(i + 1)
      BY <2>1, <2>2, <2>4
    <2> QED
      BY <2>5
  <1>3. \A i \in a..b : i \in S
    <2>1. a \in Nat /\ b \in Nat /\ \A i \in a..(b - 1) : i \in S => i + 1 \in S
      BY <1>2
    <2> HIDE DEF S
    <2> QED
      BY <1>1, <2>1, Climb
  <1> QED
    BY <1>3

(* Where the scanner starts.                                               *)
LEMMA ScanStarts ==
    ASSUME NEW T, NEW json \in Seq(T), NEW key, NEW p, FirstKey(json, key, p),
           p + 3 <= Len(json), json[p + 3] = "colon"
    PROVE  \E g : /\ Scans(json, p + 3, g) /\ g[p + 3] = St(0, "colon", 1, <<>>)
                  /\ sample_json_str_get(json, key) = Outcome(g[Len(json)])
  <1> DEFINE from == p + 3
  <1>0. p \in Nat \ {0} /\ Len(json) \in Nat /\ from \in Nat \ {0}
    BY DEF FirstKey
  <1>1. PICK g : /\ \A i \in 0..Len(json) : i < from => g[i] = Start
                 /\ \A i \in 0..Len(json) : i >= from => g[i] = ScanStep(g[i - 1], json[i])
                 /\ Scan(json, from) = g[Len(json)]
    <2> HIDE DEF from
    <2> QED
      BY <1>0, ScanTrace
  <1>2. g[p + 3] = St(0, "colon", 1, <<>>)
    <2>1. g[p + 2] = St(0, "nul", 0, <<>>)
      BY <1>0, <1>1 DEF Start
    <2>2. g[p + 3] = ScanStep(g[p + 2], "colon")
      BY <1>0, <1>1
    <2> QED
      BY <2>1, <2>2, StepBefore
  <1>3. Scans(json, p + 3, g)
    BY <1>1 DEF Scans
  <1>4. sample_json_str_get(json, key) = Outcome(g[Len(json)])
    BY <1>1, ScanFromKey
  <1> QED
    BY <1>2, <1>3, <1>4

(* A quoted value of k characters without quotes and backslashes is read   *)
(* as it is.                                                               *)
LEMMA ReadQuoted ==
    ASSUME NEW T, NEW json \in Seq(T), NEW key, NEW p, FirstKey(json, key, p),
           NEW e \in (p + 5)..Len(json),
           json[p + 3] = "colon", json[p + 4] = "q", json[e] = "q",
           \A i \in (p + 5)..(e - 1) : json[i] # "q" /\ json[i] # "b"
    PROVE  sample_json_str_get(json, key) = SubSeq(json, p + 5, e - 1)
  <1>0. p \in Nat \ {0} /\ Len(json) \in Nat
    BY DEF FirstKey
  <1> DEFINE from == p + 3
             a == p + 4
             b == e - 1
             v == SubSeq(json, a + 1, b)
  <1>1. PICK g : /\ Scans(json, from, g) /\ g[from] = St(0, "colon", 1, <<>>)
                 /\ sample_json_str_get(json, key) = Outcome(g[Len(json)])
    BY <1>0, ScanStarts
  <1>2. g[a] = St(100, "q", 1, <<>>)
    <2>1. g[a] = ScanStep(g[from], "q")
      BY <1>0, <1>1 DEF Scans
    <2> QED
      BY <1>1, <2>1, StepBefore
  <1>3. /\ from \in Nat /\ a \in from..Len(json) /\ b \in a..Len(json) /\ json[a] = "q"
        /\ \A i \in (a + 1)..b : json[i] # "q"
        /\ e \in from..Len(json) /\ json[b] # "b" /\ a + 1 = p + 5
    BY <1>0
  <1>4. g[e] = ScanStep(g[b], "q")
    BY <1>0, <1>1, <1>3 DEF Scans
  <1> HIDE DEF from, a, b
  <1>5. g[b] = St(100, json[b], 1, v)
    BY <1>1, <1>2, <1>3, QuotedGrows
  <1> HIDE DEF v
  <1>6. g[e] = St(-1, "q", 0, v)
    BY <1>3, <1>4, <1>5, StepInText
  <1>7. Outcome(g[Len(json)]) = v
    BY <1>0, <1>1, <1>3, <1>6, ValueStays
  <1> QED
    BY <1>1, <1>3, <1>7 DEF v, b

(* A bare value of one token is read as it is.                             *)
LEMMA ReadBare ==
    ASSUME NEW T, NEW json \in Seq(T), NEW key, NEW p, FirstKey(json, key, p),
           p + 5 <= Len(json), json[p + 3] = "colon", json[p + 4] \notin Punctuation,
           json[p + 5] \in {"comma", "c"}
    PROVE  sample_json_str_get(json, key) = <<json[p + 4]>>
  <1>0. p \in Nat \ {0} /\ Len(json) \in Nat
    BY DEF FirstKey
  <1> DEFINE from == p + 3
             e == p + 5
             w == json[p + 4]
             x == json[p + 5]
  <1>1. PICK g : /\ Scans(json, from, g) /\ g[from] = St(0, "colon", 1, <<>>)
                 /\ sample_json_str_get(json, key) = Outcome(g[Len(json)])
    BY <1>0, ScanStarts
  <1>2. g[p + 4] = ScanStep(g[from], w) /\ g[e] = ScanStep(g[p + 4], x)
    BY <1>0, <1>1 DEF Scans
  <1>3. from \in Nat /\ e \in from..Len(json)
    BY <1>0
  <1>4. w \notin Punctuation /\ x \in {"comma", "c"}
    OBVIOUS
  <1> HIDE DEF from, e, w, x
  <1>5. ScanStep(St(0, "colon", 1, <<>>), w) = St(0, w, 1, Append(<<>>, w))
    BY <1>4, StepBare
  <1>6. Append(<<>>, w) = <<w>>
    OBVIOUS
  <1>7. g[e] = St(-1, x, 0, <<w>>)
    BY <1>1, <1>2, <1>4, <1>5, <1>6, StepBefore
  <1>8. Outcome(g[Len(json)]) = <<w>>
    BY <1>0, <1>1, <1>3, <1>7, ValueStays
  <1> QED
    BY <1>1, <1>8 DEF w

(* d counts the open braces of an object that begins at a.                 *)
Nesting(json, a, e, d) ==
    /\ d \in [a..e -> Int] /\ d[a] = 1
    /\ \A i \in (a + 1)..e : d[i - 1] # 0 /\ d[i] = d[i - 1] + Brace(json[i])

(* An object grows character by character, up to the brace that closes it. *)
LEMMA ObjectGrows ==
    ASSUME NEW T, NEW json \in Seq(T), NEW g, NEW from \in Nat, Scans(json, from, g),
           NEW a \in from..Len(json), 0 < a, NEW e \in a..Len(json), NEW d, Nesting(json, a, e, d),
           g[a] = St(10, "o", 1, <<"o">>), json[a] = "o"
    PROVE  g[e] = St(IF d[e] = 0 THEN -1 ELSE 10, json[e], d[e], SubSeq(json, a, e))
  <1> DEFINE P(i) == g[i] = St(IF d[i] = 0 THEN -1 ELSE 10, json[i], d[i], SubSeq(json, a, i))
             S == {i \in a..e : P(i)}
  <1>1. a \in S
    <2>1. SubSeq(json, a, a) = <<"o">>
      <3> DEFINE u == SubSeq(json, a, a)
      <3>1. u \in Seq(T) /\ Len(u) = 1 /\ u[1] = "o"
        BY SubSeqProperties
      <3> HIDE DEF u
      <3>2. u = <<"o">>
        BY <3>1
      <3> QED
        BY <3>2 DEF u
    <2>2. d[a] = 1
      BY DEF Nesting
    <2>3. P(a)
      BY <2>1, <2>2
    <2> QED
      BY <2>3
  <1>2. ASSUME NEW i \in a..(e - 1), i \in S PROVE i + 1 \in S
    <2>1. g[i + 1] = ScanStep(g[i], json[i + 1])
      BY DEF Scans
    <2>2. Append(SubSeq(json, a, i), json[i + 1]) = SubSeq(json, a, i + 1)
      BY SliceGrows
    <2>3. P(i)
      BY <1>2
    <2>4. d[i] \in Int /\ d[i] # 0 /\ d[i + 1] = d[i] + Brace(json[i + 1])
      BY DEF Nesting
    <2>5. g[i] = St(10, json[i], d[i], SubSeq(json, a, i))
      BY <2>3, <2>4
    <2>6. ScanStep(St(10, json[i], d[i], SubSeq(json, a, i)), json[i + 1]) =
              St(IF d[i] + Brace(json[i + 1]) = 0 THEN -1 ELSE 10, json[i + 1],
                 d[i] + Brace(json[i + 1]), Append(SubSeq(json, a, i), json[i + 1]))
      BY <2>4, StepInObject
    <2>7. P(i + 1)
      BY <2>1, <2>2, <2>4, <2>5, <2>6
    <2> QED
      BY <2>7
  <1>3. \A i \in a..e : i \in S
    <2>1. a \in Nat /\ e \in Nat /\ \A i \in a..(e - 1) : i \in S => i + 1 \in S
      BY <1>2
    <2> HIDE DEF S
    <2> QED
      BY <1>1, <2>1, Climb
  <1> QED
    BY <1>3

(* An object is read up to the brace that closes it.                       *)
LEMMA ReadObject ==
    ASSUME NEW T, NEW json \in Seq(T), NEW key, NEW p, FirstKey(json, key, p),
           NEW e \in (p + 4)..Len(json), json[p + 3] = "colon", json[p + 4] = "o",
           NEW d, Nesting(json, p + 4, e, d), d[e] = 0
    PROVE  sample_json_str_get(json, key) = SubSeq(json, p + 4, e)
  <1>0. p \in Nat \ {0} /\ Len(json) \in Nat
    BY DEF FirstKey
  <1> DEFINE from == p + 3
             a == p + 4
             v == SubSeq(json, a, e)
  <1>1. PICK g : /\ Scans(json, from, g) /\ g[from] = St(0, "colon", 1, <<>>)
                 /\ sample_json_str_get(json, key) = Outcome(g[Len(json)])
    BY <1>0, ScanStarts
  <1>2. g[a] = St(10, "o", 1, <<"o">>)
    <2>1. g[a] = ScanStep(g[from], "o")
      BY <1>0, <1>1 DEF Scans
    <2>2. \A u : ScanStep(St(0, "colon", 1, u), "o") = St(10, "o", 1, Append(u, "o"))
      BY StepBefore
    <2>3. Append(<<>>, "o") = <<"o">>
      OBVIOUS
    <2> QED
      BY <1>1, <2>1, <2>2, <2>3
  <1>3. /\ from \in Nat /\ a \in from..Len(json) /\ 0 < a /\ e \in a..Len(json) /\ json[a] = "o"
        /\ e \in from..Len(json) /\ Nesting(json, a, e, d)
    BY <1>0
  <1> HIDE DEF from, a
  <1>4. g[e] = St(IF d[e] = 0 THEN -1 ELSE 10, json[e], d[e], v)
    BY <1>1, <1>2, <1>3, ObjectGrows
  <1> HIDE DEF v
  <1>5. g[e] = St(-1, json[e], 0, v)
    BY <1>4
  <1>6. Outcome(g[Len(json)]) = v
    BY <1>0, <1>1, <1>3, <1>5, ValueStays
  <1> QED
    BY <1>1, <1>6 DEF v, a
-----------------------------------------------------------------------------
(* Messages.                                                               *)

LEMMA FlattenSingles ==
    ASSUME NEW T, NEW s \in Seq(T)
    PROVE  FlattenSeq([i \in DOMAIN s |-> <<s[i]>>]) = s
  <1> DEFINE seqs == [i \in DOMAIN s |-> <<s[i]>>]
             n == Len(s)
             IsFlat(f) == f = [i \in 1..n |-> IF i = 1 THEN seqs[i] ELSE f[i - 1] \o seqs[i]]
  <1>1. n \in Nat /\ DOMAIN s = 1..n /\ DOMAIN seqs = 1..n /\ Len(seqs) = n
    BY LenProperties
  <1>2. \A i \in 1..n : seqs[i] = <<s[i]>> /\ s[i] \in T
    BY <1>1
  <1>3. FlattenSeq(seqs) = IF n = 0 THEN seqs ELSE (CHOOSE f : IsFlat(f))[n]
    BY <1>1 DEF FlattenSeq
  <1> HIDE DEF seqs
  <1>4. CASE n = 0
    <2>1. s = <<>> /\ seqs = <<>>
      BY <1>1, <1>4, EmptySeq DEF seqs
    <2> QED
      BY <1>3, <1>4, <2>1 DEF seqs
  <1>5. CASE n # 0
    <2> DEFINE h == [i \in 1..n |-> SubSeq(s, 1, i)]
    <2>1. SubSeq(s, 1, 1) = <<s[1]>> /\ SubSeq(s, 1, n) = s
      <3> DEFINE u == SubSeq(s, 1, 1)
                 v == SubSeq(s, 1, n)
      <3>1. u \in Seq(T) /\ Len(u) = 1 /\ u[1] = s[1]
        BY <1>1, <1>5, SubSeqProperties
      <3>2. v \in Seq(T) /\ Len(v) = n /\ \A i \in 1..n : v[i] = s[i]
        BY <1>1, <1>5, SubSeqProperties
      <3> HIDE DEF u, v
      <3>3. u = <<s[1]>>
        BY <3>1
      <3>4. v = s
        BY <3>2, SeqEqual
      <3> QED
        BY <3>3, <3>4 DEF u, v
    <2>2. \A i \in 2..n : SubSeq(s, 1, i) = SubSeq(s, 1, i - 1) \o seqs[i]
      <3> SUFFICES ASSUME NEW i \in 2..n PROVE SubSeq(s, 1, i) = SubSeq(s, 1, i - 1) \o seqs[i]
        OBVIOUS
      <3> DEFINE j == i - 1
                 u == SubSeq(s, 1, j)
      <3>1. j \in 0..(n - 1) /\ j + 1 = i /\ i \in 1..n
        BY <1>1
      <3>2. Append(u, s[i]) = SubSeq(s, 1, i)
        BY <1>1, <3>1, SliceGrows
      <3>3. u \in Seq(T)
        BY <1>1, <3>1, SubSeqProperties
      <3> HIDE DEF u, j
      <3>4. Append(u, s[i]) = u \o <<s[i]>>
        BY <1>2, <3>1, <3>3, AppendIsConcat
      <3> QED
        BY <1>2, <3>1, <3>2, <3>4 DEF u, j
    <2>3. IsFlat(h)
      <3>1. \A i \in 1..n : h[i] = IF i = 1 THEN seqs[i] ELSE h[i - 1] \o seqs[i]
        <4> SUFFICES ASSUME NEW i \in 1..n
                     PROVE  h[i] = IF i = 1 THEN seqs[i] ELSE h[i - 1] \o seqs[i]
          OBVIOUS
        <4>1. CASE i = 1
          BY <1>2, <2>1, <4>1
        <4>2. CASE i # 1
          <5>1. i \in 2..n /\ i - 1 \in 1..n
            BY <1>1, <4>2
          <5>2. h[i] = SubSeq(s, 1, i) /\ h[i - 1] = SubSeq(s, 1, i - 1)
            BY <5>1
          <5> QED
            BY <2>2, <4>2, <5>1, <5>2
        <4> QED
          BY <4>1, <4>2
      <3>2. h = [i \in 1..n |-> h[i]]
        OBVIOUS
      <3> HIDE DEF h
      <3> QED
        BY <3>1, <3>2
    <2> DEFINE f == CHOOSE g : IsFlat(g)
    <2>4. IsFlat(f)
      BY <2>3
    <2>5. \A i \in 1..n : f[i] = IF i = 1 THEN seqs[i] ELSE f[i - 1] \o seqs[i]
      <3> HIDE DEF f
      <3> QED
        BY <2>4
    <2> HIDE DEF f
    <2> DEFINE S == {i \in 1..n : f[i] = SubSeq(s, 1, i)}
    <2>6. 1 \in S
      BY <1>1, <1>2, <1>5, <2>1, <2>5
    <2>7. ASSUME NEW i \in 1..(n - 1), i \in S PROVE i + 1 \in S
      <3>1. f[i + 1] = f[i] \o seqs[i + 1] /\ i + 1 \in 2..n
        <4>1. i + 1 \in 1..n /\ i + 1 # 1 /\ (i + 1) - 1 = i /\ i + 1 \in 2..n
          BY <1>1
        <4> QED
          BY <2>5, <4>1
      <3>2. SubSeq(s, 1, i + 1) = SubSeq(s, 1, i) \o seqs[i + 1]
        BY <2>2, <3>1
      <3> QED
        <4>1. f[i] = SubSeq(s, 1, i)
          BY <2>7
        <4>2. f[i + 1] = SubSeq(s, 1, i + 1)
          BY <3>1, <3>2, <4>1
        <4> QED
          BY <1>1, <4>2
    <2>8. \A i \in 1..n : i \in S
      <3> HIDE DEF S
      <3> QED
        BY <1>1, <2>6, <2>7, Climb
    <2> QED
      <3>1. f[n] = SubSeq(s, 1, n)
        BY <1>1, <1>5, <2>8
      <3>2. FlattenSeq(seqs) = f[n]
        BY <1>3, <1>5 DEF f
      <3>3. FlattenSeq(seqs) = s
        BY <2>1, <3>1, <3>2
      <3> QED
        BY <3>3 DEF seqs
  <1> QED
    BY <1>4, <1>5

LEMMA EscapeNothing ==
    ASSUME NEW T, NEW text \in Seq(T), Clean(text)
    PROVE  Escape(text) = text
  <1>1. \A i \in DOMAIN text : text[i] \notin {"q", "b"}
    BY DEF Clean, Range
  <1>2. Escape(text) = FlattenSeq([i \in DOMAIN text |-> <<text[i]>>])
    BY <1>1 DEF Escape
  <1> QED
    BY <1>2, FlattenSingles

LEMMA Numbers ==
    /\ Cardinality(Numerals) \in Nat
    /\ Digits \in [1..Cardinality(Numerals) -> Numerals]
    /\ Len(Digits) = Cardinality(Numerals)
    /\ \A i, j \in 1..Cardinality(Numerals) : Digits[i] = Digits[j] => i = j
  <1> DEFINE n == Cardinality(Numerals)
  <1>1. n \in Nat /\ ExistsBijection(1..n, Numerals)
    BY StreamAssumption, FS_CardinalityType
  <1>2. \E f \in [1..n -> Numerals] : IsInjective(f)
    BY <1>1 DEF ExistsBijection, Bijection, Injection
  <1>3. Digits \in [1..n -> Numerals] /\ IsInjective(Digits)
    BY <1>2 DEF Digits, SetToSeq
  <1>4. Digits \in Seq(Numerals) /\ Len(Digits) = n
    BY <1>1, <1>3
  <1> QED
    BY <1>1, <1>3, <1>4 DEF IsInjective

LEMMA DepthStep ==
    ASSUME NEW T, NEW text \in Seq(T)
    PROVE  /\ Depth(text, 0) = 0
           /\ \A j \in 0..Len(text) : Depth(text, j) \in Int
           /\ \A j \in 1..Len(text) : Depth(text, j) = Depth(text, j - 1) + Brace(text[j])
  <1> DEFINE Opens(j) == {i \in 1..j : text[i] = "o"}
             Closes(j) == {i \in 1..j : text[i] = "c"}
  <1>0. Len(text) \in Nat /\ \A j : Depth(text, j) = Cardinality(Opens(j)) - Cardinality(Closes(j))
    BY DEF Depth
  <1>1. ASSUME NEW j \in 0..Len(text)
        PROVE  /\ IsFiniteSet(Opens(j)) /\ Cardinality(Opens(j)) \in Nat
               /\ IsFiniteSet(Closes(j)) /\ Cardinality(Closes(j)) \in Nat
    <2>1. IsFiniteSet(1..j) /\ Opens(j) \in SUBSET (1..j) /\ Closes(j) \in SUBSET (1..j)
      BY FS_Interval
    <2>2. IsFiniteSet(Opens(j)) /\ IsFiniteSet(Closes(j))
      BY <2>1, FS_Subset
    <2> QED
      BY <2>2, FS_CardinalityType
  <1>2. Opens(0) = {} /\ Closes(0) = {}
    OBVIOUS
  <1>3. ASSUME NEW j \in 1..Len(text)
        PROVE  Depth(text, j) = Depth(text, j - 1) + Brace(text[j])
    <2>0. j - 1 \in 0..Len(text) /\ j \in 0..Len(text) /\ j \notin Opens(j - 1) /\ j \notin Closes(j - 1)
      BY <1>0
    <2>1. /\ text[j] = "o" => Opens(j) = Opens(j - 1) \cup {j}
          /\ text[j] # "o" => Opens(j) = Opens(j - 1)
          /\ text[j] = "c" => Closes(j) = Closes(j - 1) \cup {j}
          /\ text[j] # "c" => Closes(j) = Closes(j - 1)
      BY <1>0
    <2>2. /\ IsFiniteSet(Opens(j - 1)) /\ Cardinality(Opens(j - 1)) \in Nat
          /\ IsFiniteSet(Closes(j - 1)) /\ Cardinality(Closes(j - 1)) \in Nat
      BY <1>1, <2>0
    <2> HIDE DEF Opens, Closes
    <2>3. /\ Cardinality(Opens(j - 1) \cup {j}) = Cardinality(Opens(j - 1)) + 1
          /\ Cardinality(Closes(j - 1) \cup {j}) = Cardinality(Closes(j - 1)) + 1
      BY <2>0, <2>2, FS_AddElement
    <2>4. /\ Depth(text, j) = Cardinality(Opens(j)) - Cardinality(Closes(j))
          /\ Depth(text, j - 1) = Cardinality(Opens(j - 1)) - Cardinality(Closes(j - 1))
      BY <1>0
    <2>5. CASE text[j] = "o"
      <3>1. Opens(j) = Opens(j - 1) \cup {j} /\ Closes(j) = Closes(j - 1) /\ Brace(text[j]) = 1
        BY <2>1, <2>5 DEF Brace
      <3> QED
        BY <2>2, <2>3, <2>4, <3>1
    <2>6. CASE text[j] = "c"
      <3>1. Opens(j) = Opens(j - 1) /\ Closes(j) = Closes(j - 1) \cup {j} /\ Brace(text[j]) = -1
        BY <2>1, <2>6 DEF Brace
      <3> QED
        BY <2>2, <2>3, <2>4, <3>1
    <2>7. CASE text[j] # "o" /\ text[j] # "c"
      BY <2>1, <2>2, <2>4, <2>7 DEF Brace
    <2> QED
      BY <2>5, <2>6, <2>7
  <1> HIDE DEF Opens, Closes
  <1>4. Depth(text, 0) = 0
    <2>1. Depth(text, 0) = Cardinality(Opens(0)) - Cardinality(Closes(0))
      BY <1>0
    <2>2. Cardinality(Opens(0)) = 0 /\ Cardinality(Closes(0)) = 0
      BY <1>2, FS_EmptySet
    <2> QED
      BY <2>1, <2>2
  <1>5. \A j \in 0..Len(text) : Depth(text, j) \in Int
    BY <1>0, <1>1
  <1> QED
    BY <1>3, <1>4, <1>5

Tokens == Punctuation \cup Keys \cup {"inference", "stream", "true", "false"}
              \cup Clients \cup Numerals \cup Words

Messages ==
    [client : Clients, rid : Numerals, text : {t \in Seq(Words) : Clean(t)},
     index : 0..(Cardinality(Numerals) - 1), finish : BOOLEAN]

Flag(finish) == IF finish THEN "true" ELSE "false"

(* d is a piece with a text of n characters.                               *)
PieceAt(d, n, m) ==
    /\ n \in Nat /\ d \in Seq(Tokens) /\ Len(d) = n + 20
    /\ d[1] = "o" /\ d[2] = "q" /\ d[3] = "delta" /\ d[4] = "q" /\ d[5] = "colon"
    /\ d[6] = "q" /\ \A i \in 1..n : d[6 + i] = m.text[i]
    /\ d[n + 7] = "q" /\ d[n + 8] = "comma" /\ d[n + 9] = "q" /\ d[n + 10] = "index"
    /\ d[n + 11] = "q" /\ d[n + 12] = "colon" /\ d[n + 13] = Digits[m.index + 1]
    /\ d[n + 14] = "comma" /\ d[n + 15] = "q" /\ d[n + 16] = "finish" /\ d[n + 17] = "q"
    /\ d[n + 18] = "colon" /\ d[n + 19] = Flag(m.finish) /\ d[n + 20] = "c"

LEMMA PieceChars ==
    ASSUME NEW m \in Messages
    PROVE  PieceAt(Piece(m), Len(m.text), m)
  <1> DEFINE d == Piece(m)
             n == Len(m.text)
             x == Digits[m.index + 1]
             y == Flag(m.finish)
             A == <<"o", "q", "delta", "q", "colon", "q">>
             B == <<"q", "comma", "q", "index", "q", "colon", x,
                    "comma", "q", "finish", "q", "colon", y, "c">>
  <1>1. m.text \in Seq(Words) /\ Clean(m.text) /\ m.index + 1 \in 1..Cardinality(Numerals)
    BY Numbers DEF Messages
  <1>2. Escape(m.text) = m.text /\ m.text \in Seq(Tokens) /\ n \in Nat
    BY <1>1, EscapeNothing DEF Tokens
  <1>3. x \in Tokens /\ y \in Tokens
    BY <1>1, Numbers DEF Tokens, Flag
  <1>4. d = A \o m.text \o B
    BY <1>2 DEF Piece, Flag
  <1> HIDE DEF x, y, d
  <1>5. /\ A \in Seq(Tokens) /\ Len(A) = 6
        /\ A[1] = "o" /\ A[2] = "q" /\ A[3] = "delta" /\ A[4] = "q" /\ A[5] = "colon" /\ A[6] = "q"
    BY DEF Tokens, Punctuation, Keys
  <1>6. /\ B \in Seq(Tokens) /\ Len(B) = 14
        /\ B[1] = "q" /\ B[2] = "comma" /\ B[3] = "q" /\ B[4] = "index" /\ B[5] = "q"
        /\ B[6] = "colon" /\ B[7] = x /\ B[8] = "comma" /\ B[9] = "q" /\ B[10] = "finish"
        /\ B[11] = "q" /\ B[12] = "colon" /\ B[13] = y /\ B[14] = "c"
    BY <1>3 DEF Tokens, Punctuation, Keys
  <1> HIDE DEF A, B
  <1> DEFINE C == A \o m.text
  <1>7. /\ C \in Seq(Tokens) /\ Len(C) = 6 + n
        /\ \A i \in 1..(6 + n) : C[i] = IF i <= 6 THEN A[i] ELSE m.text[i - 6]
    <2>1. /\ C \in Seq(Tokens) /\ Len(C) = Len(A) + Len(m.text)
          /\ \A i \in 1..(Len(A) + Len(m.text)) :
                 C[i] = IF i <= Len(A) THEN A[i] ELSE m.text[i - Len(A)]
      BY <1>2, <1>5, ConcatProperties
    <2> HIDE DEF C
    <2> QED
      BY <1>2, <1>5, <2>1
  <1> HIDE DEF C
  <1>8. /\ d \in Seq(Tokens) /\ Len(d) = (6 + n) + 14
        /\ \A i \in 1..((6 + n) + 14) : d[i] = IF i <= 6 + n THEN C[i] ELSE B[i - (6 + n)]
    <2>1. d = C \o B
      BY <1>4 DEF C
    <2>2. /\ C \o B \in Seq(Tokens) /\ Len(C \o B) = Len(C) + Len(B)
          /\ \A i \in 1..(Len(C) + Len(B)) :
                 (C \o B)[i] = IF i <= Len(C) THEN C[i] ELSE B[i - Len(C)]
      <3>1. C \in Seq(Tokens) /\ B \in Seq(Tokens)
        BY <1>6, <1>7
      <3> QED
        BY <3>1, ConcatProperties
    <2>3. /\ d \in Seq(Tokens) /\ Len(d) = Len(C) + Len(B)
          /\ \A i \in 1..(Len(C) + Len(B)) : d[i] = IF i <= Len(C) THEN C[i] ELSE B[i - Len(C)]
      BY <2>1, <2>2
    <2> QED
      BY <1>6, <1>7, <2>3
  <1>9. /\ \A i \in 1..6 : d[i] = A[i]
        /\ \A i \in 1..n : d[6 + i] = m.text[i]
        /\ \A i \in 1..14 : d[n + 6 + i] = B[i]
    <2>1. ASSUME NEW i \in 1..6 PROVE d[i] = A[i]
      <3>1. i \in 1..(6 + n) /\ i <= 6 + n /\ i <= 6 /\ i \in 1..((6 + n) + 14)
        BY <1>2
      <3>2. d[i] = C[i]
        BY <1>8, <3>1
      <3>3. C[i] = A[i]
        BY <1>7, <3>1
      <3> QED
        BY <3>2, <3>3
    <2>2. ASSUME NEW i \in 1..n PROVE d[6 + i] = m.text[i]
      <3>1. 6 + i \in 1..(6 + n) /\ 6 + i <= 6 + n /\ ~(6 + i <= 6) /\ (6 + i) - 6 = i
            /\ 6 + i \in 1..((6 + n) + 14)
        BY <1>2
      <3> QED
        BY <1>7, <1>8, <3>1
    <2>3. ASSUME NEW i \in 1..14 PROVE d[n + 6 + i] = B[i]
      <3>1. /\ n + 6 + i \in 1..((6 + n) + 14) /\ ~(n + 6 + i <= 6 + n)
            /\ (n + 6 + i) - (6 + n) = i
        BY <1>2
      <3> QED
        BY <1>8, <3>1
    <2> QED
      BY <2>1, <2>2, <2>3
  <1>10. d[1] = A[1] /\ d[2] = A[2] /\ d[3] = A[3] /\ d[4] = A[4] /\ d[5] = A[5] /\ d[6] = A[6]
    BY <1>9
  <1>11. /\ d[n + 7] = B[1] /\ d[n + 8] = B[2] /\ d[n + 9] = B[3] /\ d[n + 10] = B[4]
         /\ d[n + 11] = B[5] /\ d[n + 12] = B[6] /\ d[n + 13] = B[7] /\ d[n + 14] = B[8]
         /\ d[n + 15] = B[9] /\ d[n + 16] = B[10] /\ d[n + 17] = B[11] /\ d[n + 18] = B[12]
         /\ d[n + 19] = B[13] /\ d[n + 20] = B[14]
    <2>1. /\ n + 6 + 1 = n + 7 /\ n + 6 + 2 = n + 8 /\ n + 6 + 3 = n + 9 /\ n + 6 + 4 = n + 10
          /\ n + 6 + 5 = n + 11 /\ n + 6 + 6 = n + 12 /\ n + 6 + 7 = n + 13
          /\ n + 6 + 8 = n + 14 /\ n + 6 + 9 = n + 15 /\ n + 6 + 10 = n + 16
          /\ n + 6 + 11 = n + 17 /\ n + 6 + 12 = n + 18 /\ n + 6 + 13 = n + 19
          /\ n + 6 + 14 = n + 20
      BY <1>2
    <2> QED
      BY <1>2, <1>9, <2>1
  <1>12. n \in Nat /\ d \in Seq(Tokens) /\ Len(d) = n + 20
    BY <1>2, <1>8
  <1> QED
    BY <1>5, <1>6, <1>9, <1>10, <1>11, <1>12 DEF x, y, d, PieceAt

LEMMA CleanChars ==
    ASSUME NEW m \in Messages
    PROVE  /\ m.text \in Seq(Words) /\ Clean(m.text) /\ Len(m.text) \in Nat
           /\ \A i \in 1..Len(m.text) : m.text[i] # "q" /\ m.text[i] # "b"
           /\ Len(m.text) = 1 => m.text[1] \notin {"index", "finish"}
           /\ m.index + 1 \in 1..Cardinality(Numerals)
  <1>1. m.text \in Seq(Words) /\ Clean(m.text) /\ m.index + 1 \in 1..Cardinality(Numerals)
    BY Numbers DEF Messages
  <1>2. DOMAIN m.text = 1..Len(m.text) /\ Len(m.text) \in Nat
    BY <1>1, LenProperties
  <1>3. \A i \in DOMAIN m.text : m.text[i] # "q" /\ m.text[i] # "b"
    BY <1>1 DEF Clean, Range
  <1>4. ASSUME Len(m.text) = 1 PROVE m.text[1] \notin {"index", "finish"}
    <2> DEFINE t == m.text
    <2>1. t \in Seq(Words) /\ Len(t) = 1 /\ t \notin {<<"index">>, <<"finish">>}
      BY <1>1, <1>4 DEF Clean
    <2> HIDE DEF t
    <2>2. t = <<t[1]>>
      BY <2>1
    <2>3. t[1] # "index" /\ t[1] # "finish"
      BY <2>1, <2>2
    <2> QED
      BY <2>3 DEF t
  <1> QED
    BY <1>1, <1>2, <1>3, <1>4

(* No clean text looks like a key of its piece.                            *)
LEMMA TextIsNoKey ==
    ASSUME NEW m \in Messages, NEW n \in Nat, Len(m.text) = n, NEW d, PieceAt(d, n, m),
           NEW key \in {"index", "finish"}, NEW j \in 1..(n + 8)
    PROVE  ~(d[j] = "q" /\ d[j + 1] = key /\ d[j + 2] = "q")
  <1>1. /\ n \in Nat /\ d[1] = "o" /\ d[2] = "q" /\ d[3] = "delta" /\ d[4] = "q"
        /\ d[5] = "colon" /\ d[6] = "q" /\ d[n + 7] = "q" /\ d[n + 8] = "comma"
        /\ \A i \in 1..n : d[6 + i] = m.text[i]
    BY DEF PieceAt
  <1>2. n = 1 => m.text[1] # key
    BY CleanChars
  <1>3. \A i \in 1..n : m.text[i] # "q"
    BY CleanChars
  <1>4. CASE j <= 5
    <2>1. j = 1 \/ j = 2 \/ j = 3 \/ j = 4 \/ j = 5
      BY <1>1, <1>4
    <2> QED
      BY <1>1, <2>1
  <1>5. CASE j = 6
    <2>1. CASE n = 0
      BY <1>1, <1>5, <2>1
    <2>2. CASE n = 1
      <3>1. d[7] = m.text[1]
        BY <1>1, <2>2
      <3> QED
        BY <1>2, <1>5, <2>2, <3>1
    <2>3. CASE n > 1
      <3>1. d[8] = m.text[2] /\ 2 \in 1..n
        BY <1>1, <2>3
      <3> QED
        BY <1>3, <1>5, <3>1
    <2>4. n = 0 \/ n = 1 \/ n > 1
      OBVIOUS
    <2> QED
      BY <2>1, <2>2, <2>3, <2>4
  <1>6. CASE 7 <= j /\ j <= n + 6
    <2>1. j - 6 \in 1..n /\ 6 + (j - 6) = j
      BY <1>1, <1>6
    <2>2. d[j] = m.text[j - 6]
      BY <1>1, <2>1
    <2> QED
      BY <1>3, <2>1, <2>2
  <1>7. CASE j = n + 7
    <2>1. j + 1 = n + 8
      BY <1>1, <1>7
    <2> QED
      BY <1>1, <2>1
  <1>8. CASE j = n + 8
    BY <1>1, <1>8
  <1> QED
    BY <1>1, <1>4, <1>5, <1>6, <1>7, <1>8

(* What decode_stream reads of the data of a message.                      *)
LEMMA ReadPiece ==
    ASSUME NEW m \in Messages
    PROVE  /\ sample_json_str_get(Piece(m), "delta") = m.text
           /\ sample_json_str_get(Piece(m), "index") = <<Digits[m.index + 1]>>
           /\ sample_json_str_get(Piece(m), "finish") = <<Flag(m.finish)>>
  <1> DEFINE d == Piece(m)
             n == Len(m.text)
  <1>0. PieceAt(d, n, m)
    BY PieceChars
  <1>1. n \in Nat /\ d \in Seq(Tokens) /\ Len(d) = n + 20
    BY <1>0 DEF PieceAt
  <1>2. m.text \in Seq(Words) /\ m.index + 1 \in 1..Cardinality(Numerals)
    BY CleanChars
  <1>3. \A i \in 1..n : m.text[i] # "q" /\ m.text[i] # "b"
    BY CleanChars
  <1>4. ASSUME NEW key \in {"index", "finish"}, NEW j \in 1..(n + 8)
        PROVE  ~(d[j] = "q" /\ d[j + 1] = key /\ d[j + 2] = "q")
    BY <1>0, <1>1, TextIsNoKey
  <1>5. Digits[m.index + 1] \notin Punctuation \cup Keys
    BY <1>2, Numbers, StreamAssumption
  <1>6. Flag(m.finish) \notin Punctuation
    BY DEF Flag, Punctuation
  <1> HIDE DEF d, n
  <1>7. sample_json_str_get(d, "delta") = m.text
    <2> DEFINE p == 2
               e == n + 7
    <2>1. FirstKey(d, "delta", p)
      BY <1>0, <1>1 DEF FirstKey, PieceAt
    <2>2. /\ e \in (p + 5)..Len(d) /\ d[p + 3] = "colon" /\ d[p + 4] = "q" /\ d[e] = "q"
          /\ e - 1 = n + 6 /\ p + 5 = 7
      BY <1>0, <1>1 DEF PieceAt
    <2>3. \A i \in 7..(n + 6) : d[i] # "q" /\ d[i] # "b"
      <3> SUFFICES ASSUME NEW i \in 7..(n + 6) PROVE d[i] # "q" /\ d[i] # "b"
        OBVIOUS
      <3>1. i - 6 \in 1..n /\ 6 + (i - 6) = i
        BY <1>1
      <3>2. d[i] = m.text[i - 6]
        BY <1>0, <3>1 DEF PieceAt
      <3> QED
        BY <1>3, <3>1, <3>2
    <2>4. sample_json_str_get(d, "delta") = SubSeq(d, p + 5, e - 1)
      <3> HIDE DEF p, e
      <3> QED
        BY <1>1, <2>1, <2>2, <2>3, ReadQuoted
    <2>5. SubSeq(d, 7, n + 6) = m.text
      <3> DEFINE u == SubSeq(d, 7, n + 6)
      <3>1. u \in Seq(Tokens) /\ Len(u) = n /\ \A i \in 1..n : u[i] = d[7 + i - 1]
        BY <1>1, SubSeqProperties
      <3>2. \A i \in 1..n : 7 + i - 1 = 6 + i
        BY <1>1
      <3> HIDE DEF u
      <3>3. m.text \in Seq(Tokens) /\ Len(m.text) = n
        BY <1>2 DEF Tokens, n
      <3>4. \A i \in 1..n : u[i] = m.text[i]
        BY <1>0, <3>1, <3>2 DEF PieceAt
      <3>5. u = m.text
        BY <3>1, <3>3, <3>4, SeqEqual
      <3> QED
        BY <3>5 DEF u
    <2> QED
      BY <2>2, <2>4, <2>5
  <1>8. sample_json_str_get(d, "index") = <<Digits[m.index + 1]>>
    <2> DEFINE p == n + 9
    <2>1. FirstKey(d, "index", p)
      <3>1. p \in 1..(Len(d) - 2) /\ p + 1 = n + 10 /\ p + 2 = n + 11 /\ 1..(p - 1) = 1..(n + 8)
        BY <1>1
      <3> QED
        BY <1>0, <1>4, <3>1 DEF FirstKey, PieceAt
    <2>2. p + 3 = n + 12 /\ p + 4 = n + 13 /\ p + 5 = n + 14 /\ p + 5 <= Len(d)
      BY <1>1
    <2>3. d[p + 3] = "colon" /\ d[p + 4] = Digits[m.index + 1] /\ d[p + 5] = "comma"
      BY <1>0, <2>2 DEF PieceAt
    <2> HIDE DEF p
    <2>4. sample_json_str_get(d, "index") = <<d[p + 4]>>
      BY <1>1, <1>5, <2>1, <2>2, <2>3, ReadBare
    <2> QED
      BY <2>3, <2>4
  <1>9. sample_json_str_get(d, "finish") = <<Flag(m.finish)>>
    <2> DEFINE p == n + 15
    <2>1. FirstKey(d, "finish", p)
      <3>1. p \in 1..(Len(d) - 2) /\ p + 1 = n + 16 /\ p + 2 = n + 17
        BY <1>1
      <3>2. ASSUME NEW j \in 1..(p - 1)
            PROVE  ~(d[j] = "q" /\ d[j + 1] = "finish" /\ d[j + 2] = "q")
        <4>1. \/ j \in 1..(n + 8) \/ (j = n + 9 /\ j + 1 = n + 10) \/ j = n + 10
              \/ (j = n + 11 /\ j + 1 = n + 12) \/ j = n + 12 \/ j = n + 13 \/ j = n + 14
          BY <1>1
        <4>2. Digits[m.index + 1] # "q"
          BY <1>5 DEF Punctuation
        <4> QED
          BY <1>0, <1>4, <4>1, <4>2 DEF PieceAt
      <3> QED
        BY <1>0, <3>1, <3>2 DEF FirstKey, PieceAt
    <2>2. p + 3 = n + 18 /\ p + 4 = n + 19 /\ p + 5 = n + 20 /\ p + 5 <= Len(d)
      BY <1>1
    <2>3. d[p + 3] = "colon" /\ d[p + 4] = Flag(m.finish) /\ d[p + 5] = "c"
      BY <1>0, <2>2 DEF PieceAt
    <2> HIDE DEF p
    <2>4. sample_json_str_get(d, "finish") = <<d[p + 4]>>
      BY <1>1, <1>6, <2>1, <2>2, <2>3, ReadBare
    <2> QED
      BY <2>3, <2>4
  <1> QED
    BY <1>7, <1>8, <1>9 DEF d

(* r is a message with a text of n characters, d its data.                 *)
RawAt(r, d, n, m) ==
    /\ r \in Seq(Tokens) /\ Len(r) = n + 58
    /\ r[1] = "o" /\ r[2] = "q" /\ r[3] = "zmq_com" /\ r[4] = "q"
    /\ r[5] = "colon" /\ r[6] = "q" /\ r[7] = m.client /\ r[8] = "q"
    /\ r[9] = "comma" /\ r[10] = "q" /\ r[11] = "request_id" /\ r[12] = "q"
    /\ r[13] = "colon" /\ r[14] = "q" /\ r[15] = m.rid /\ r[16] = "q"
    /\ r[17] = "comma" /\ r[18] = "q" /\ r[19] = "action" /\ r[20] = "q"
    /\ r[21] = "colon" /\ r[22] = "q" /\ r[23] = "inference" /\ r[24] = "q"
    /\ r[25] = "comma" /\ r[26] = "q" /\ r[27] = "object" /\ r[28] = "q"
    /\ r[29] = "colon" /\ r[30] = "q" /\ r[31] = "stream" /\ r[32] = "q"
    /\ r[33] = "comma" /\ r[34] = "q" /\ r[35] = "data" /\ r[36] = "q"
    /\ r[37] = "colon"
    /\ \A i \in 1..(n + 20) : r[37 + i] = d[i]
    /\ r[n + 58] = "c"

LEMMA RawChars ==
    ASSUME NEW m \in Messages
    PROVE  RawAt(Raw(m), Piece(m), Len(m.text), m)
  <1> DEFINE r == Raw(m)
             d == Piece(m)
             n == Len(m.text)
             A == <<"o", "q", "zmq_com", "q", "colon", "q", m.client, "q",
                    "comma", "q", "request_id", "q", "colon", "q", m.rid, "q",
                    "comma", "q", "action", "q", "colon", "q", "inference", "q",
                    "comma", "q", "object", "q", "colon", "q", "stream", "q",
                    "comma", "q", "data", "q", "colon">>
             C == A \o d
  <1>1. n \in Nat /\ d \in Seq(Tokens) /\ Len(d) = n + 20
    BY PieceChars DEF PieceAt
  <1>2. m.client \in Tokens /\ m.rid \in Tokens
    BY DEF Messages, Tokens
  <1>3. r = C \o <<"c">>
    BY DEF Raw
  <1>4. /\ A \in Seq(Tokens) /\ Len(A) = 37
        /\ A[1] = "o" /\ A[2] = "q" /\ A[3] = "zmq_com" /\ A[4] = "q"
        /\ A[5] = "colon" /\ A[6] = "q" /\ A[7] = m.client /\ A[8] = "q"
        /\ A[9] = "comma" /\ A[10] = "q" /\ A[11] = "request_id" /\ A[12] = "q"
        /\ A[13] = "colon" /\ A[14] = "q" /\ A[15] = m.rid /\ A[16] = "q"
        /\ A[17] = "comma" /\ A[18] = "q" /\ A[19] = "action" /\ A[20] = "q"
        /\ A[21] = "colon" /\ A[22] = "q" /\ A[23] = "inference" /\ A[24] = "q"
        /\ A[25] = "comma" /\ A[26] = "q" /\ A[27] = "object" /\ A[28] = "q"
        /\ A[29] = "colon" /\ A[30] = "q" /\ A[31] = "stream" /\ A[32] = "q"
        /\ A[33] = "comma" /\ A[34] = "q" /\ A[35] = "data" /\ A[36] = "q"
        /\ A[37] = "colon"
    BY <1>2 DEF Tokens, Punctuation, Keys
  <1> HIDE DEF A, d, r, n
  <1>5. C \in Seq(Tokens) /\ Len(C) = Len(A) + Len(d)
        /\ \A i \in 1..(Len(A) + Len(d)) : C[i] = IF i <= Len(A) THEN A[i] ELSE d[i - Len(A)]
    <2>1. A \in Seq(Tokens) /\ d \in Seq(Tokens)
      BY <1>1, <1>4
    <2> QED
      BY <2>1, ConcatProperties
  <1> HIDE DEF C
  <1>6. Len(A) = 37 /\ Len(C) = n + 57
    BY <1>1, <1>4, <1>5
  <1>7. /\ \A i \in 1..37 : C[i] = A[i]
        /\ \A i \in 1..(n + 20) : C[37 + i] = d[i]
    <2>1. ASSUME NEW i \in 1..37 PROVE C[i] = A[i]
      <3>1. i \in 1..(Len(A) + Len(d)) /\ i <= Len(A)
        BY <1>1, <1>6
      <3> QED
        BY <1>5, <3>1
    <2>2. ASSUME NEW i \in 1..(n + 20) PROVE C[37 + i] = d[i]
      <3>1. 37 + i \in 1..(Len(A) + Len(d)) /\ ~(37 + i <= Len(A)) /\ (37 + i) - Len(A) = i
        BY <1>1, <1>6
      <3> QED
        BY <1>5, <3>1
    <2> QED
      BY <2>1, <2>2
  <1>8. /\ r \in Seq(Tokens) /\ Len(r) = n + 58 /\ r[n + 58] = "c"
        /\ \A i \in 1..(n + 57) : r[i] = C[i]
    <2>1. "c" \in Tokens
      BY DEF Tokens, Punctuation
    <2>2. r = Append(C, "c")
      BY <1>3, <1>5, <2>1, AppendIsConcat
    <2>3. /\ Append(C, "c") \in Seq(Tokens) /\ Len(Append(C, "c")) = Len(C) + 1
          /\ \A i \in 1..Len(C) : Append(C, "c")[i] = C[i]
          /\ Append(C, "c")[Len(C) + 1] = "c"
      BY <1>5, <2>1, AppendProperties
    <2>4. Len(C) + 1 = n + 58
      BY <1>1, <1>6
    <2> QED
      BY <1>6, <2>2, <2>3, <2>4
  <1>9. /\ \A i \in 1..37 : r[i] = A[i]
        /\ \A i \in 1..(n + 20) : r[37 + i] = d[i]
    <2>1. ASSUME NEW i \in 1..37 PROVE r[i] = A[i]
      <3>1. i \in 1..(n + 57)
        BY <1>1
      <3> QED
        BY <1>7, <1>8, <3>1
    <2>2. ASSUME NEW i \in 1..(n + 20) PROVE r[37 + i] = d[i]
      <3>1. 37 + i \in 1..(n + 57)
        BY <1>1
      <3> QED
        BY <1>7, <1>8, <3>1
    <2> QED
      BY <2>1, <2>2
  <1>10. RawAt(r, d, n, m)
    <2>1. /\ r[1] = A[1] /\ r[2] = A[2] /\ r[3] = A[3] /\ r[4] = A[4] /\ r[5] = A[5]
          /\ r[6] = A[6] /\ r[7] = A[7] /\ r[8] = A[8] /\ r[9] = A[9] /\ r[10] = A[10]
          /\ r[11] = A[11] /\ r[12] = A[12] /\ r[13] = A[13] /\ r[14] = A[14] /\ r[15] = A[15]
          /\ r[16] = A[16] /\ r[17] = A[17] /\ r[18] = A[18] /\ r[19] = A[19] /\ r[20] = A[20]
          /\ r[21] = A[21] /\ r[22] = A[22] /\ r[23] = A[23] /\ r[24] = A[24] /\ r[25] = A[25]
          /\ r[26] = A[26] /\ r[27] = A[27] /\ r[28] = A[28] /\ r[29] = A[29] /\ r[30] = A[30]
          /\ r[31] = A[31] /\ r[32] = A[32] /\ r[33] = A[33] /\ r[34] = A[34] /\ r[35] = A[35]
          /\ r[36] = A[36] /\ r[37] = A[37]
      BY <1>9
    <2> QED
      BY <1>4, <1>8, <1>9, <2>1 DEF RawAt
  <1> QED
    BY <1>10 DEF r, d, n

LEMMA SingleAt ==
    ASSUME NEW T, NEW s \in Seq(T), NEW i \in 1..Len(s)
    PROVE  SubSeq(s, i, i) = <<s[i]>>
  <1> DEFINE u == SubSeq(s, i, i)
  <1>1. u \in Seq(T) /\ Len(u) = 1 /\ u[1] = s[i]
    BY SubSeqProperties
  <1> HIDE DEF u
  <1>2. u = <<s[i]>>
    BY <1>1
  <1> QED
    BY <1>2 DEF u

(* The braces in the data of a message match.                              *)
LEMMA DataNested ==
    ASSUME NEW m \in Messages, NEW r, NEW d, NEW n \in Nat, Len(m.text) = n,
           PieceAt(d, n, m), RawAt(r, d, n, m)
    PROVE  \E f : Nesting(r, 38, n + 57, f) /\ f[n + 57] = 0
  <1> DEFINE D(i) == Depth(m.text, i)
             f == [i \in 38..(n + 57) |->
                      IF i <= 43 THEN 1
                      ELSE IF i <= n + 43 THEN 1 + D(i - 43)
                      ELSE IF i < n + 57 THEN 1 ELSE 0]
  <1>1. /\ D(0) = 0 /\ D(n) = 0 /\ \A i \in 0..n : D(i) \in Int /\ D(i) >= 0
        /\ \A i \in 1..n : D(i) = D(i - 1) + Brace(m.text[i])
    <2>1. m.text \in Seq(Words) /\ Clean(m.text) /\ DOMAIN m.text = 1..n
      BY CleanChars, LenProperties
    <2>2. /\ D(0) = 0 /\ \A i \in 0..n : D(i) \in Int
          /\ \A i \in 1..n : D(i) = D(i - 1) + Brace(m.text[i])
      BY <2>1, DepthStep
    <2>3. D(n) = 0 /\ \A i \in 1..n : D(i) >= 0
      BY <2>1 DEF Clean
    <2> QED
      BY <2>2, <2>3
  <1> HIDE DEF D
  <1>2. /\ f[38] = 1 /\ f[n + 57] = 0
        /\ \A i \in 38..43 : f[i] = 1
        /\ \A i \in 0..n : f[43 + i] = 1 + D(i)
        /\ \A i \in (n + 43)..(n + 56) : f[i] = 1
    <2>1. f[38] = 1 /\ f[n + 57] = 0 /\ \A i \in 38..43 : f[i] = 1
      OBVIOUS
    <2>2. ASSUME NEW i \in 0..n PROVE f[43 + i] = 1 + D(i)
      <3>1. CASE i = 0
        BY <1>1, <3>1
      <3>2. CASE i # 0
        <4>1. 43 + i \in 38..(n + 57) /\ ~(43 + i <= 43) /\ 43 + i <= n + 43 /\ (43 + i) - 43 = i
          BY <3>2
        <4> QED
          BY <4>1
      <3> QED
        BY <3>1, <3>2
    <2>3. ASSUME NEW i \in (n + 43)..(n + 56) PROVE f[i] = 1
      <3>1. CASE i = n + 43
        <4>1. i = 43 + n /\ n \in 0..n
          BY <3>1
        <4>2. f[43 + n] = 1 + D(n)
          BY <2>2, <4>1
        <4> QED
          BY <1>1, <4>1, <4>2
      <3>2. CASE i # n + 43
        BY <3>2
      <3> QED
        BY <3>1, <3>2
    <2> QED
      BY <2>1, <2>2, <2>3
  <1>3. f \in [38..(n + 57) -> Int]
    <2>1. ASSUME NEW i \in 38..(n + 57), 43 < i, i <= n + 43 PROVE 1 + D(i - 43) \in Int
      <3>1. i - 43 \in 0..n
        BY <2>1
      <3> QED
        BY <1>1, <3>1
    <2> QED
      BY <2>1
  <1> HIDE DEF f
  <1>4. ASSUME NEW i \in 39..(n + 57)
        PROVE  f[i - 1] # 0 /\ f[i] = f[i - 1] + Brace(r[i])
    <2>1. CASE i <= 43
      <3>1. i = 39 \/ i = 40 \/ i = 41 \/ i = 42 \/ i = 43
        BY <2>1
      <3>2. /\ r[37 + 2] = d[2] /\ r[37 + 3] = d[3] /\ r[37 + 4] = d[4] /\ r[37 + 5] = d[5]
            /\ r[37 + 6] = d[6]
        BY DEF RawAt
      <3>3. d[2] = "q" /\ d[3] = "delta" /\ d[4] = "q" /\ d[5] = "colon" /\ d[6] = "q"
        BY DEF PieceAt
      <3>5. r[i] \in {"q", "delta", "colon"}
        BY <3>1, <3>2, <3>3
      <3>6. Brace(r[i]) = 0
        BY <3>5 DEF Brace
      <3>4. f[i] = 1 /\ f[i - 1] = 1
        BY <1>2, <2>1
      <3> QED
        BY <3>4, <3>6
    <2>2. CASE 43 < i /\ i <= n + 43
      <3> DEFINE j == i - 43
      <3>1. /\ j \in 1..n /\ j - 1 \in 0..n /\ i = 43 + j /\ i - 1 = 43 + (j - 1)
            /\ 6 + j \in 1..(n + 20) /\ 37 + (6 + j) = i /\ j \in 0..n
        BY <2>2
      <3> HIDE DEF j
      <3>2. r[i] = m.text[j]
        <4>1. r[37 + (6 + j)] = d[6 + j]
          BY <3>1 DEF RawAt
        <4>2. d[6 + j] = m.text[j]
          BY <3>1 DEF PieceAt
        <4> QED
          BY <3>1, <4>1, <4>2
      <3>3. f[43 + j] = 1 + D(j) /\ f[43 + (j - 1)] = 1 + D(j - 1)
        BY <1>2, <3>1
      <3>4. D(j) = D(j - 1) + Brace(m.text[j]) /\ D(j - 1) \in Int /\ D(j - 1) >= 0
        BY <1>1, <3>1
      <3>5. Brace(m.text[j]) \in Int
        BY DEF Brace
      <3>6. f[i] = 1 + D(j) /\ f[i - 1] = 1 + D(j - 1)
        BY <3>1, <3>3
      <3>7. 1 + D(j - 1) # 0 /\ 1 + D(j) = 1 + D(j - 1) + Brace(m.text[j])
        BY <3>4, <3>5
      <3> QED
        BY <3>2, <3>6, <3>7
    <2>3. CASE n + 43 < i /\ i <= n + 56
      <3> DEFINE j == i - 37
      <3>1. /\ j \in 1..(n + 20) /\ 37 + j = i
            /\ \/ j = n + 7 \/ j = n + 8 \/ j = n + 9 \/ j = n + 10 \/ j = n + 11
               \/ j = n + 12 \/ j = n + 13 \/ j = n + 14 \/ j = n + 15 \/ j = n + 16
               \/ j = n + 17 \/ j = n + 18 \/ j = n + 19
        BY <2>3
      <3> HIDE DEF j
      <3>2. r[i] = d[j]
        BY <3>1 DEF RawAt
      <3>3. Digits[m.index + 1] # "o" /\ Digits[m.index + 1] # "c"
        BY CleanChars, Numbers, StreamAssumption DEF Punctuation
      <3>4. Flag(m.finish) # "o" /\ Flag(m.finish) # "c"
        BY DEF Flag
      <3>8. /\ d[n + 7] = "q" /\ d[n + 8] = "comma" /\ d[n + 9] = "q" /\ d[n + 10] = "index"
            /\ d[n + 11] = "q" /\ d[n + 12] = "colon" /\ d[n + 13] = Digits[m.index + 1]
            /\ d[n + 14] = "comma" /\ d[n + 15] = "q" /\ d[n + 16] = "finish" /\ d[n + 17] = "q"
            /\ d[n + 18] = "colon" /\ d[n + 19] = Flag(m.finish)
        BY DEF PieceAt
      <3>9. d[j] \in {"q", "comma", "index", "colon", "finish", Digits[m.index + 1],
                      Flag(m.finish)}
        BY <3>1, <3>8
      <3>5. d[j] # "o" /\ d[j] # "c"
        BY <3>3, <3>4, <3>9
      <3>6. f[i] = 1 /\ f[i - 1] = 1
        BY <1>2, <2>3
      <3>7. Brace(r[i]) = 0
        BY <3>2, <3>5 DEF Brace
      <3> QED
        BY <3>6, <3>7
    <2>4. CASE i = n + 57
      <3>1. n + 20 \in 1..(n + 20) /\ 37 + (n + 20) = i /\ i - 1 \in (n + 43)..(n + 56)
        BY <2>4
      <3>2. r[i] = "c"
        BY <3>1 DEF RawAt, PieceAt
      <3>3. Brace(r[i]) = -1
        BY <3>2 DEF Brace
      <3>4. f[i] = 0 /\ f[i - 1] = 1
        BY <1>2, <2>4, <3>1
      <3> QED
        BY <3>3, <3>4
    <2> QED
      BY <2>1, <2>2, <2>3, <2>4
  <1>5. Nesting(r, 38, n + 57, f)
    <2>1. 38 + 1 = 39
      OBVIOUS
    <2> QED
      BY <1>2, <1>3, <1>4, <2>1 DEF Nesting
  <1> QED
    BY <1>2, <1>5

(* What the node reads of a message.                                       *)
LEMMA ReadRaw ==
    ASSUME NEW m \in Messages
    PROVE  /\ sample_json_str_get(Raw(m), "zmq_com") = <<m.client>>
           /\ sample_json_str_get(Raw(m), "request_id") = <<m.rid>>
           /\ sample_json_str_get(Raw(m), "object") = <<"stream">>
           /\ sample_json_str_get(Raw(m), "data") = Piece(m)
  <1> DEFINE r == Raw(m)
             d == Piece(m)
             n == Len(m.text)
  <1>0. RawAt(r, d, n, m) /\ PieceAt(d, n, m)
    BY RawChars, PieceChars
  <1>1. n \in Nat /\ r \in Seq(Tokens) /\ Len(r) = n + 58
    BY <1>0 DEF RawAt, PieceAt
  <1>2. /\ m.client \notin Punctuation \cup Keys /\ m.rid \notin Punctuation \cup Keys
        /\ m.client # "q" /\ m.client # "b" /\ m.rid # "q" /\ m.rid # "b"
        /\ m.client # "zmq_com" /\ m.client # "request_id" /\ m.client # "object"
        /\ m.client # "data" /\ m.rid # "request_id" /\ m.rid # "object" /\ m.rid # "data"
    <2>1. m.client \in Clients /\ m.rid \in Numerals
      BY DEF Messages
    <2>2. m.client \notin Punctuation \cup Keys /\ m.rid \notin Punctuation \cup Keys
      BY <2>1, StreamAssumption
    <2> QED
      BY <2>2 DEF Punctuation, Keys
  <1> HIDE DEF r, d, n
  <1>3. FirstKey(r, "zmq_com", 2)
    <2>1. \A k \in 2..2 : r[k] # "zmq_com"
      <3> SUFFICES ASSUME NEW k \in 2..2 PROVE r[k] # "zmq_com"
        OBVIOUS
      <3>1. \/ k = 2
        OBVIOUS
      <3> QED
        BY <1>0, <1>2, <3>1 DEF RawAt
    <2>2. \A j \in 1..(2 - 1) : j + 1 \in 2..2
      OBVIOUS
    <2>3. 2 \in 1..(Len(r) - 2)
      BY <1>1
    <2>4. r[2] = "q" /\ r[2 + 1] = "zmq_com" /\ r[2 + 2] = "q"
      BY <1>0 DEF RawAt
    <2> QED
      BY <2>1, <2>2, <2>3, <2>4 DEF FirstKey
  <1>4. sample_json_str_get(r, "zmq_com") = <<m.client>>
    <2> DEFINE p == 2
               e == 8
    <2>1. /\ e \in (p + 5)..Len(r) /\ r[p + 3] = "colon" /\ r[p + 4] = "q" /\ r[e] = "q"
          /\ \A i \in (p + 5)..(e - 1) : i = p + 5
          /\ e - 1 = p + 5 /\ p + 5 \in 1..Len(r) /\ r[p + 5] = m.client
      BY <1>0, <1>1 DEF RawAt
    <2>2. m.client # "q" /\ m.client # "b"
      BY <1>2
    <2>3. FirstKey(r, "zmq_com", p)
      BY <1>3
    <2> HIDE DEF p, e
    <2>4. sample_json_str_get(r, "zmq_com") = SubSeq(r, p + 5, e - 1)
      BY <1>1, <2>1, <2>2, <2>3, ReadQuoted
    <2>5. SubSeq(r, p + 5, p + 5) = <<r[p + 5]>>
      BY <1>1, <2>1, SingleAt
    <2> QED
      BY <2>1, <2>4, <2>5
  <1>5. FirstKey(r, "request_id", 10)
    <2>1. \A k \in 2..10 : r[k] # "request_id"
      <3> SUFFICES ASSUME NEW k \in 2..10 PROVE r[k] # "request_id"
        OBVIOUS
      <3>1. \/ k = 2 \/ k = 3 \/ k = 4 \/ k = 5 \/ k = 6 \/ k = 7 \/ k = 8 \/ k = 9
            \/ k = 10
        OBVIOUS
      <3> QED
        BY <1>0, <1>2, <3>1 DEF RawAt
    <2>2. \A j \in 1..(10 - 1) : j + 1 \in 2..10
      OBVIOUS
    <2>3. 10 \in 1..(Len(r) - 2)
      BY <1>1
    <2>4. r[10] = "q" /\ r[10 + 1] = "request_id" /\ r[10 + 2] = "q"
      BY <1>0 DEF RawAt
    <2> QED
      BY <2>1, <2>2, <2>3, <2>4 DEF FirstKey
  <1>6. sample_json_str_get(r, "request_id") = <<m.rid>>
    <2> DEFINE p == 10
               e == 16
    <2>1. /\ e \in (p + 5)..Len(r) /\ r[p + 3] = "colon" /\ r[p + 4] = "q" /\ r[e] = "q"
          /\ \A i \in (p + 5)..(e - 1) : i = p + 5
          /\ e - 1 = p + 5 /\ p + 5 \in 1..Len(r) /\ r[p + 5] = m.rid
      BY <1>0, <1>1 DEF RawAt
    <2>2. m.rid # "q" /\ m.rid # "b"
      BY <1>2
    <2>3. FirstKey(r, "request_id", p)
      BY <1>5
    <2> HIDE DEF p, e
    <2>4. sample_json_str_get(r, "request_id") = SubSeq(r, p + 5, e - 1)
      BY <1>1, <2>1, <2>2, <2>3, ReadQuoted
    <2>5. SubSeq(r, p + 5, p + 5) = <<r[p + 5]>>
      BY <1>1, <2>1, SingleAt
    <2> QED
      BY <2>1, <2>4, <2>5
  <1>7. FirstKey(r, "object", 26)
    <2>1. \A k \in 2..26 : r[k] # "object"
      <3> SUFFICES ASSUME NEW k \in 2..26 PROVE r[k] # "object"
        OBVIOUS
      <3>1. \/ k = 2 \/ k = 3 \/ k = 4 \/ k = 5 \/ k = 6 \/ k = 7 \/ k = 8 \/ k = 9
            \/ k = 10 \/ k = 11 \/ k = 12 \/ k = 13 \/ k = 14 \/ k = 15 \/ k = 16 \/ k = 17
            \/ k = 18 \/ k = 19 \/ k = 20 \/ k = 21 \/ k = 22 \/ k = 23 \/ k = 24 \/ k = 25
            \/ k = 26
        OBVIOUS
      <3>2. /\ r[2] = "q" /\ r[3] = "zmq_com" /\ r[4] = "q"
            /\ r[5] = "colon" /\ r[6] = "q" /\ r[7] = m.client /\ r[8] = "q"
            /\ r[9] = "comma" /\ r[10] = "q" /\ r[11] = "request_id" /\ r[12] = "q"
            /\ r[13] = "colon" /\ r[14] = "q" /\ r[15] = m.rid /\ r[16] = "q"
            /\ r[17] = "comma" /\ r[18] = "q" /\ r[19] = "action" /\ r[20] = "q"
            /\ r[21] = "colon" /\ r[22] = "q" /\ r[23] = "inference" /\ r[24] = "q"
            /\ r[25] = "comma" /\ r[26] = "q"
        BY <1>0 DEF RawAt
      <3>3. r[k] \in {"q", "zmq_com", "colon", m.client, "comma", "request_id", m.rid,
                      "action", "inference"}
        BY <3>1, <3>2
      <3> QED
        BY <1>2, <3>3
    <2>2. \A j \in 1..(26 - 1) : j + 1 \in 2..26
      OBVIOUS
    <2>3. 26 \in 1..(Len(r) - 2)
      BY <1>1
    <2>4. r[26] = "q" /\ r[26 + 1] = "object" /\ r[26 + 2] = "q"
      BY <1>0 DEF RawAt
    <2> QED
      BY <2>1, <2>2, <2>3, <2>4 DEF FirstKey
  <1>8. sample_json_str_get(r, "object") = <<"stream">>
    <2> DEFINE p == 26
               e == 32
    <2>1. /\ e \in (p + 5)..Len(r) /\ r[p + 3] = "colon" /\ r[p + 4] = "q" /\ r[e] = "q"
          /\ \A i \in (p + 5)..(e - 1) : i = p + 5
          /\ e - 1 = p + 5 /\ p + 5 \in 1..Len(r) /\ r[p + 5] = "stream"
      BY <1>0, <1>1 DEF RawAt
    <2>2. "stream" # "q" /\ "stream" # "b"
      BY <1>2
    <2>3. FirstKey(r, "object", p)
      BY <1>7
    <2> HIDE DEF p, e
    <2>4. sample_json_str_get(r, "object") = SubSeq(r, p + 5, e - 1)
      BY <1>1, <2>1, <2>2, <2>3, ReadQuoted
    <2>5. SubSeq(r, p + 5, p + 5) = <<r[p + 5]>>
      BY <1>1, <2>1, SingleAt
    <2> QED
      BY <2>1, <2>4, <2>5
  <1>9. FirstKey(r, "data", 34)
    <2>1. \A k \in 2..34 : r[k] # "data"
      <3> SUFFICES ASSUME NEW k \in 2..34 PROVE r[k] # "data"
        OBVIOUS
      <3>1. \/ k = 2 \/ k = 3 \/ k = 4 \/ k = 5 \/ k = 6 \/ k = 7 \/ k = 8 \/ k = 9
            \/ k = 10 \/ k = 11 \/ k = 12 \/ k = 13 \/ k = 14 \/ k = 15 \/ k = 16 \/ k = 17
            \/ k = 18 \/ k = 19 \/ k = 20 \/ k = 21 \/ k = 22 \/ k = 23 \/ k = 24 \/ k = 25
            \/ k = 26 \/ k = 27 \/ k = 28 \/ k = 29 \/ k = 30 \/ k = 31 \/ k = 32 \/ k = 33
            \/ k = 34
        OBVIOUS
      <3>2. /\ r[2] = "q" /\ r[3] = "zmq_com" /\ r[4] = "q"
            /\ r[5] = "colon" /\ r[6] = "q" /\ r[7] = m.client /\ r[8] = "q"
            /\ r[9] = "comma" /\ r[10] = "q" /\ r[11] = "request_id" /\ r[12] = "q"
            /\ r[13] = "colon" /\ r[14] = "q" /\ r[15] = m.rid /\ r[16] = "q"
            /\ r[17] = "comma" /\ r[18] = "q" /\ r[19] = "action" /\ r[20] = "q"
            /\ r[21] = "colon" /\ r[22] = "q" /\ r[23] = "inference" /\ r[24] = "q"
            /\ r[25] = "comma" /\ r[26] = "q"
            /\ r[27] = "object" /\ r[28] = "q"
            /\ r[29] = "colon" /\ r[30] = "q" /\ r[31] = "stream" /\ r[32] = "q"
            /\ r[33] = "comma" /\ r[34] = "q"
        BY <1>0 DEF RawAt
      <3>3. r[k] \in {"q", "zmq_com", "colon", m.client, "comma", "request_id", m.rid,
                      "action", "inference", "object", "stream"}
        BY <3>1, <3>2
      <3> QED
        BY <1>2, <3>3
    <2>2. \A j \in 1..(34 - 1) : j + 1 \in 2..34
      OBVIOUS
    <2>3. 34 \in 1..(Len(r) - 2)
      BY <1>1
    <2>4. r[34] = "q" /\ r[34 + 1] = "data" /\ r[34 + 2] = "q"
      BY <1>0 DEF RawAt
    <2> QED
      BY <2>1, <2>2, <2>3, <2>4 DEF FirstKey
  <1>10. sample_json_str_get(r, "data") = d
    <2> DEFINE p == 34
               e == n + 57
    <2>1. /\ e \in (p + 4)..Len(r) /\ r[p + 3] = "colon" /\ p + 4 = 38
      BY <1>0, <1>1 DEF RawAt
    <2>2. r[p + 4] = "o"
      <3>1. 1 \in 1..(n + 20) /\ 37 + 1 = p + 4
        BY <1>1
      <3> QED
        BY <1>0, <3>1 DEF RawAt, PieceAt
    <2>3. FirstKey(r, "data", p)
      BY <1>9
    <2>4. PICK f : Nesting(r, 38, n + 57, f) /\ f[n + 57] = 0
      BY <1>0, <1>1, DataNested DEF n
    <2>5. Nesting(r, p + 4, e, f) /\ f[e] = 0
      BY <2>4
    <2> HIDE DEF p, e
    <2>6. sample_json_str_get(r, "data") = SubSeq(r, p + 4, e)
      BY <1>1, <2>1, <2>2, <2>3, <2>5, ReadObject
    <2>7. SubSeq(r, 38, n + 57) = d
      <3> DEFINE u == SubSeq(r, 38, n + 57)
      <3>1. u \in Seq(Tokens) /\ Len(u) = n + 20 /\ \A i \in 1..(n + 20) : u[i] = r[38 + i - 1]
        BY <1>1, SubSeqProperties
      <3>2. \A i \in 1..(n + 20) : 38 + i - 1 = 37 + i
        BY <1>1
      <3> HIDE DEF u
      <3>6. \A i \in 1..(n + 20) : r[37 + i] = d[i]
        BY <1>0 DEF RawAt
      <3>3. \A i \in 1..(n + 20) : u[i] = d[i]
        BY <3>1, <3>2, <3>6
      <3>4. d \in Seq(Tokens) /\ Len(d) = n + 20
        BY <1>0 DEF PieceAt
      <3>5. u = d
        BY <3>1, <3>3, <3>4, SeqEqual
      <3> QED
        BY <3>5 DEF u
    <2> QED
      BY <2>1, <2>6, <2>7 DEF e
  <1> QED
    BY <1>4, <1>6, <1>8, <1>10 DEF r, d

(* The scanner reads a message back as the client wrote it: who sends it,  *)
(* its number, its object, and of its data the index, the flag and the     *)
(* text, whatever keys, colons, commas and braces the text has, as long as *)
(* it is Clean.  sample_json_str_get parses nothing, so this is far from   *)
(* obvious: it holds for texts and numbers of any length.                  *)
THEOREM ReadsBack ==
    ASSUME NEW m \in Messages
    PROVE  /\ Scanned(Raw(m)).zmq_com = <<m.client>>
           /\ Scanned(Raw(m)).request_id = <<m.rid>>
           /\ Scanned(Raw(m)).object = <<"stream">>
           /\ Scanned(Raw(m)).data # <<>>
           /\ Scanned(Raw(m)).index = <<Digits[m.index + 1]>>
           /\ Scanned(Raw(m)).finish = <<Flag(m.finish)>>
           /\ Scanned(Raw(m)).delta = m.text
  <1>1. Piece(m) # <<>>
    BY PieceChars DEF PieceAt
  <1> QED
    BY <1>1, ReadRaw, ReadPiece DEF Scanned
-----------------------------------------------------------------------------
(* The history of a run, which the invariant says exists: stream k was     *)
(* started as the (k + 1)-th one, by who[k], and has the pieces what[k];   *)
(* the first `sent' streams are sent to the end, and `part' pieces of the  *)
(* next one; the first `read' streams are put together; the i-th message   *)
(* in the queue is piece place[i] of stream owner[i]; and the i-th entry   *)
(* of asked[c] is stream own[c][i].                                        *)
Message(who, what, k, j) ==
    [client |-> who[k], rid |-> Digits[k + 1], text |-> what[k][j + 1], index |-> j,
     finish |-> j + 1 = Len(what[k])]

(* Piece j of stream k has been sent.                                      *)
IsSent(what, sent, part, k, j) ==
    (k < sent /\ j < Len(what[k])) \/ (k = sent /\ j < part)

(* The streams and who sends the last one.                                 *)
Sender(t, who, what, sent, part) ==
    /\ started \in 0..MaxStreams /\ sent \in Nat /\ part \in Nat
    /\ who \in [0..(started - 1) -> Clients] /\ what \in [0..(started - 1) -> Streams]
    /\ \/ /\ sent = started /\ part = 0
          /\ client = [c \in Clients |-> Rest(t)]
       \/ /\ sent + 1 = started /\ part < Len(what[sent])
          /\ client = [c \in Clients |->
                 IF c = who[sent]
                 THEN [stream |-> what[sent], sent |-> part, rid |-> Digits[sent + 1], task |-> t]
                 ELSE Rest(t)]

(* The queue has the pieces in the order they were sent, the last one of   *)
(* every stream that is not yet put together among them.                   *)
Queued(t, who, what, sent, part, read, owner, place) ==
    /\ read \in 0..sent
    /\ owner \in Seq(Nat) /\ place \in Seq(Nat)
    /\ Len(place) = Len(owner) /\ Len(queue[t]) = Len(owner)
    /\ \A i \in 1..Len(owner) :
           /\ read <= owner[i] /\ IsSent(what, sent, part, owner[i], place[i])
           /\ queue[t][i] = Scanned(Raw(Message(who, what, owner[i], place[i])))
    /\ \A i, l \in 1..Len(owner) :
           i < l => owner[i] < owner[l] \/ (owner[i] = owner[l] /\ place[i] < place[l])
    /\ \A k \in read..(sent - 1) : \E i \in 1..Len(owner) :
           owner[i] = k /\ place[i] + 1 = Len(what[k])

(* stream_buff has pieces of the stream that is put together next, and no  *)
(* piece is missing unless one was lost.                                   *)
Buffered(what, sent, part, read, owner, place) ==
    /\ DOMAIN stream_buff \subseteq Nat
    /\ \A j \in DOMAIN stream_buff :
           IsSent(what, sent, part, read, j) /\ stream_buff[j] = what[read][j + 1]
    /\ ~lost => \A k \in read..sent : \A j \in Nat :
           IsSent(what, sent, part, k, j) =>
               \/ k = read /\ j \in DOMAIN stream_buff
               \/ \E i \in 1..Len(owner) : owner[i] = k /\ place[i] = j

(* The calls the inference still makes after n of them.                    *)
Calls(text, n) ==
    IF n = 0 THEN <<[data |-> text, finish |-> FALSE],
                    [data |-> <<"hello">>, finish |-> FALSE],
                    [data |-> <<>>, finish |-> TRUE]>>
    ELSE IF n = 1 THEN <<[data |-> <<"hello">>, finish |-> FALSE],
                         [data |-> <<>>, finish |-> TRUE]>>
    ELSE <<[data |-> <<>>, finish |-> TRUE]>>

Inferring(t, who, what, read) ==
    \/ out[t] = <<>> /\ count = 0
    \/ /\ read > 0 /\ count \in 0..2
       /\ out[t] = Calls(FlattenSeq(what[read - 1]), count)
       /\ chan[t] = [zmq_com |-> <<who[read - 1]>>, request_id |-> <<Digits[read]>>]

(* asked[c] has the streams own[c], in the order they were sent: all those *)
(* of c that are not yet put together, and a few older ones.               *)
Asking(who, what, sent, read, own, c) ==
    /\ Len(asked[c]) = Len(own[c])
    /\ \A i \in 1..Len(own[c]) :
           /\ own[c][i] < sent /\ who[own[c][i]] = c
           /\ asked[c][i] = [text |-> FlattenSeq(what[own[c][i]]), rid |-> Digits[own[c][i] + 1]]
    /\ \A i, l \in 1..Len(own[c]) : i < l => own[c][i] < own[c][l]
    /\ \A k \in read..(sent - 1) : who[k] = c => \E i \in 1..Len(own[c]) : own[c][i] = k

(* An answer, whole or not, is the one to the first stream asked; behind   *)
(* it come the stream whose answer has not begun, if it is c's, and those  *)
(* that are not put together.                                              *)
Old(c) == IF answer[c] = <<>> THEN 0 ELSE 1
Mine(t, who, read, c) == out[t] # <<>> /\ who[read - 1] = c

Answering(t, who, read, own, c) ==
    /\ answer[c] # <<>> => own[c] # <<>> /\ own[c][1] < read
    /\ Mine(t, who, read, c) /\ count = 0 =>
           /\ Old(c) + 1 <= Len(own[c]) /\ own[c][Old(c) + 1] = read - 1
    /\ Mine(t, who, read, c) /\ count # 0 => Len(answer[c]) = count /\ own[c][1] = read - 1
    /\ ~(Mine(t, who, read, c) /\ count # 0) => Len(answer[c]) \in {0, 3}
    /\ ~(Mine(t, who, read, c) /\ count = 0) =>
           \A i \in 1..Len(own[c]) : i > Old(c) => own[c][i] >= read

(* The i-th piece of an answer.                                            *)
Reply(ask, i) ==
    [index |-> i - 1, finish |-> i = 3, request_id |-> <<ask.rid>>,
     delta |-> CASE i = 1 -> ask.text [] i = 2 -> <<"hello">> [] OTHER -> <<>>]

Whole(c) ==
    \A i \in 1..Len(answer[c]) : asked[c] # <<>> /\ answer[c][i] = Reply(asked[c][1], i)

Posts == {Scanned(Raw(m)) : m \in Messages}
Contents == {FlattenSeq(s) : s \in Streams}
Asks == [text : Contents, rid : Numerals]
Replies ==
    [index : Int, finish : BOOLEAN, request_id : Seq(Numerals),
     delta : Contents \cup {<<"hello">>, <<>>}]

Typed(t) ==
    /\ DOMAIN queue = {t} /\ queue[t] \in Seq(Posts) /\ DOMAIN chan = {t} /\ DOMAIN out = {t}
    /\ alive \in BOOLEAN /\ lost \in BOOLEAN
    /\ asked \in [Clients -> Seq(Asks)] /\ answer \in [Clients -> Seq(Replies)]

(* A node that is gone reads no more: only the clients still move.         *)
Held(t, who, what, sent, part, read, owner, place, own) ==
    /\ Sender(t, who, what, sent, part)
    /\ alive =>
           /\ Queued(t, who, what, sent, part, read, owner, place)
           /\ Buffered(what, sent, part, read, owner, place)
           /\ Inferring(t, who, what, read)
           /\ own \in [Clients -> Seq(Nat)]
           /\ \A c \in Clients :
                  Asking(who, what, sent, read, own, c) /\ Answering(t, who, read, own, c)

History(t) ==
    \E who, what, sent, part, read, owner, place, own :
        Held(t, who, what, sent, part, read, owner, place, own)

StreamInv(t) ==
    /\ Typed(t)
    /\ alive \/ lost
    /\ \A c \in Clients : Whole(c)
    /\ History(t)

LEMMA StreamShape ==
    ASSUME ~AnyText, NEW s \in Streams
    PROVE  s \in Seq({x \in Seq(Words) : Clean(x)}) /\ Len(s) \in 1..MaxPieces
  <1>1. PICK m \in 0..MaxPieces : s \in [1..m -> Texts]
    BY DEF Streams, SeqOf
  <1>2. m \in Nat /\ MaxText \in Nat /\ MaxPieces \in Nat
    BY StreamAssumption
  <1>3. s \in Seq(Texts) /\ Len(s) = m
    BY <1>1, <1>2
  <1>4. s # <<>>
    BY DEF Streams
  <1>5. m # 0
    BY <1>3, <1>4
  <1>6. \A x \in Texts : x \in Seq(Words) /\ Clean(x)
    <2> SUFFICES ASSUME NEW x \in Texts PROVE x \in Seq(Words) /\ Clean(x)
      OBVIOUS
    <2>1. PICK n \in 0..MaxText : x \in [1..n -> Words]
      BY DEF Texts, SeqOf
    <2>2. n \in Nat
      BY <1>2
    <2>3. x \in Seq(Words)
      BY <2>1, <2>2
    <2>4. Clean(x)
      BY DEF Texts
    <2> QED
      BY <2>3, <2>4
  <1> HIDE DEF Texts
  <1>7. \A i \in 1..Len(s) : s[i] \in {x \in Seq(Words) : Clean(x)}
    BY <1>3, <1>6
  <1>8. s \in Seq({x \in Seq(Words) : Clean(x)})
    BY <1>1, <1>2, <1>3, <1>7
  <1> QED
    BY <1>2, <1>3, <1>5, <1>8

LEMMA MessageIs ==
    ASSUME ~AnyText, NEW who, NEW what, started \in 0..MaxStreams,
           who \in [0..(started - 1) -> Clients], what \in [0..(started - 1) -> Streams],
           NEW k \in 0..(started - 1), NEW j \in Nat, j < Len(what[k])
    PROVE  Message(who, what, k, j) \in Messages
  <1>1. who[k] \in Clients /\ what[k] \in Streams
    OBVIOUS
  <1>2. what[k] \in Seq({x \in Seq(Words) : Clean(x)}) /\ Len(what[k]) \in 1..MaxPieces
    BY <1>1, StreamShape
  <1>3. /\ Cardinality(Numerals) \in Nat
        /\ MaxPieces \in 0..Cardinality(Numerals) /\ MaxStreams \in 0..Cardinality(Numerals)
    BY StreamAssumption, FS_CardinalityType
  <1>4. k + 1 \in 1..Cardinality(Numerals) /\ j \in 0..(Cardinality(Numerals) - 1)
    BY <1>2, <1>3
  <1>5. Digits[k + 1] \in Numerals
    BY <1>4, Numbers
  <1>6. what[k][j + 1] \in {x \in Seq(Words) : Clean(x)}
    <2>1. j + 1 \in 1..Len(what[k])
      BY <1>2
    <2> QED
      BY <1>2, <2>1
  <1>7. (j + 1 = Len(what[k])) \in BOOLEAN
    OBVIOUS
  <1> QED
    BY <1>1, <1>4, <1>5, <1>6, <1>7 DEF Message, Messages

(* decode_stream reads the index and the flag of a message as they were.   *)
LEMMA Decoded ==
    ASSUME NEW m \in Messages, NEW in,
           in.index = <<Digits[m.index + 1]>>, in.finish = <<Flag(m.finish)>>,
           in.delta = m.text
    PROVE  decode_stream(in) =
               IF m.finish THEN PutTogether(Stored(m.index, m.text))
               ELSE [res |-> "more", buff |-> Stored(m.index, m.text), text |-> <<>>]
  <1> DEFINE n == Cardinality(Numerals)
             x == CHOOSE i \in 0..(Len(Digits) - 1) : Digits[i + 1] = in.index[1]
  <1>1. m.index \in 0..(n - 1) /\ m.finish \in BOOLEAN
    BY DEF Messages
  <1>2. /\ n \in Nat /\ Digits \in Seq(Numerals) /\ Len(Digits) = n
        /\ \A i, j \in 1..n : Digits[i] = Digits[j] => i = j
    BY Numbers
  <1> HIDE DEF n
  <1>3. in.index # <<>> /\ in.index[1] = Digits[m.index + 1]
    OBVIOUS
  <1>4. m.index + 1 \in DOMAIN Digits
    BY <1>1, <1>2
  <1>5. in.index[1] \in Range(Digits)
    BY <1>3, <1>4 DEF Range
  <1>6. x = m.index
    <2>1. m.index \in 0..(Len(Digits) - 1) /\ Digits[m.index + 1] = in.index[1]
      BY <1>1, <1>2, <1>3
    <2>2. x \in 0..(Len(Digits) - 1) /\ Digits[x + 1] = in.index[1]
      BY <2>1
    <2> HIDE DEF x
    <2>3. x + 1 \in 1..n /\ m.index + 1 \in 1..n /\ x \in Int /\ m.index \in Int
      BY <1>1, <1>2, <2>2
    <2>4. x + 1 = m.index + 1
      BY <1>2, <1>3, <2>2, <2>3
    <2> QED
      BY <2>3, <2>4
  <1>7. Range(in.finish) = {Flag(m.finish)}
    BY DEF Range
  <1>8. {"false", "finish"} \cap Range(in.finish) = {} <=> m.finish
    BY <1>1, <1>7 DEF Flag
  <1> HIDE DEF x
  <1>9. decode_stream(in) =
            IF {"false", "finish"} \cap Range(in.finish) = {}
            THEN PutTogether(Stored(x, in.delta))
            ELSE [res |-> "more", buff |-> Stored(x, in.delta), text |-> <<>>]
    BY <1>3, <1>5 DEF decode_stream, x
  <1> QED
    BY <1>6, <1>8, <1>9

(* Pieces of a stream, the last one among them, are put together to the    *)
(* whole stream or not at all.                                             *)
LEMMA PutTogetherIs ==
    ASSUME NEW S, NEW s \in Seq(S), NEW n \in Nat, Len(s) = n, NEW buff,
           DOMAIN buff \subseteq 0..(n - 1), n - 1 \in DOMAIN buff,
           \A j \in DOMAIN buff : buff[j] = s[j + 1]
    PROVE  \/ PutTogether(buff) = Threw /\ DOMAIN buff # 0..(n - 1)
           \/ PutTogether(buff) = [res |-> "text", buff |-> <<>>, text |-> FlattenSeq(s)]
  <1> DEFINE l == Cardinality(DOMAIN buff)
  <1>1. IsFiniteSet(0..(n - 1)) /\ Cardinality(0..(n - 1)) = IF 0 > n - 1 THEN 0 ELSE n
    BY FS_Interval
  <1>2. n # 0
    OBVIOUS
  <1>3. IsFiniteSet(DOMAIN buff) /\ l \in Nat
    BY <1>1, FS_Subset, FS_CardinalityType
  <1>4. CASE DOMAIN buff # 0..(l - 1)
    <2>1. DOMAIN buff # 0..(n - 1)
      BY <1>1, <1>2, <1>4
    <2> QED
      BY <1>4, <2>1 DEF PutTogether
  <1>5. CASE DOMAIN buff = 0..(l - 1)
    <2> HIDE DEF l
    <2>1. l = n
      BY <1>2, <1>3, <1>5
    <2> DEFINE f == [i \in 1..l |-> buff[i - 1]]
    <2>2. \A i \in 1..n : i - 1 \in DOMAIN buff /\ f[i] = buff[i - 1] /\ i - 1 + 1 = i
      BY <1>5, <2>1
    <2>3. \A i \in 1..n : f[i] = s[i]
      BY <2>2
    <2>4. f = [i \in 1..n |-> f[i]]
      BY <2>1
    <2>5. s = [i \in 1..n |-> s[i]]
      OBVIOUS
    <2> HIDE DEF f
    <2>6. f = s
      BY <2>3, <2>4, <2>5
    <2>7. PutTogether(buff) = [res |-> "text", buff |-> <<>>, text |-> FlattenSeq(f)]
      BY <1>5 DEF PutTogether, f, l
    <2> QED
      BY <2>6, <2>7
  <1> QED
    BY <1>4, <1>5

LEMMA StreamInitially ==
    ASSUME NEW t, Tasks = {t}, Init
    PROVE  StreamInv(t)
  <1> USE DEF Init
  <1>1. Typed(t)
    <2>1. queue[t] = <<>> /\ <<>> \in Seq(Posts)
      OBVIOUS
    <2>2. DOMAIN queue = {t} /\ DOMAIN chan = {t} /\ DOMAIN out = {t}
      OBVIOUS
    <2>3. asked \in [Clients -> Seq(Asks)] /\ answer \in [Clients -> Seq(Replies)]
      OBVIOUS
    <2> QED
      BY <2>1, <2>2, <2>3 DEF Typed
  <1>2. \A c \in Clients : Whole(c)
    BY DEF Whole
  <1>3. History(t)
    <2> DEFINE none == [k \in 0..-1 |-> 0]
               own == [c \in Clients |-> <<>>]
    <2>1. Sender(t, none, none, 0, 0)
      <3>1. client = [c \in Clients |-> Rest(t)]
        OBVIOUS
      <3>2. started = 0 /\ 0 \in 0..MaxStreams
        BY StreamAssumption
      <3>3. none \in [0..(started - 1) -> Clients] /\ none \in [0..(started - 1) -> Streams]
        BY <3>2
      <3> QED
        BY <3>1, <3>2, <3>3 DEF Sender
    <2>2. Queued(t, none, none, 0, 0, 0, <<>>, <<>>)
      BY DEF Queued
    <2>3. Buffered(none, 0, 0, 0, <<>>, <<>>)
      BY DEF Buffered, IsSent
    <2>4. Inferring(t, none, none, 0)
      BY DEF Inferring
    <2>5. own \in [Clients -> Seq(Nat)]
      OBVIOUS
    <2>6. ASSUME NEW c \in Clients
          PROVE  Asking(none, none, 0, 0, own, c) /\ Answering(t, none, 0, own, c)
      <3>1. asked[c] = <<>> /\ answer[c] = <<>> /\ own[c] = <<>> /\ out[t] = <<>>
        OBVIOUS
      <3> HIDE DEF own, none, Init
      <3> QED
        BY <3>1 DEF Asking, Answering, Mine
    <2> HIDE DEF own, none
    <2>7. Held(t, none, none, 0, 0, 0, <<>>, <<>>, own)
      BY <2>1, <2>2, <2>3, <2>4, <2>5, <2>6 DEF Held
    <2> QED
      BY <2>7 DEF History
  <1> QED
    BY <1>1, <1>2, <1>3 DEF StreamInv

(* A new stream: nothing of it is sent, so nothing else changes.           *)
LEMMA StartKeeps ==
    ASSUME NEW t, Tasks = {t}, ~AnyText, ~Mixing, StreamInv(t), NEW c \in Clients, StartStream(c)
    PROVE  StreamInv(t)'
  <1>1. /\ UNCHANGED <<queue, chan, out, stream_buff, count, alive, asked, answer, lost>>
        /\ started < MaxStreams /\ started' = started + 1
        /\ \A b \in Clients : ~Sending(b)
    BY DEF StartStream
  <1>2. PICK s \in Streams :
            client' = [client EXCEPT ![c].stream = s, ![c].rid = Digits[started + 1]]
    BY DEF StartStream
  <1>3. PICK who, what, sent, part, read, owner, place, own :
            Held(t, who, what, sent, part, read, owner, place, own)
    BY DEF StreamInv, History
  <1>0. PICK n : n = started
    OBVIOUS
  <1> DEFINE who2 == [k \in 0..n |-> IF k = n THEN c ELSE who[k]]
             what2 == [k \in 0..n |-> IF k = n THEN s ELSE what[k]]
  <1>4. /\ started \in 0..MaxStreams /\ MaxStreams \in Nat /\ started \in Nat
        /\ sent \in Nat /\ part \in Nat
        /\ who \in [0..(started - 1) -> Clients] /\ what \in [0..(started - 1) -> Streams]
    BY <1>3, StreamAssumption DEF Held, Sender
  <1>5. sent = started /\ part = 0 /\ client = [b \in Clients |-> Rest(t)]
    <2>1. CASE sent + 1 = started /\ client[who[sent]].stream = what[sent]
      <3>1. sent \in 0..(started - 1) /\ what[sent] # <<>>
        BY <1>4, <2>1 DEF Streams
      <3>2. who[sent] \in Clients
        BY <1>4, <3>1
      <3> QED
        BY <1>1, <2>1, <3>1, <3>2 DEF Sending
    <2>2. CASE sent + 1 = started /\ client[who[sent]].stream # what[sent]
      <3>1. sent \in 0..(started - 1)
        BY <1>4, <2>2
      <3>2. who[sent] \in Clients
        BY <1>4, <3>1
      <3>3. \/ sent = started
            \/ client = [b \in Clients |->
                 IF b = who[sent]
                 THEN [stream |-> what[sent], sent |-> part, rid |-> Digits[sent + 1], task |-> t]
                 ELSE Rest(t)]
        BY <1>3 DEF Held, Sender
      <3> QED
        BY <1>4, <2>2, <3>2, <3>3
    <2>3. CASE sent + 1 # started
      BY <1>3, <1>4, <2>3 DEF Held, Sender
    <2> QED
      BY <2>1, <2>2, <2>3
  <1>6. /\ who2 \in [0..(started' - 1) -> Clients] /\ what2 \in [0..(started' - 1) -> Streams]
        /\ who2[started] = c /\ what2[started] = s
        /\ \A k \in 0..(started - 1) : who2[k] = who[k] /\ what2[k] = what[k]
    <2>1. 0..(started' - 1) = 0..n /\ n \in Nat
      BY <1>0, <1>1, <1>4
    <2>2. \A k \in 0..(n - 1) : k \in 0..n /\ k # n
      BY <2>1
    <2>3. \A k \in 0..n : k # n => k \in 0..(n - 1)
      BY <2>1
    <2>4. who2 \in [0..n -> Clients] /\ what2 \in [0..n -> Streams]
      BY <1>0, <1>4, <2>1, <2>3
    <2>5. n \in 0..n /\ who2[n] = c /\ what2[n] = s
      BY <2>1
    <2>6. \A k \in 0..(n - 1) : who2[k] = who[k] /\ what2[k] = what[k]
      BY <2>2
    <2> HIDE DEF who2, what2
    <2> QED
      BY <1>0, <2>1, <2>4, <2>5, <2>6
  <1> HIDE DEF who2, what2
  <1>7. Sender(t, who2, what2, sent, part)'
    <2>1. client' = [b \in Clients |->
                 IF b = who2[sent]
                 THEN [stream |-> what2[sent], sent |-> part, rid |-> Digits[sent + 1], task |-> t]
                 ELSE Rest(t)]
      <3>1. client[c] = [stream |-> <<>>, sent |-> 0, rid |-> "none", task |-> t]
        BY <1>5 DEF Rest
      <3>2. client'[c] = [stream |-> s, sent |-> 0, rid |-> Digits[started + 1], task |-> t]
        <4> DEFINE e == [client EXCEPT ![c].stream = s]
        <4>1. e[c] = [stream |-> s, sent |-> 0, rid |-> "none", task |-> t] /\ c \in DOMAIN e
          BY <1>5, <3>1
        <4>2. client' = [e EXCEPT ![c].rid = Digits[started + 1]]
          BY <1>2
        <4> HIDE DEF e
        <4>3. client'[c] = [e[c] EXCEPT !.rid = Digits[started + 1]]
          BY <4>1, <4>2
        <4> QED
          BY <4>1, <4>3
      <3>3. \A b \in Clients : b # c => client'[b] = Rest(t)
        BY <1>2, <1>5
      <3>4. client' = [b \in Clients |-> client'[b]]
        BY <1>2, <1>5
      <3> QED
        BY <1>5, <1>6, <3>2, <3>3, <3>4
    <2>2. Len(what2[sent]) > 0
      <3>1. Len(s) \in 1..MaxPieces
        BY StreamShape
      <3> QED
        BY <1>5, <1>6, <3>1, StreamAssumption
    <2>3. started' \in 0..MaxStreams /\ sent + 1 = started'
      BY <1>1, <1>4, <1>5
    <2> QED
      BY <1>4, <1>5, <1>6, <2>1, <2>2, <2>3 DEF Sender
  <1>8. ASSUME alive PROVE Queued(t, who2, what2, sent, part, read, owner, place)'
    <2>1. Queued(t, who, what, sent, part, read, owner, place)
      BY <1>3, <1>8 DEF Held
    <2>2. read \in 0..sent /\ owner \in Seq(Nat) /\ place \in Seq(Nat)
      BY <2>1 DEF Queued
    <2>3. ASSUME NEW i \in 1..Len(owner)
          PROVE  /\ owner[i] \in 0..(started - 1)
                 /\ IsSent(what2, sent, part, owner[i], place[i])
      <3>1. owner[i] \in Nat /\ place[i] \in Nat /\ IsSent(what, sent, part, owner[i], place[i])
        BY <2>1, <2>2 DEF Queued
      <3>2. owner[i] < sent /\ place[i] < Len(what[owner[i]])
        BY <1>5, <3>1 DEF IsSent
      <3>3. owner[i] \in 0..(started - 1)
        BY <1>4, <1>5, <3>1, <3>2
      <3> QED
        BY <1>6, <3>2, <3>3 DEF IsSent
    <2>4. ASSUME NEW i \in 1..Len(owner)
          PROVE  Message(who2, what2, owner[i], place[i]) = Message(who, what, owner[i], place[i])
      BY <1>6, <2>3 DEF Message
    <2>5. ASSUME NEW k \in read..(sent - 1)
          PROVE  \E i \in 1..Len(owner) : owner[i] = k /\ place[i] + 1 = Len(what2[k])
      <3>1. k \in 0..(started - 1)
        BY <1>4, <1>5, <2>2
      <3> QED
        BY <1>6, <2>1, <3>1 DEF Queued
    <2> QED
      BY <1>1, <2>1, <2>3, <2>4, <2>5 DEF Queued
  <1>9. ASSUME alive, NEW k \in Nat, NEW j \in Nat
        PROVE  IsSent(what2, sent, part, k, j) <=> IsSent(what, sent, part, k, j)
    <2>1. CASE k < sent
      <3>1. k \in 0..(started - 1)
        BY <1>4, <1>5, <2>1
      <3> QED
        BY <1>6, <3>1 DEF IsSent
    <2>2. CASE ~(k < sent)
      BY <2>2 DEF IsSent
    <2> QED
      BY <2>1, <2>2
  <1>10. ASSUME alive PROVE Buffered(what2, sent, part, read, owner, place)'
    <2>1. Buffered(what, sent, part, read, owner, place) /\ read \in Nat /\ read..sent \subseteq Nat
      BY <1>3, <1>4, <1>10 DEF Held, Queued
    <2>2. ASSUME NEW j \in DOMAIN stream_buff
          PROVE  IsSent(what2, sent, part, read, j) /\ stream_buff[j] = what2[read][j + 1]
      <3>1. j \in Nat /\ IsSent(what, sent, part, read, j) /\ stream_buff[j] = what[read][j + 1]
        BY <2>1 DEF Buffered
      <3>2. read < sent
        BY <1>5, <3>1 DEF IsSent
      <3>3. read \in 0..(started - 1)
        BY <1>4, <1>5, <2>1, <3>2
      <3> QED
        BY <1>6, <1>9, <1>10, <2>1, <3>1, <3>3
    <2>3. ASSUME ~lost, NEW k \in read..sent, NEW j \in Nat, IsSent(what2, sent, part, k, j)
          PROVE  \/ k = read /\ j \in DOMAIN stream_buff
                 \/ \E i \in 1..Len(owner) : owner[i] = k /\ place[i] = j
      <3>1. IsSent(what, sent, part, k, j)
        BY <1>9, <1>10, <2>1, <2>3
      <3> QED
        BY <2>1, <2>3, <3>1 DEF Buffered
    <2>4. DOMAIN stream_buff \subseteq Nat
      BY <2>1 DEF Buffered
    <2> QED
      BY <1>1, <2>2, <2>3, <2>4 DEF Buffered
  <1>11. ASSUME alive PROVE Inferring(t, who2, what2, read)'
    <2>1. Inferring(t, who, what, read) /\ read \in 0..sent
      BY <1>3, <1>11 DEF Held, Queued
    <2>2. read > 0 => read - 1 \in 0..(started - 1)
      BY <1>4, <1>5, <2>1
    <2>3. read > 0 => who2[read - 1] = who[read - 1] /\ what2[read - 1] = what[read - 1]
      BY <1>6, <2>2
    <2> QED
      BY <1>1, <2>1, <2>3 DEF Inferring
  <1>12. ASSUME alive, NEW b \in Clients
         PROVE  Asking(who2, what2, sent, read, own, b)' /\ Answering(t, who2, read, own, b)'
    <2>1. /\ Asking(who, what, sent, read, own, b) /\ Answering(t, who, read, own, b)
          /\ read \in 0..sent /\ own[b] \in Seq(Nat) /\ Inferring(t, who, what, read)
      BY <1>3, <1>12 DEF Held, Queued
    <2>2. ASSUME NEW i \in 1..Len(own[b]) PROVE own[b][i] \in 0..(started - 1)
      <3>1. own[b][i] \in Nat
        BY <2>1
      <3>2. own[b][i] < sent
        BY <2>1 DEF Asking
      <3> QED
        BY <1>4, <1>5, <3>1, <3>2
    <2>3. \A i \in 1..Len(own[b]) :
              who2[own[b][i]] = who[own[b][i]] /\ what2[own[b][i]] = what[own[b][i]]
      BY <1>6, <2>2
    <2>4. \A k \in read..(sent - 1) : k \in 0..(started - 1)
      BY <1>4, <1>5, <2>1
    <2>5. \A k \in read..(sent - 1) : who2[k] = who[k]
      BY <1>6, <2>4
    <2>6. Asking(who2, what2, sent, read, own, b)'
      BY <1>1, <2>1, <2>3, <2>5 DEF Asking
    <2>7. Mine(t, who2, read, b)' <=> Mine(t, who, read, b)
      <3>1. CASE out[t] = <<>>
        BY <1>1, <3>1 DEF Mine
      <3>2. CASE out[t] # <<>>
        <4>1. read - 1 \in 0..(started - 1)
          BY <1>4, <1>5, <2>1, <3>2 DEF Inferring
        <4> QED
          BY <1>1, <1>6, <4>1 DEF Mine
      <3> QED
        BY <3>1, <3>2
    <2>8. Old(b)' = Old(b)
      BY <1>1 DEF Old
    <2>9. Answering(t, who2, read, own, b)'
      BY <1>1, <2>1, <2>7, <2>8 DEF Answering
    <2> QED
      BY <2>6, <2>9
  <1>13. Held(t, who2, what2, sent, part, read, owner, place, own)'
    BY <1>1, <1>3, <1>7, <1>8, <1>10, <1>11, <1>12 DEF Held
  <1>14. History(t)'
    BY <1>13 DEF History
  <1>15. Typed(t)' /\ (alive \/ lost)' /\ (\A b \in Clients : Whole(b))'
    BY <1>1 DEF StreamInv, Typed, Whole
  <1> QED
    BY <1>14, <1>15 DEF StreamInv

(* What a step of the sending client does, in terms of the history.        *)
Sends(t, c, lose, who, what, sent, part) ==
    LET last == part + 1 = Len(what[sent])
    IN  /\ sent \in Nat /\ part \in Nat /\ sent \in 0..(started - 1) /\ sent + 1 = started
        /\ who[sent] = c /\ what[sent] \in Streams /\ part < Len(what[sent])
        /\ last => ~lose
        /\ queue' = IF lose THEN queue
                    ELSE [queue EXCEPT ![t] =
                              Append(queue[t], Scanned(Raw(Message(who, what, sent, part))))]
        /\ lost' = (lost \/ lose)
        /\ client' = [b \in Clients |->
               IF b = c /\ ~last
               THEN [stream |-> what[sent], sent |-> part + 1, rid |-> Digits[sent + 1],
                     task |-> t]
               ELSE Rest(t)]
        /\ asked' = IF last
                    THEN [asked EXCEPT ![c] =
                              Append(asked[c], [text |-> FlattenSeq(what[sent]),
                                                rid |-> Digits[sent + 1]])]
                    ELSE asked
        /\ UNCHANGED <<started, chan, out, stream_buff, count, alive, answer>>

LEMMA SendIs ==
    ASSUME NEW t, NEW c \in Clients, NEW lose \in BOOLEAN, SendPiece(c, lose), ~LoseFinish,
           ~AnyText, NEW who, NEW what, NEW sent, NEW part, Sender(t, who, what, sent, part)
    PROVE  Sends(t, c, lose, who, what, sent, part)
  <1> DEFINE s == client[c]
             last == part + 1 = Len(what[sent])
             x == Scanned(Raw(Message(who, what, sent, part)))
             a == [text |-> FlattenSeq(what[sent]), rid |-> Digits[sent + 1]]
  <1>1. Sending(c)
    BY DEF SendPiece
  <1>2. /\ sent + 1 = started /\ part < Len(what[sent])
        /\ client = [b \in Clients |->
               IF b = who[sent]
               THEN [stream |-> what[sent], sent |-> part, rid |-> Digits[sent + 1], task |-> t]
               ELSE Rest(t)]
    <2>1. ASSUME client = [b \in Clients |-> Rest(t)] PROVE FALSE
      BY <1>1, <2>1 DEF Sending, Rest
    <2> QED
      BY <2>1 DEF Sender
  <1>3. /\ sent \in Nat /\ part \in Nat /\ started \in Nat
        /\ who \in [0..(started - 1) -> Clients] /\ what \in [0..(started - 1) -> Streams]
    BY StreamAssumption DEF Sender
  <1>4. sent \in 0..(started - 1)
    BY <1>2, <1>3
  <1>5. what[sent] \in Streams
    BY <1>3, <1>4
  <1>6. who[sent] = c
    BY <1>1, <1>2 DEF Sending, Rest
  <1>7. s = [stream |-> what[sent], sent |-> part, rid |-> Digits[sent + 1], task |-> t]
    BY <1>2, <1>6
  <1>8. /\ s.stream = what[sent] /\ s.sent = part /\ s.rid = Digits[sent + 1] /\ s.task = t
    BY <1>7
  <1>9. [client |-> c, rid |-> s.rid, text |-> s.stream[s.sent + 1], index |-> s.sent,
         finish |-> s.sent + 1 = Len(s.stream)] = Message(who, what, sent, part)
    BY <1>6, <1>8 DEF Message
  <1>10. /\ lose => ~last
         /\ queue' = IF lose THEN queue ELSE [queue EXCEPT ![t] = Append(queue[t], x)]
         /\ lost' = (lost \/ lose)
         /\ client' = [client EXCEPT ![c] = IF last THEN Rest(t) ELSE [s EXCEPT !.sent = part + 1]]
         /\ asked' = IF last /\ ~lose
                     THEN [asked EXCEPT ![c] = Append(asked[c], a)]
                     ELSE asked
         /\ UNCHANGED <<started, chan, out, stream_buff, count, alive, answer>>
    <2> HIDE DEF s
    <2>1. /\ lose => ~(s.sent + 1 = Len(s.stream)) \/ LoseFinish
          /\ lost' = (lost \/ lose)
          /\ UNCHANGED <<started, chan, out, stream_buff, count, alive, answer>>
      BY DEF SendPiece, s
    <2>2. queue' = IF lose THEN queue
                   ELSE [queue EXCEPT ![s.task] = Append(queue[s.task],
                        Scanned(Raw([client |-> c, rid |-> s.rid, text |-> s.stream[s.sent + 1],
                                     index |-> s.sent, finish |-> s.sent + 1 = Len(s.stream)])))]
      BY DEF SendPiece, s
    <2>3. client' = [client EXCEPT ![c] =
                        IF s.sent + 1 = Len(s.stream) THEN Rest(s.task)
                        ELSE [s EXCEPT !.sent = s.sent + 1]]
      BY DEF SendPiece, s
    <2>4. asked' = IF s.sent + 1 = Len(s.stream) /\ ~lose
                   THEN [asked EXCEPT ![c] =
                             Append(asked[c], [text |-> FlattenSeq(s.stream), rid |-> s.rid])]
                   ELSE asked
      BY DEF SendPiece, s
    <2> QED
      BY <1>8, <1>9, <2>1, <2>2, <2>3, <2>4
  <1> HIDE DEF x, a
  <1>11. client' = [b \in Clients |->
             IF b = c /\ ~last
             THEN [stream |-> what[sent], sent |-> part + 1, rid |-> Digits[sent + 1], task |-> t]
             ELSE Rest(t)]
    <2>1. [s EXCEPT !.sent = part + 1] =
              [stream |-> what[sent], sent |-> part + 1, rid |-> Digits[sent + 1], task |-> t]
      BY <1>7
    <2> DEFINE e == [s EXCEPT !.sent = part + 1]
    <2>2. client' = [client EXCEPT ![c] = IF last THEN Rest(t) ELSE e]
      BY <1>10
    <2> HIDE DEF e, s, last
    <2>3. client' = [b \in Clients |-> IF b = c THEN (IF last THEN Rest(t) ELSE e) ELSE client[b]]
      BY <1>2, <2>2
    <2>4. \A b \in Clients : b # c => client[b] = Rest(t)
      BY <1>2, <1>6
    <2>5. client' = [b \in Clients |-> IF b = c /\ ~last THEN e ELSE Rest(t)]
      BY <2>3, <2>4
    <2> QED
      BY <2>1, <2>5 DEF e
  <1> HIDE DEF last, s
  <1>12. /\ sent \in Nat /\ part \in Nat /\ sent \in 0..(started - 1) /\ sent + 1 = started
         /\ who[sent] = c /\ what[sent] \in Streams /\ part < Len(what[sent])
    BY <1>2, <1>3, <1>4, <1>5, <1>6
  <1> QED
    BY <1>10, <1>11, <1>12 DEF last, x, a, Sends

(* The next piece: it comes last in the queue, unless it is lost.          *)
LEMMA SendKeeps ==
    ASSUME NEW t, Tasks = {t}, ~AnyText, ~LoseFinish, StreamInv(t),
           NEW c \in Clients, NEW lose \in BOOLEAN, SendPiece(c, lose)
    PROVE  StreamInv(t)'
  <1>1. PICK who, what, sent, part, read, owner, place, own :
            Held(t, who, what, sent, part, read, owner, place, own)
    BY DEF StreamInv, History
  <1> DEFINE last == part + 1 = Len(what[sent])
             x == Scanned(Raw(Message(who, what, sent, part)))
             a == [text |-> FlattenSeq(what[sent]), rid |-> Digits[sent + 1]]
             sent2 == IF last THEN sent + 1 ELSE sent
             part2 == IF last THEN 0 ELSE part + 1
             owner2 == IF lose THEN owner ELSE Append(owner, sent)
             place2 == IF lose THEN place ELSE Append(place, part)
             own2 == IF last THEN [own EXCEPT ![c] = Append(own[c], sent)] ELSE own
  <1>2. Sender(t, who, what, sent, part)
    BY <1>1 DEF Held
  <1>3. /\ started \in 0..MaxStreams /\ started \in Nat
        /\ who \in [0..(started - 1) -> Clients] /\ what \in [0..(started - 1) -> Streams]
    BY <1>2, StreamAssumption DEF Sender
  <1>4. /\ sent \in Nat /\ part \in Nat /\ sent \in 0..(started - 1) /\ sent + 1 = started
        /\ who[sent] = c /\ what[sent] \in Streams /\ part < Len(what[sent])
        /\ last => ~lose
        /\ queue' = IF lose THEN queue ELSE [queue EXCEPT ![t] = Append(queue[t], x)]
        /\ lost' = (lost \/ lose)
        /\ client' = [b \in Clients |->
               IF b = c /\ ~last
               THEN [stream |-> what[sent], sent |-> part + 1, rid |-> Digits[sent + 1],
                     task |-> t]
               ELSE Rest(t)]
        /\ asked' = IF last THEN [asked EXCEPT ![c] = Append(asked[c], a)] ELSE asked
        /\ UNCHANGED <<started, chan, out, stream_buff, count, alive, answer>>
    <2>1. Sends(t, c, lose, who, what, sent, part)
      BY <1>2, SendIs
    <2> QED
      BY <2>1 DEF Sends
  <1>5. Len(what[sent]) \in Nat
    BY <1>4, StreamShape, StreamAssumption
  <1>6. x \in Posts /\ a \in Asks
    <2>1. Message(who, what, sent, part) \in Messages
      BY <1>3, <1>4, MessageIs
    <2>2. Digits[sent + 1] \in Numerals
      BY <1>3, <1>4, Numbers, StreamAssumption
    <2> QED
      BY <1>4, <2>1, <2>2 DEF Posts, Asks, Contents
  <1> HIDE DEF x, a
  <1>7. Sender(t, who, what, sent2, part2)'
    <2>1. CASE last
      <3>1. client' = [b \in Clients |-> Rest(t)]
        BY <1>4, <2>1
      <3>2. sent2 = started /\ part2 = 0 /\ sent2 \in Nat /\ part2 \in Nat
        BY <1>4, <2>1
      <3> HIDE DEF sent2, part2
      <3> QED
        BY <1>3, <1>4, <3>1, <3>2 DEF Sender
    <2>2. CASE ~last
      <3>1. client' = [b \in Clients |->
                IF b = who[sent]
                THEN [stream |-> what[sent], sent |-> part + 1, rid |-> Digits[sent + 1],
                      task |-> t]
                ELSE Rest(t)]
        BY <1>4, <2>2
      <3>2. sent2 = sent /\ part2 = part + 1 /\ part + 1 \in Nat /\ part + 1 < Len(what[sent])
        BY <1>4, <1>5, <2>2
      <3> HIDE DEF sent2, part2
      <3> QED
        BY <1>3, <1>4, <3>1, <3>2 DEF Sender
    <2> QED
      BY <2>1, <2>2
  <1>8. /\ sent2 \in {sent, sent + 1} /\ part2 \in Nat /\ (sent2 = sent + 1) = last
        /\ \A k, j \in Nat : IsSent(what, sent2, part2, k, j) <=>
               IsSent(what, sent, part, k, j) \/ (k = sent /\ j = part)
    <2>1. CASE last
      <3>1. sent2 = sent + 1 /\ part2 = 0
        BY <2>1
      <3> HIDE DEF sent2, part2
      <3>2. ASSUME NEW k \in Nat, NEW j \in Nat
            PROVE  IsSent(what, sent2, part2, k, j) <=>
                       IsSent(what, sent, part, k, j) \/ (k = sent /\ j = part)
        <4>1. CASE k = sent
          BY <1>4, <1>5, <2>1, <3>1, <4>1 DEF IsSent
        <4>2. CASE k # sent
          BY <1>4, <3>1, <4>2 DEF IsSent
        <4> QED
          BY <4>1, <4>2
      <3>3. last = TRUE /\ (sent2 = sent + 1) = TRUE
        BY <2>1, <3>1
      <3> QED
        BY <3>1, <3>2, <3>3
    <2>2. CASE ~last
      <3>1. sent2 = sent /\ part2 = part + 1 /\ part2 \in Nat /\ sent2 # sent + 1
        BY <1>4, <2>2
      <3> HIDE DEF sent2, part2
      <3>2. ASSUME NEW k \in Nat, NEW j \in Nat
            PROVE  IsSent(what, sent2, part2, k, j) <=>
                       IsSent(what, sent, part, k, j) \/ (k = sent /\ j = part)
        BY <1>4, <3>1 DEF IsSent
      <3>3. last = FALSE /\ (sent2 = sent + 1) = FALSE
        BY <2>2, <3>1
      <3> QED
        BY <3>1, <3>2, <3>3
    <2> QED
      BY <2>1, <2>2
  <1> HIDE DEF sent2, part2
  <1>9. DOMAIN queue = {t} /\ queue[t] \in Seq(Posts)
    BY DEF StreamInv, Typed
  <1>10. /\ lose => queue' = queue
         /\ ~lose => /\ queue'[t] \in Seq(Posts) /\ Len(queue'[t]) = Len(queue[t]) + 1
                     /\ \A i \in 1..Len(queue[t]) : queue'[t][i] = queue[t][i]
                     /\ queue'[t][Len(queue[t]) + 1] = x
    <2>1. ~lose => queue'[t] = Append(queue[t], x)
      BY <1>4, <1>9
    <2> QED
      BY <1>4, <1>6, <1>9, <2>1, AppendProperties
  <1>11. ASSUME alive
         PROVE  Queued(t, who, what, sent2, part2, read, owner2, place2)'
    <2>1. Queued(t, who, what, sent, part, read, owner, place)
      BY <1>1, <1>11 DEF Held
    <2>2. /\ read \in 0..sent /\ owner \in Seq(Nat) /\ place \in Seq(Nat)
          /\ Len(place) = Len(owner) /\ Len(queue[t]) = Len(owner)
      BY <2>1 DEF Queued
    <2>3. read \in 0..sent2
      BY <1>4, <1>8, <2>2
    <2>4. CASE lose
      <3>1. owner2 = owner /\ place2 = place /\ ~last /\ sent2 = sent /\ queue' = queue
        BY <1>4, <1>8, <1>10, <2>4
      <3>2. ASSUME NEW i \in 1..Len(owner)
            PROVE  IsSent(what, sent2, part2, owner[i], place[i])
        <4>1. owner[i] \in Nat /\ place[i] \in Nat /\ IsSent(what, sent, part, owner[i], place[i])
          BY <2>1, <2>2 DEF Queued
        <4> QED
          BY <1>8, <4>1
      <3> HIDE DEF owner2, place2, last
      <3>3. /\ \A i \in 1..Len(owner) :
                   /\ read <= owner[i]
                   /\ queue[t][i] = Scanned(Raw(Message(who, what, owner[i], place[i])))
            /\ \A i, l \in 1..Len(owner) :
                   i < l => owner[i] < owner[l] \/ (owner[i] = owner[l] /\ place[i] < place[l])
            /\ \A k \in read..(sent - 1) : \E i \in 1..Len(owner) :
                   owner[i] = k /\ place[i] + 1 = Len(what[k])
        BY <2>1 DEF Queued
      <3>4. Queued(t, who, what, sent, part2, read, owner, place)'
        BY <2>2, <3>1, <3>2, <3>3 DEF Queued
      <3> QED
        BY <3>1, <3>4
    <2>5. CASE ~lose
      <3> DEFINE n == Len(owner)
      <3>1. /\ owner2 \in Seq(Nat) /\ place2 \in Seq(Nat) /\ Len(owner2) = n + 1
            /\ Len(place2) = n + 1 /\ n \in Nat
            /\ \A i \in 1..n : owner2[i] = owner[i] /\ place2[i] = place[i]
            /\ owner2[n + 1] = sent /\ place2[n + 1] = part
        BY <1>4, <2>2, <2>5, AppendProperties
      <3> HIDE DEF owner2, place2
      <3>2. ASSUME NEW i \in 1..n
            PROVE  /\ owner[i] \in Nat /\ place[i] \in Nat /\ read <= owner[i]
                   /\ IsSent(what, sent, part, owner[i], place[i])
                   /\ queue[t][i] = Scanned(Raw(Message(who, what, owner[i], place[i])))
        BY <2>1, <2>2 DEF Queued
      <3>3. ASSUME NEW i \in 1..(n + 1)
            PROVE  /\ read <= owner2[i] /\ IsSent(what, sent2, part2, owner2[i], place2[i])
                   /\ queue'[t][i] = Scanned(Raw(Message(who, what, owner2[i], place2[i])))
        <4>1. CASE i = n + 1
          <5>1. IsSent(what, sent2, part2, sent, part)
            BY <1>4, <1>8
          <5>2. queue'[t][n + 1] = x
            BY <1>10, <2>2, <2>5
          <5>3. read <= sent
            BY <1>4, <2>2
          <5> QED
            BY <3>1, <4>1, <5>1, <5>2, <5>3 DEF x
        <4>2. CASE i # n + 1
          <5>1. i \in 1..n
            BY <3>1, <4>2
          <5>2. IsSent(what, sent2, part2, owner[i], place[i])
            BY <1>8, <3>2, <5>1
          <5>3. queue'[t][i] = queue[t][i]
            BY <1>10, <2>2, <2>5, <5>1
          <5> QED
            BY <3>1, <3>2, <5>1, <5>2, <5>3
        <4> QED
          BY <4>1, <4>2
      <3>4. ASSUME NEW i \in 1..(n + 1), NEW l \in 1..(n + 1), i < l
            PROVE  owner2[i] < owner2[l] \/ (owner2[i] = owner2[l] /\ place2[i] < place2[l])
        <4>0. i \in 1..n
          BY <3>1, <3>4
        <4>1. i \in 1..n /\ owner2[i] = owner[i] /\ place2[i] = place[i]
          BY <3>1, <4>0
        <4>2. CASE l = n + 1
          <5>1. owner[i] < sent \/ (owner[i] = sent /\ place[i] < part)
            BY <3>2, <4>1 DEF IsSent
          <5> QED
            BY <3>1, <4>1, <4>2, <5>1
        <4>3. CASE l # n + 1
          <5>0. l \in 1..n
            BY <3>1, <4>3
          <5>1. l \in 1..n /\ owner2[l] = owner[l] /\ place2[l] = place[l]
            BY <3>1, <5>0
          <5> QED
            BY <2>1, <3>4, <4>1, <5>1 DEF Queued
        <4> QED
          BY <4>2, <4>3
      <3>5. ASSUME NEW k \in read..(sent2 - 1)
            PROVE  \E i \in 1..(n + 1) : owner2[i] = k /\ place2[i] + 1 = Len(what[k])
        <4>1. CASE k \in read..(sent - 1)
          <5>1. PICK i \in 1..n : owner[i] = k /\ place[i] + 1 = Len(what[k])
            BY <2>1, <4>1 DEF Queued
          <5>2. i \in 1..(n + 1) /\ owner2[i] = k /\ place2[i] + 1 = Len(what[k])
            BY <3>1, <5>1
          <5> QED
            BY <5>2
        <4>2. CASE k \notin read..(sent - 1)
          <5>1. k = sent /\ sent2 = sent + 1
            BY <1>4, <1>8, <2>2, <4>2
          <5>2. part + 1 = Len(what[sent])
            BY <1>8, <5>1
          <5>3. n + 1 \in 1..(n + 1) /\ owner2[n + 1] = k /\ place2[n + 1] + 1 = Len(what[k])
            BY <3>1, <5>1, <5>2
          <5> QED
            BY <5>3
        <4> QED
          BY <4>1, <4>2
      <3>6. Len(queue'[t]) = n + 1
        BY <1>10, <2>2, <2>5
      <3> HIDE DEF n
      <3> QED
        BY <2>3, <3>1, <3>3, <3>4, <3>5, <3>6 DEF Queued
    <2> QED
      BY <2>4, <2>5
  <1>12. ASSUME alive PROVE Buffered(what, sent2, part2, read, owner2, place2)'
    <2>1. /\ Buffered(what, sent, part, read, owner, place)
          /\ read \in 0..sent /\ owner \in Seq(Nat) /\ place \in Seq(Nat)
          /\ Len(place) = Len(owner)
      BY <1>1, <1>12 DEF Held, Queued
    <2>2. ASSUME NEW j \in DOMAIN stream_buff
          PROVE  /\ j \in Nat /\ IsSent(what, sent2, part2, read, j)
                 /\ stream_buff[j] = what[read][j + 1]
      <3>1. j \in Nat /\ IsSent(what, sent, part, read, j) /\ stream_buff[j] = what[read][j + 1]
        BY <2>1 DEF Buffered
      <3>2. read \in Nat
        BY <1>4, <2>1
      <3> QED
        BY <1>8, <3>1, <3>2
    <2>3. ASSUME ~lost', NEW k \in read..sent2, NEW j \in Nat,
                 IsSent(what, sent2, part2, k, j)
          PROVE  \/ k = read /\ j \in DOMAIN stream_buff
                 \/ \E i \in 1..Len(owner2) : owner2[i] = k /\ place2[i] = j
      <3>1. ~lost /\ ~lose
        BY <1>4, <2>3
      <3> DEFINE n == Len(owner)
      <3>2. /\ Len(owner2) = n + 1 /\ n \in Nat
            /\ \A i \in 1..n : owner2[i] = owner[i] /\ place2[i] = place[i]
            /\ owner2[n + 1] = sent /\ place2[n + 1] = part
        BY <1>4, <2>1, <3>1, AppendProperties
      <3> HIDE DEF owner2, place2, n
      <3>3. k \in Nat
        BY <1>4, <1>8, <2>1
      <3>4. CASE k = sent /\ j = part
        <4>1. n + 1 \in 1..Len(owner2)
          BY <3>2
        <4> QED
          BY <3>2, <3>4, <4>1
      <3>5. CASE ~(k = sent /\ j = part)
        <4>1. IsSent(what, sent, part, k, j)
          BY <1>8, <2>3, <3>3, <3>5
        <4>2. k \in read..sent
          BY <1>4, <2>1, <3>3, <4>1 DEF IsSent
        <4>3. \/ k = read /\ j \in DOMAIN stream_buff
              \/ \E i \in 1..Len(owner) : owner[i] = k /\ place[i] = j
          BY <2>1, <3>1, <4>1, <4>2 DEF Buffered
        <4>4. \A i \in 1..Len(owner) : i \in 1..Len(owner2) /\ i \in 1..n
          BY <3>2 DEF n
        <4> QED
          BY <3>2, <4>3, <4>4
      <3> QED
        BY <3>4, <3>5
    <2>4. stream_buff' = stream_buff
      BY <1>4
    <2> HIDE DEF owner2, place2
    <2> QED
      BY <2>2, <2>3, <2>4 DEF Buffered
  <1>13. ASSUME alive PROVE Inferring(t, who, what, read)'
    BY <1>1, <1>4, <1>13 DEF Held, Inferring
  <1>14. ASSUME alive PROVE own2 \in [Clients -> Seq(Nat)]
    <2>1. own \in [Clients -> Seq(Nat)]
      BY <1>1, <1>14 DEF Held
    <2> QED
      BY <1>4, <2>1
  <1>15. asked \in [Clients -> Seq(Asks)] /\ answer \in [Clients -> Seq(Replies)]
    BY DEF StreamInv, Typed
  <1>16. ASSUME NEW b \in Clients, b # c \/ ~last PROVE asked'[b] = asked[b]
    BY <1>4, <1>15, <1>16
  <1>17. last => asked'[c] = Append(asked[c], a)
    BY <1>4, <1>15
  <1>18. ASSUME alive, NEW b \in Clients
         PROVE  Asking(who, what, sent2, read, own2, b)' /\ Answering(t, who, read, own2, b)'
    <2>1. /\ Asking(who, what, sent, read, own, b) /\ Answering(t, who, read, own, b)
          /\ read \in 0..sent /\ own \in [Clients -> Seq(Nat)] /\ Inferring(t, who, what, read)
          /\ own[b] \in Seq(Nat)
      BY <1>1, <1>18 DEF Held, Queued
    <2>2. (Mine(t, who, read, b)' <=> Mine(t, who, read, b)) /\ Old(b)' = Old(b)
      BY <1>4 DEF Mine, Old
    <2>3. answer' = answer /\ count' = count
      BY <1>4
    <2>4. CASE b # c \/ ~last
      <3>1. own2[b] = own[b] /\ asked'[b] = asked[b]
        BY <1>16, <2>1, <2>4
      <3> HIDE DEF own2
      <3>2. ASSUME NEW k \in read..(sent2 - 1), who[k] = b PROVE k \in read..(sent - 1)
        BY <1>4, <1>8, <2>1, <2>4, <3>2
      <3>3. ASSUME NEW i \in 1..Len(own[b]) PROVE own[b][i] < sent2
        <4>2. own[b][i] \in Nat
          BY <2>1
        <4>1. own[b][i] \in Nat /\ own[b][i] < sent
          BY <2>1, <4>2 DEF Asking
        <4> QED
          BY <1>4, <1>8, <4>1
      <3>4. Asking(who, what, sent2, read, own2, b)'
        BY <2>1, <3>1, <3>2, <3>3 DEF Asking
      <3>5. Answering(t, who, read, own2, b)'
        BY <2>1, <2>2, <2>3, <3>1 DEF Answering
      <3> QED
        BY <3>4, <3>5
    <2>5. CASE b = c /\ last
      <3> DEFINE n == Len(own[c])
      <3>1. /\ own2[c] = Append(own[c], sent) /\ asked'[c] = Append(asked[c], a)
            /\ asked[c] \in Seq(Asks) /\ own[c] \in Seq(Nat) /\ sent2 = sent + 1
            /\ Len(asked[c]) = n /\ n \in Nat
        BY <1>8, <1>15, <1>17, <2>1, <2>5 DEF Asking
      <3>2. /\ own2[c] \in Seq(Nat) /\ Len(own2[c]) = n + 1 /\ own2[c] # <<>>
            /\ \A i \in 1..n : own2[c][i] = own[c][i]
            /\ own2[c][n + 1] = sent
        <4> DEFINE o == own[c]
                   o2 == own2[c]
        <4>1. o \in Seq(Nat) /\ sent \in Nat /\ o2 = Append(o, sent)
          BY <1>4, <3>1
        <4> HIDE DEF o, o2
        <4>2. /\ o2 \in Seq(Nat) /\ Len(o2) = Len(o) + 1 /\ o2 # <<>>
              /\ \A i \in 1..Len(o) : o2[i] = o[i]
              /\ o2[Len(o) + 1] = sent
          BY <4>1, AppendProperties
        <4> QED
          BY <4>2 DEF o, o2
      <3>3. /\ Len(asked'[c]) = n + 1 /\ asked'[c][n + 1] = a
            /\ \A i \in 1..n : asked'[c][i] = asked[c][i]
        BY <1>6, <3>1, AppendProperties
      <3> HIDE DEF own2
      <3>4. ASSUME NEW i \in 1..n
            PROVE  /\ own[c][i] \in Nat /\ own[c][i] < sent /\ who[own[c][i]] = c
                   /\ asked[c][i] = [text |-> FlattenSeq(what[own[c][i]]),
                                     rid |-> Digits[own[c][i] + 1]]
        <4>1. Asking(who, what, sent, read, own, c)
          BY <2>1, <2>5
        <4>2. own[c][i] \in Nat
          BY <3>1
        <4> QED
          BY <4>1, <4>2 DEF Asking
      <3>5. ASSUME NEW i \in 1..(n + 1)
            PROVE  /\ own2[c][i] < sent2 /\ who[own2[c][i]] = c
                   /\ asked'[c][i] = [text |-> FlattenSeq(what[own2[c][i]]),
                                      rid |-> Digits[own2[c][i] + 1]]
        <4>1. CASE i = n + 1
          BY <1>4, <3>1, <3>2, <3>3, <4>1 DEF a
        <4>2. CASE i # n + 1
          <5>1. i \in 1..n
            BY <3>1, <4>2
          <5>3. own[c][i] \in Nat /\ own[c][i] < sent /\ sent \in Nat /\ sent2 = sent + 1
            BY <1>4, <3>1, <3>4, <5>1
          <5>2. own[c][i] < sent2
            BY <5>3
          <5> QED
            BY <3>2, <3>3, <3>4, <5>1, <5>2
        <4> QED
          BY <4>1, <4>2
      <3>6. ASSUME NEW i \in 1..(n + 1), NEW l \in 1..(n + 1), i < l
            PROVE  own2[c][i] < own2[c][l]
        <4>1. i \in 1..n
          BY <3>1, <3>6
        <4>2. CASE l = n + 1
          BY <3>2, <3>4, <4>1, <4>2
        <4>3. CASE l # n + 1
          <5>1. l \in 1..n
            BY <3>1, <4>3
          <5>2. own[c][i] < own[c][l]
            BY <2>1, <2>5, <3>6, <4>1, <5>1 DEF Asking
          <5> QED
            BY <3>2, <4>1, <5>1, <5>2
        <4> QED
          BY <4>2, <4>3
      <3>7. ASSUME NEW k \in read..(sent2 - 1), who[k] = c
            PROVE  \E i \in 1..(n + 1) : own2[c][i] = k
        <4>1. CASE k = sent
          <5>1. n + 1 \in 1..(n + 1)
            BY <3>1
          <5> QED
            BY <3>2, <4>1, <5>1
        <4>2. CASE k # sent
          <5>1. k \in read..(sent - 1)
            BY <1>4, <2>1, <3>1, <4>2
          <5>2. PICK i \in 1..n : own[c][i] = k
            BY <2>1, <2>5, <3>7, <5>1 DEF Asking
          <5>3. i \in 1..(n + 1)
            BY <3>1
          <5> QED
            BY <3>2, <5>2, <5>3
        <4> QED
          BY <4>1, <4>2
      <3>8. Asking(who, what, sent2, read, own2, c)'
        BY <3>2, <3>3, <3>5, <3>6, <3>7 DEF Asking
      <3>9. ASSUME own[c] # <<>> PROVE 1 \in 1..n /\ own2[c][1] = own[c][1]
        <4>1. n # 0
          BY <3>1, <3>9
        <4> QED
          BY <3>1, <3>2, <4>1
      <3>10. answer[c] # <<>> => own2[c] # <<>> /\ own2[c][1] < read
        BY <2>1, <2>5, <3>2, <3>9 DEF Answering
      <3>11. Old(c) \in {0, 1}
        BY DEF Old
      <3>12. ASSUME Mine(t, who, read, c), count = 0
             PROVE  Old(c) + 1 <= Len(own2[c]) /\ own2[c][Old(c) + 1] = read - 1
        <4>1. Old(c) + 1 <= n /\ own[c][Old(c) + 1] = read - 1
          BY <2>1, <2>5, <3>12 DEF Answering
        <4>2. Old(c) + 1 \in 1..n
          BY <3>1, <3>11, <4>1
        <4> QED
          BY <3>1, <3>2, <4>1, <4>2
      <3>13. ASSUME Mine(t, who, read, c), count # 0
             PROVE  Len(answer[c]) = count /\ own2[c][1] = read - 1
        <4>1. Len(answer[c]) = count /\ own[c][1] = read - 1
          BY <2>1, <2>5, <3>13 DEF Answering
        <4>2. answer[c] # <<>>
          BY <3>13, <4>1
        <4>3. own[c] # <<>>
          BY <2>1, <2>5, <4>2 DEF Answering
        <4> QED
          BY <3>9, <4>1, <4>3
      <3>14. ~(Mine(t, who, read, c) /\ count # 0) => Len(answer[c]) \in {0, 3}
        BY <2>1, <2>5 DEF Answering
      <3>15. ASSUME ~(Mine(t, who, read, c) /\ count = 0), NEW i \in 1..(n + 1), i > Old(c)
             PROVE  own2[c][i] >= read
        <4>1. CASE i = n + 1
          BY <1>4, <2>1, <3>2, <4>1
        <4>2. CASE i # n + 1
          <5>1. i \in 1..n
            BY <3>1, <4>2
          <5>2. own[c][i] >= read
            BY <2>1, <2>5, <3>15, <5>1 DEF Answering
          <5> QED
            BY <3>2, <5>1, <5>2
        <4> QED
          BY <4>1, <4>2
      <3>16. Mine(t, who, read, c)' <=> Mine(t, who, read, c)
        BY <2>2, <2>5
      <3>17. Old(c)' = Old(c)
        BY <2>2, <2>5
      <3> HIDE DEF n
      <3>18. Answering(t, who, read, own2, c)'
        BY <2>3, <3>2, <3>10, <3>12, <3>13, <3>14, <3>15, <3>16, <3>17 DEF Answering
      <3> QED
        BY <2>5, <3>8, <3>18
    <2> QED
      BY <2>4, <2>5
  <1>19. Typed(t)'
    <2>1. asked' \in [Clients -> Seq(Asks)]
      BY <1>4, <1>6, <1>15
    <2>2. lost' \in BOOLEAN
      BY <1>4
    <2>3. DOMAIN queue' = {t} /\ queue'[t] \in Seq(Posts)
      BY <1>4, <1>9, <1>10
    <2> QED
      BY <1>4, <2>1, <2>2, <2>3 DEF StreamInv, Typed
  <1>20. (alive \/ lost)'
    BY <1>4 DEF StreamInv
  <1>21. ASSUME NEW b \in Clients PROVE Whole(b)'
    <2>1. Whole(b) /\ answer' = answer
      BY <1>4 DEF StreamInv
    <2>2. asked[b] # <<>> => asked'[b] # <<>> /\ asked'[b][1] = asked[b][1]
      <3>1. CASE b # c \/ ~last
        BY <1>16, <3>1
      <3>2. CASE b = c /\ last
        <4>1. asked[c] \in Seq(Asks)
          BY <1>15
        <4>2. asked[c] # <<>> => 1 \in 1..Len(asked[c])
          BY <4>1
        <4> QED
          BY <1>6, <1>17, <3>2, <4>1, <4>2, AppendProperties
      <3> QED
        BY <3>1, <3>2
    <2> QED
      BY <2>1, <2>2 DEF Whole
  <1>22. History(t)'
    <2> HIDE DEF owner2, place2, own2
    <2>1. alive' = alive
      BY <1>4
    <2>2. Held(t, who, what, sent2, part2, read, owner2, place2, own2)'
      BY <1>7, <1>11, <1>12, <1>13, <1>14, <1>18, <2>1 DEF Held
    <2> QED
      BY <2>2 DEF History
  <1> QED
    BY <1>19, <1>20, <1>21, <1>22 DEF StreamInv

(* What a task does with a message whose text is clean.                    *)
Reads(t, m, decoded) ==
    /\ decoded = IF m.finish THEN PutTogether(Stored(m.index, m.text))
                 ELSE [res |-> "more", buff |-> Stored(m.index, m.text), text |-> <<>>]
    /\ queue' = [queue EXCEPT ![t] = Tail(queue[t])]
    /\ chan' = [chan EXCEPT ![t] = [zmq_com |-> <<m.client>>, request_id |-> <<m.rid>>]]
    /\ stream_buff' = decoded.buff
    /\ alive' = (decoded.res # "throw")
    /\ out' = IF decoded.res = "text"
              THEN [out EXCEPT ![t] = inference(decoded.text)]
              ELSE out
    /\ UNCHANGED <<client, started, count, asked, answer, lost>>

LEMMA ReadIs ==
    ASSUME NEW t, TaskUserData(t), NEW m \in Messages, Head(queue[t]) = Scanned(Raw(m))
    PROVE  Reads(t, m, decode_stream(Head(queue[t])))
  <1> DEFINE in == Head(queue[t])
             decoded == decode_stream(in)
  <1>1. /\ in.zmq_com = <<m.client>> /\ in.request_id = <<m.rid>> /\ in.object = <<"stream">>
        /\ in.data # <<>> /\ in.index = <<Digits[m.index + 1]>>
        /\ in.finish = <<Flag(m.finish)>> /\ in.delta = m.text
    BY ReadsBack
  <1>2. decoded = IF m.finish THEN PutTogether(Stored(m.index, m.text))
                  ELSE [res |-> "more", buff |-> Stored(m.index, m.text), text |-> <<>>]
    <2> HIDE DEF in
    <2> QED
      BY <1>1, Decoded
  <1>3. /\ queue' = [queue EXCEPT ![t] = Tail(queue[t])]
        /\ SetChannel(t, in)
        /\ IF in.data = <<>>
           THEN alive' = FALSE /\ UNCHANGED <<stream_buff, out>>
           ELSE IF in.object # <<"stream">>
           THEN out' = [out EXCEPT ![t] = inference(in.data)] /\ UNCHANGED <<alive, stream_buff>>
           ELSE /\ stream_buff' = decoded.buff
                /\ alive' = (decoded.res # "throw")
                /\ out' = IF decoded.res = "text"
                          THEN [out EXCEPT ![t] = inference(decoded.text)]
                          ELSE out
        /\ UNCHANGED <<client, started, count, asked, answer, lost>>
    BY DEF TaskUserData
  <1> HIDE DEF in, decoded
  <1>4. chan' = [chan EXCEPT ![t] = [zmq_com |-> <<m.client>>, request_id |-> <<m.rid>>]]
    <2>1. <<m.client>> # <<>>
      OBVIOUS
    <2> QED
      BY <1>1, <1>3, <2>1 DEF SetChannel
  <1>5. Reads(t, m, decoded)
    BY <1>1, <1>2, <1>3, <1>4 DEF Reads
  <1> QED
    BY <1>5 DEF decoded, in

(* The next message is one of the stream that is put together next, and it *)
(* is the last one of it only if that stream was sent to the end.          *)
LEMMA NextMessage ==
    ASSUME NEW t, ~AnyText, Typed(t), queue[t] # <<>>,
           NEW who, NEW what, NEW sent, NEW part, NEW read, NEW owner, NEW place,
           Sender(t, who, what, sent, part),
           Queued(t, who, what, sent, part, read, owner, place)
    PROVE  /\ 1 \in 1..Len(owner) /\ owner[1] = read /\ place[1] \in Nat
           /\ read \in 0..(started - 1) /\ place[1] < Len(what[read])
           /\ IsSent(what, sent, part, read, place[1])
           /\ Message(who, what, read, place[1]) \in Messages
           /\ Head(queue[t]) = Scanned(Raw(Message(who, what, read, place[1])))
           /\ place[1] + 1 = Len(what[read]) => read < sent
  <1>1. /\ read \in 0..sent /\ owner \in Seq(Nat) /\ place \in Seq(Nat)
        /\ Len(place) = Len(owner) /\ Len(queue[t]) = Len(owner)
    BY DEF Queued
  <1>2. queue[t] \in Seq(Posts)
    BY DEF Typed
  <1>3. 1 \in 1..Len(owner) /\ Head(queue[t]) = queue[t][1]
    BY <1>1, <1>2
  <1>4. /\ owner[1] \in Nat /\ place[1] \in Nat /\ read <= owner[1]
        /\ IsSent(what, sent, part, owner[1], place[1])
        /\ queue[t][1] = Scanned(Raw(Message(who, what, owner[1], place[1])))
    BY <1>1, <1>3 DEF Queued
  <1>5. /\ sent \in Nat /\ part \in Nat /\ started \in 0..MaxStreams /\ started \in Nat
        /\ who \in [0..(started - 1) -> Clients] /\ what \in [0..(started - 1) -> Streams]
        /\ (sent = started /\ part = 0) \/ (sent + 1 = started /\ part < Len(what[sent]))
    BY StreamAssumption DEF Sender
  <1>6. owner[1] <= sent
    BY <1>4, <1>5 DEF IsSent
  <1>7. owner[1] = read
    <2> SUFFICES ASSUME read < owner[1] PROVE FALSE
      BY <1>1, <1>4, <1>5
    <2>1. read \in read..(sent - 1)
      BY <1>1, <1>4, <1>5, <1>6
    <2>2. PICK i \in 1..Len(owner) : owner[i] = read
      BY <2>1 DEF Queued
    <2>3. 1 < i
      BY <1>1, <1>4, <2>2
    <2>4. owner[1] < owner[i] \/ owner[1] = owner[i]
      BY <1>3, <2>3 DEF Queued
    <2> QED
      BY <1>1, <1>4, <1>5, <2>2, <2>4
  <1>8. read \in Nat /\ read \in 0..(started - 1)
    <2>1. CASE read < sent
      BY <1>1, <1>5, <2>1
    <2>2. CASE read = sent
      <3>1. part # 0
        BY <1>4, <1>5, <1>7, <2>2 DEF IsSent
      <3> QED
        BY <1>1, <1>5, <2>2, <3>1
    <2> QED
      BY <1>1, <1>5, <2>1, <2>2
  <1>9. Len(what[read]) \in Nat
    BY <1>5, <1>8, StreamShape, StreamAssumption
  <1>10. place[1] < Len(what[read]) /\ (place[1] + 1 = Len(what[read]) => read < sent)
    <2>1. CASE read < sent
      BY <1>4, <1>5, <1>7, <1>8, <2>1 DEF IsSent
    <2>2. CASE read = sent
      <3>1. place[1] < part
        BY <1>4, <1>5, <1>7, <2>2 DEF IsSent
      <3>2. part < Len(what[read])
        BY <1>4, <1>5, <2>2, <3>1
      <3> QED
        BY <1>4, <1>5, <1>9, <3>1, <3>2
    <2> QED
      BY <1>1, <1>5, <2>1, <2>2
  <1>11. Message(who, what, read, place[1]) \in Messages
    BY <1>4, <1>5, <1>8, <1>10, MessageIs
  <1> QED
    BY <1>3, <1>4, <1>7, <1>8, <1>10, <1>11

(* The first message in the queue is not one of those that must stay when  *)
(* `next' is put together next.                                            *)
CanDrop(what, sent, read, owner, place, next) ==
    /\ next \in Nat /\ sent \in Nat /\ read <= next /\ next <= sent
    /\ \A i \in 2..Len(owner) : next <= owner[i]
    /\ \A k \in next..(sent - 1) : ~(owner[1] = k /\ place[1] + 1 = Len(what[k]))

Dropped(owner, place) ==
    /\ Len(Tail(owner)) = Len(owner) - 1
    /\ \A i \in 1..(Len(owner) - 1) :
           Tail(owner)[i] = owner[i + 1] /\ Tail(place)[i] = place[i + 1]

LEMMA QueueShrinks ==
    ASSUME NEW t, Typed(t), queue[t] # <<>>, queue' = [queue EXCEPT ![t] = Tail(queue[t])],
           NEW who, NEW what, NEW sent, NEW part, NEW read, NEW owner, NEW place,
           Queued(t, who, what, sent, part, read, owner, place),
           NEW next, CanDrop(what, sent, read, owner, place, next)
    PROVE  /\ Queued(t, who, what, sent, part, next, Tail(owner), Tail(place))'
           /\ Dropped(owner, place)
  <1> DEFINE n == Len(owner) - 1
             owner2 == Tail(owner)
             place2 == Tail(place)
  <1>0. /\ next \in Nat /\ sent \in Nat /\ read <= next /\ next <= sent
        /\ \A i \in 2..Len(owner) : next <= owner[i]
        /\ \A k \in next..(sent - 1) : ~(owner[1] = k /\ place[1] + 1 = Len(what[k]))
    BY DEF CanDrop
  <1>1. /\ read \in 0..sent /\ owner \in Seq(Nat) /\ place \in Seq(Nat)
        /\ Len(place) = Len(owner) /\ Len(queue[t]) = Len(owner)
    BY DEF Queued
  <1>2. queue[t] \in Seq(Posts) /\ DOMAIN queue = {t}
    BY DEF Typed
  <1>3. Len(owner) # 0 /\ owner # <<>> /\ place # <<>> /\ n \in Nat
    BY <1>1, <1>2
  <1>4. /\ owner2 \in Seq(Nat) /\ place2 \in Seq(Nat) /\ Len(owner2) = n /\ Len(place2) = n
        /\ \A i \in 1..n : owner2[i] = owner[i + 1] /\ place2[i] = place[i + 1]
    BY <1>1, <1>3, HeadTailProperties
  <1>5. Len(queue'[t]) = n /\ \A i \in 1..n : queue'[t][i] = queue[t][i + 1]
    <2>1. queue'[t] = Tail(queue[t])
      BY <1>2
    <2> QED
      BY <1>1, <1>2, <2>1, HeadTailProperties
  <1>6. \A i \in 1..n : i + 1 \in 1..Len(owner) /\ i + 1 \in 2..Len(owner)
    BY <1>1
  <1> HIDE DEF owner2, place2
  <1>7. ASSUME NEW i \in 1..n
        PROVE  /\ next <= owner2[i] /\ IsSent(what, sent, part, owner2[i], place2[i])
               /\ queue'[t][i] = Scanned(Raw(Message(who, what, owner2[i], place2[i])))
    <2> DEFINE l == i + 1
    <2>1. /\ l \in 1..Len(owner) /\ l \in 2..Len(owner) /\ owner2[i] = owner[l]
          /\ place2[i] = place[l] /\ queue'[t][i] = queue[t][l]
      BY <1>4, <1>5, <1>6
    <2> HIDE DEF l
    <2>2. /\ IsSent(what, sent, part, owner[l], place[l])
          /\ queue[t][l] = Scanned(Raw(Message(who, what, owner[l], place[l])))
      BY <2>1 DEF Queued
    <2> QED
      BY <1>0, <2>1, <2>2
  <1>8. ASSUME NEW i \in 1..n, NEW l \in 1..n, i < l
        PROVE  owner2[i] < owner2[l] \/ (owner2[i] = owner2[l] /\ place2[i] < place2[l])
    <2> DEFINE i1 == i + 1
               l1 == l + 1
    <2>0. i1 < l1
      BY <1>3, <1>8
    <2>1. /\ i1 \in 1..Len(owner) /\ l1 \in 1..Len(owner)
          /\ owner2[i] = owner[i1] /\ owner2[l] = owner[l1]
          /\ place2[i] = place[i1] /\ place2[l] = place[l1]
      BY <1>4, <1>6
    <2> HIDE DEF i1, l1
    <2>2. owner[i1] < owner[l1] \/ (owner[i1] = owner[l1] /\ place[i1] < place[l1])
      BY <2>0, <2>1 DEF Queued
    <2> QED
      BY <2>1, <2>2
  <1>9. ASSUME NEW k \in next..(sent - 1)
        PROVE  \E i \in 1..n : owner2[i] = k /\ place2[i] + 1 = Len(what[k])
    <2>1. k \in read..(sent - 1)
      BY <1>0, <1>1
    <2>2. PICK i \in 1..Len(owner) : owner[i] = k /\ place[i] + 1 = Len(what[k])
      BY <2>1 DEF Queued
    <2>3. i # 1
      BY <1>0, <2>2
    <2>4. i - 1 \in 1..n /\ (i - 1) + 1 = i
      BY <1>1, <2>3
    <2>5. owner2[i - 1] = owner[i] /\ place2[i - 1] = place[i]
      BY <1>4, <2>4
    <2> QED
      BY <2>2, <2>4, <2>5
  <1>10. next \in 0..sent
    BY <1>0
  <1> HIDE DEF n
  <1>11. Queued(t, who, what, sent, part, next, owner2, place2)'
    BY <1>4, <1>5, <1>7, <1>8, <1>9, <1>10 DEF Queued
  <1> QED
    BY <1>4, <1>11 DEF owner2, place2, n, Dropped

(* A piece that is not the last one goes into the buffer.                  *)
LEMMA MoreKeeps ==
    ASSUME NEW t, Tasks = {t}, ~AnyText, StreamInv(t), TaskUserData(t),
           NEW who, NEW what, NEW sent, NEW part, NEW read, NEW owner, NEW place, NEW own,
           Held(t, who, what, sent, part, read, owner, place, own),
           place[1] + 1 # Len(what[read])
    PROVE  /\ Held(t, who, what, sent, part, read, Tail(owner), Tail(place), own)'
           /\ alive' = TRUE /\ out' = out /\ DOMAIN chan' = DOMAIN chan
           /\ UNCHANGED <<asked, answer, lost>>
           /\ queue' = [queue EXCEPT ![t] = Tail(queue[t])]
  <1> DEFINE j == place[1]
             m == Message(who, what, read, j)
  <1>1. alive /\ queue[t] # <<>> /\ out[t] = <<>> /\ Typed(t)
    BY DEF TaskUserData, StreamInv
  <1>2. /\ Sender(t, who, what, sent, part)
        /\ Queued(t, who, what, sent, part, read, owner, place)
        /\ Buffered(what, sent, part, read, owner, place)
        /\ Inferring(t, who, what, read)
        /\ own \in [Clients -> Seq(Nat)]
        /\ \A c \in Clients :
               Asking(who, what, sent, read, own, c) /\ Answering(t, who, read, own, c)
    BY <1>1 DEF Held
  <1>3. /\ 1 \in 1..Len(owner) /\ owner[1] = read /\ j \in Nat
        /\ read \in 0..(started - 1) /\ j < Len(what[read])
        /\ IsSent(what, sent, part, read, j)
        /\ m \in Messages /\ Head(queue[t]) = Scanned(Raw(m))
    BY <1>1, <1>2, NextMessage
  <1>4. /\ sent \in Nat /\ read \in 0..sent /\ owner \in Seq(Nat) /\ place \in Seq(Nat)
        /\ started \in Nat /\ Len(owner) \in Nat
    BY <1>2, StreamAssumption DEF Sender, Queued
  <1>5. m.index = j /\ m.text = what[read][j + 1] /\ m.finish = FALSE
    BY DEF Message
  <1> HIDE DEF m
  <1>6. Reads(t, m, decode_stream(Head(queue[t])))
    BY <1>3, ReadIs
  <1> DEFINE decoded == decode_stream(Head(queue[t]))
  <1>7. decoded = [res |-> "more", buff |-> Stored(j, what[read][j + 1]), text |-> <<>>]
    BY <1>5, <1>6 DEF Reads
  <1>8. /\ queue' = [queue EXCEPT ![t] = Tail(queue[t])]
        /\ DOMAIN chan' = DOMAIN chan
        /\ stream_buff' = Stored(j, what[read][j + 1])
        /\ alive' = TRUE /\ out' = out
        /\ UNCHANGED <<client, started, count, asked, answer, lost>>
    <2> HIDE DEF decoded
    <2>1. /\ queue' = [queue EXCEPT ![t] = Tail(queue[t])]
          /\ chan' = [chan EXCEPT ![t] = [zmq_com |-> <<m.client>>, request_id |-> <<m.rid>>]]
          /\ stream_buff' = decoded.buff
          /\ alive' = (decoded.res # "throw")
          /\ out' = IF decoded.res = "text"
                    THEN [out EXCEPT ![t] = inference(decoded.text)]
                    ELSE out
          /\ UNCHANGED <<client, started, count, asked, answer, lost>>
      BY <1>6 DEF Reads, decoded
    <2> QED
      BY <1>7, <2>1
  <1> HIDE DEF decoded
  <1>9. /\ Queued(t, who, what, sent, part, read, Tail(owner), Tail(place))'
        /\ Len(Tail(owner)) = Len(owner) - 1
        /\ \A i \in 1..(Len(owner) - 1) :
               Tail(owner)[i] = owner[i + 1] /\ Tail(place)[i] = place[i + 1]
    <2>1. \A i \in 2..Len(owner) : read <= owner[i]
      <3>1. \A i \in 2..Len(owner) : i \in 1..Len(owner)
        BY <1>4
      <3> QED
        BY <1>2, <3>1 DEF Queued
    <2>2. \A k \in read..(sent - 1) : ~(owner[1] = k /\ place[1] + 1 = Len(what[k]))
      BY <1>3
    <2>3. read \in Nat /\ read <= read /\ read <= sent /\ sent \in Nat
      BY <1>4
    <2>4. /\ Typed(t) /\ queue[t] # <<>> /\ queue' = [queue EXCEPT ![t] = Tail(queue[t])]
          /\ Queued(t, who, what, sent, part, read, owner, place)
      BY <1>1, <1>2, <1>8
    <2>5. CanDrop(what, sent, read, owner, place, read)
      BY <2>1, <2>2, <2>3 DEF CanDrop
    <2>6. Queued(t, who, what, sent, part, read, Tail(owner), Tail(place))' /\ Dropped(owner, place)
      BY <2>4, <2>5, QueueShrinks
    <2> QED
      BY <2>6 DEF Dropped
  <1>10. Sender(t, who, what, sent, part)'
    BY <1>2, <1>8 DEF Sender
  <1>11. Buffered(what, sent, part, read, Tail(owner), Tail(place))'
    <2>1. /\ DOMAIN stream_buff' = DOMAIN stream_buff \cup {j}
          /\ stream_buff'[j] = what[read][j + 1]
          /\ \A i \in DOMAIN stream_buff : i # j => stream_buff'[i] = stream_buff[i]
      BY <1>8 DEF Stored
    <2>2. DOMAIN stream_buff' \subseteq Nat
      BY <1>2, <1>3, <2>1 DEF Buffered
    <2>3. ASSUME NEW i \in DOMAIN stream_buff'
          PROVE  IsSent(what, sent, part, read, i) /\ stream_buff'[i] = what[read][i + 1]
      BY <1>2, <1>3, <2>1 DEF Buffered
    <2>4. ASSUME ~lost', NEW k \in read..sent, NEW i \in Nat, IsSent(what, sent, part, k, i)
          PROVE  \/ k = read /\ i \in DOMAIN stream_buff'
                 \/ \E l \in 1..Len(Tail(owner)) : Tail(owner)[l] = k /\ Tail(place)[l] = i
      <3>1. ~lost
        BY <1>8, <2>4
      <3>2. CASE k = read /\ i \in DOMAIN stream_buff
        BY <2>1, <3>2
      <3>3. CASE ~(k = read /\ i \in DOMAIN stream_buff)
        <4>1. PICK l \in 1..Len(owner) : owner[l] = k /\ place[l] = i
          BY <1>2, <2>4, <3>1, <3>3 DEF Buffered
        <4>2. CASE l = 1
          BY <1>3, <2>1, <4>1, <4>2
        <4>3. CASE l # 1
          <5>1. l - 1 \in 1..(Len(owner) - 1) /\ (l - 1) + 1 = l
            BY <1>4, <4>3
          <5>2. Tail(owner)[l - 1] = k /\ Tail(place)[l - 1] = i /\ l - 1 \in 1..Len(Tail(owner))
            BY <1>9, <4>1, <5>1
          <5> QED
            BY <5>2
        <4> QED
          BY <4>2, <4>3
      <3> QED
        BY <3>2, <3>3
    <2> QED
      BY <2>2, <2>3, <2>4 DEF Buffered
  <1>12. Inferring(t, who, what, read)'
    BY <1>1, <1>2, <1>8 DEF Inferring, Calls
  <1>13. ASSUME NEW c \in Clients
         PROVE  Asking(who, what, sent, read, own, c)' /\ Answering(t, who, read, own, c)'
    <2>1. Asking(who, what, sent, read, own, c)'
      BY <1>2, <1>8 DEF Asking
    <2>2. Old(c)' = Old(c) /\ (Mine(t, who, read, c)' <=> Mine(t, who, read, c))
      BY <1>8 DEF Old, Mine
    <2>3. Answering(t, who, read, own, c)'
      BY <1>2, <1>8, <2>2 DEF Answering
    <2> QED
      BY <2>1, <2>3
  <1>14. Held(t, who, what, sent, part, read, Tail(owner), Tail(place), own)'
    BY <1>2, <1>9, <1>10, <1>11, <1>12, <1>13 DEF Held
  <1> QED
    BY <1>8, <1>14

(* At the last piece the stream is put together, and the answer begins; or *)
(* it throws, which takes a lost piece.                                    *)
LEMMA LastKeeps ==
    ASSUME NEW t, Tasks = {t}, ~AnyText, StreamInv(t), TaskUserData(t),
           NEW who, NEW what, NEW sent, NEW part, NEW read, NEW owner, NEW place, NEW own,
           Held(t, who, what, sent, part, read, owner, place, own),
           place[1] + 1 = Len(what[read])
    PROVE  /\ History(t)' /\ (alive \/ lost)' /\ alive' \in BOOLEAN
           /\ DOMAIN out' = DOMAIN out /\ DOMAIN chan' = DOMAIN chan
           /\ UNCHANGED <<asked, answer, lost>>
           /\ queue' = [queue EXCEPT ![t] = Tail(queue[t])]
  <1> DEFINE j == place[1]
             m == Message(who, what, read, j)
             n == Len(what[read])
             buff == Stored(j, what[read][j + 1])
             decoded == decode_stream(Head(queue[t]))
  <1>1. alive /\ queue[t] # <<>> /\ out[t] = <<>> /\ Typed(t) /\ (alive \/ lost)
    BY DEF TaskUserData, StreamInv
  <1>2. /\ Sender(t, who, what, sent, part)
        /\ Queued(t, who, what, sent, part, read, owner, place)
        /\ Buffered(what, sent, part, read, owner, place)
        /\ Inferring(t, who, what, read)
        /\ own \in [Clients -> Seq(Nat)]
        /\ \A c \in Clients :
               Asking(who, what, sent, read, own, c) /\ Answering(t, who, read, own, c)
    BY <1>1 DEF Held
  <1>3. /\ 1 \in 1..Len(owner) /\ owner[1] = read /\ j \in Nat
        /\ read \in 0..(started - 1) /\ IsSent(what, sent, part, read, j) /\ read < sent
        /\ m \in Messages /\ Head(queue[t]) = Scanned(Raw(m))
    BY <1>1, <1>2, NextMessage
  <1>4. /\ sent \in Nat /\ read \in 0..sent /\ owner \in Seq(Nat) /\ place \in Seq(Nat)
        /\ started \in Nat /\ Len(owner) \in Nat /\ read \in Nat /\ Len(place) = Len(owner)
        /\ who \in [0..(started - 1) -> Clients] /\ what \in [0..(started - 1) -> Streams]
    BY <1>2, StreamAssumption DEF Sender, Queued
  <1>5. /\ m.index = j /\ m.text = what[read][j + 1] /\ m.finish = TRUE
        /\ m.client = who[read] /\ m.rid = Digits[read + 1]
    BY DEF Message
  <1> HIDE DEF m
  <1>6. Reads(t, m, decoded)
    BY <1>3, ReadIs
  <1> HIDE DEF decoded
  <1>7. decoded = PutTogether(buff)
    BY <1>5, <1>6 DEF Reads
  <1>8. /\ queue' = [queue EXCEPT ![t] = Tail(queue[t])]
        /\ chan' = [chan EXCEPT ![t] = [zmq_com |-> <<who[read]>>, request_id |-> <<Digits[read + 1]>>]]
        /\ stream_buff' = decoded.buff
        /\ alive' = (decoded.res # "throw")
        /\ out' = IF decoded.res = "text"
                  THEN [out EXCEPT ![t] = inference(decoded.text)]
                  ELSE out
        /\ UNCHANGED <<client, started, count, asked, answer, lost>>
    BY <1>5, <1>6 DEF Reads
  <1>9. /\ what[read] \in Streams /\ n \in Nat /\ n - 1 = j
        /\ what[read] \in Seq({x \in Seq(Words) : Clean(x)})
    <2>1. what[read] \in Streams
      BY <1>3, <1>4
    <2>2. what[read] \in Seq({x \in Seq(Words) : Clean(x)})
      BY <2>1, StreamShape
    <2>3. n \in Nat
      BY <2>2
    <2>4. n - 1 = j
      BY <1>3, <2>3
    <2> QED
      BY <2>1, <2>2, <2>3, <2>4
  <1>10. /\ DOMAIN buff = DOMAIN stream_buff \cup {j} /\ buff[j] = what[read][j + 1]
         /\ \A i \in DOMAIN stream_buff : i # j => buff[i] = stream_buff[i]
    BY DEF Stored
  <1> HIDE DEF buff
  <1>11. ASSUME NEW i \in DOMAIN buff PROVE i \in 0..(n - 1) /\ buff[i] = what[read][i + 1]
    <2>1. CASE i = j
      BY <1>3, <1>9, <1>10, <2>1
    <2>2. CASE i # j
      <3>1. i \in Nat /\ IsSent(what, sent, part, read, i) /\ stream_buff[i] = what[read][i + 1]
        BY <1>2, <1>10, <2>2 DEF Buffered
      <3>2. i < n
        BY <1>3, <1>4, <3>1 DEF IsSent
      <3> QED
        BY <1>9, <1>10, <2>2, <3>1, <3>2
    <2> QED
      BY <2>1, <2>2
  <1>12. n - 1 \in DOMAIN buff
    BY <1>9, <1>10
  <1>13. \/ decoded = Threw /\ DOMAIN buff # 0..(n - 1)
         \/ decoded = [res |-> "text", buff |-> <<>>, text |-> FlattenSeq(what[read])]
    <2> DEFINE S == {x \in Seq(Words) : Clean(x)}
               s == what[read]
               k == n
    <2>1. s \in Seq(S) /\ k \in Nat /\ Len(s) = k
      BY <1>9
    <2>2. DOMAIN buff \subseteq 0..(k - 1) /\ k - 1 \in DOMAIN buff
      BY <1>11, <1>12
    <2>3. \A i \in DOMAIN buff : buff[i] = s[i + 1]
      BY <1>11
    <2> HIDE DEF S, s, k
    <2>4. \/ PutTogether(buff) = Threw /\ DOMAIN buff # 0..(k - 1)
          \/ PutTogether(buff) = [res |-> "text", buff |-> <<>>, text |-> FlattenSeq(s)]
      BY <2>1, <2>2, <2>3, PutTogetherIs
    <2> QED
      BY <1>7, <2>4 DEF s, k
  <1>14. Sender(t, who, what, sent, part)'
    BY <1>2, <1>8 DEF Sender
  <1>15. CASE decoded = Threw /\ DOMAIN buff # 0..(n - 1)
    <2>1. alive' = FALSE /\ out' = out
      BY <1>8, <1>15 DEF Threw
    <2>2. lost
      <3> SUFFICES ASSUME ~lost PROVE FALSE
        OBVIOUS
      <3>1. ASSUME NEW i \in 0..(n - 1) PROVE i \in DOMAIN buff
        <4>1. i \in Nat /\ IsSent(what, sent, part, read, i)
          BY <1>3, <1>4, <1>9 DEF IsSent
        <4>2. CASE i \in DOMAIN stream_buff
          BY <1>10, <4>2
        <4>3. CASE i \notin DOMAIN stream_buff
          <5>1. read \in read..sent
            BY <1>4
          <5>2. PICK l \in 1..Len(owner) : owner[l] = read /\ place[l] = i
            BY <1>2, <4>1, <4>3, <5>1 DEF Buffered
          <5>3. l = 1 \/ 1 < l
            BY <1>4
          <5>4. 1 < l => place[1] < place[l]
            BY <1>2, <1>3, <1>4, <5>2 DEF Queued
          <5>5. l = 1
            BY <1>3, <1>9, <5>2, <5>3, <5>4
          <5> QED
            BY <1>10, <5>2, <5>5
        <4> QED
          BY <4>2, <4>3
      <3>2. DOMAIN buff = 0..(n - 1)
        BY <1>11, <3>1
      <3> QED
        BY <1>15, <3>2
    <2>3. Held(t, who, what, sent, part, read, owner, place, own)'
      BY <1>14, <2>1 DEF Held
    <2>4. History(t)'
      BY <2>3 DEF History
    <2>5. (alive \/ lost)' /\ alive' \in BOOLEAN
      BY <1>8, <2>1, <2>2
    <2> QED
      BY <1>8, <2>1, <2>4, <2>5
  <1>16. CASE decoded = [res |-> "text", buff |-> <<>>, text |-> FlattenSeq(what[read])]
    <2> DEFINE next == read + 1
               text == FlattenSeq(what[read])
    <2>1. /\ alive' = TRUE /\ stream_buff' = <<>>
          /\ out' = [out EXCEPT ![t] = inference(text)]
      <3> HIDE DEF text
      <3>1. decoded.res = "text" /\ decoded.buff = <<>> /\ decoded.text = text
        BY <1>16 DEF text
      <3> QED
        BY <1>8, <3>1
    <2>2. out'[t] = inference(text) /\ DOMAIN out = {t} /\ DOMAIN chan = {t}
      BY <1>1, <2>1 DEF Typed
    <2>3. count = 0 /\ count' = 0
      BY <1>1, <1>2, <1>8 DEF Inferring, Calls
    <2>4. next \in Nat /\ next - 1 = read /\ next <= sent /\ next > 0 /\ read <= next
      BY <1>3, <1>4
    <2>5. chan'[t] = [zmq_com |-> <<who[next - 1]>>, request_id |-> <<Digits[next]>>]
      BY <1>8, <2>2, <2>4
    <2>6. ASSUME NEW i \in 2..Len(owner) PROVE next <= owner[i]
      <3>1. i \in 1..Len(owner) /\ 1 < i /\ owner[i] \in Nat /\ place[i] \in Nat
        BY <1>4
      <3>2. /\ read <= owner[i] /\ IsSent(what, sent, part, owner[i], place[i])
            /\ owner[1] < owner[i] \/ (owner[1] = owner[i] /\ place[1] < place[i])
        BY <1>2, <1>3, <3>1 DEF Queued
      <3>3. ASSUME owner[i] = read PROVE FALSE
        <4>1. place[i] < n
          BY <1>3, <1>4, <3>2, <3>3 DEF IsSent
        <4>2. j < place[i]
          BY <1>3, <1>4, <3>2, <3>3
        <4> QED
          BY <1>3, <1>9, <3>1, <4>1, <4>2
      <3> QED
        BY <1>4, <3>1, <3>2, <3>3
    <2>7. CanDrop(what, sent, read, owner, place, next)
      <3>1. \A k \in next..(sent - 1) : owner[1] # k
        BY <1>3, <1>4
      <3> QED
        BY <1>4, <2>4, <2>6, <3>1 DEF CanDrop
    <2> HIDE DEF next, text
    <2>8. /\ Queued(t, who, what, sent, part, next, Tail(owner), Tail(place))'
          /\ Dropped(owner, place)
      <3>1. queue' = [queue EXCEPT ![t] = Tail(queue[t])]
        BY <1>8
      <3> QED
        BY <1>1, <1>2, <2>7, <3>1, QueueShrinks
    <2>9. Buffered(what, sent, part, next, Tail(owner), Tail(place))'
      <3>1. DOMAIN stream_buff' = {}
        BY <2>1
      <3>2. ASSUME ~lost', NEW k \in next..sent, NEW i \in Nat, IsSent(what, sent, part, k, i)
            PROVE  \E l \in 1..Len(Tail(owner)) : Tail(owner)[l] = k /\ Tail(place)[l] = i
        <4>1. k \in read..sent /\ k # read /\ ~lost
          BY <1>4, <1>8, <2>4, <3>2
        <4>2. PICK l \in 1..Len(owner) : owner[l] = k /\ place[l] = i
          BY <1>2, <3>2, <4>1 DEF Buffered
        <4>3. l # 1
          BY <1>3, <4>1, <4>2
        <4>4. l - 1 \in 1..(Len(owner) - 1) /\ (l - 1) + 1 = l
          BY <1>4, <4>3
        <4>5. Tail(owner)[l - 1] = k /\ Tail(place)[l - 1] = i /\ l - 1 \in 1..Len(Tail(owner))
          BY <2>8, <4>2, <4>4 DEF Dropped
        <4> QED
          BY <4>5
      <3> QED
        BY <3>1, <3>2 DEF Buffered
    <2>10. Inferring(t, who, what, next)'
      <3>1. inference(text) = Calls(text, 0)
        BY DEF inference, Calls
      <3>2. text = FlattenSeq(what[next - 1])
        BY <2>4 DEF text
      <3>3. 0 \in 0..2
        OBVIOUS
      <3> QED
        BY <2>2, <2>3, <2>4, <2>5, <3>1, <3>2, <3>3 DEF Inferring
    <2>11. out'[t] # <<>>
      BY <2>2 DEF inference
    <2>12. ASSUME NEW c \in Clients
           PROVE  Asking(who, what, sent, next, own, c)' /\ Answering(t, who, next, own, c)'
      <3> DEFINE o == own[c]
      <3>1. /\ Asking(who, what, sent, read, own, c) /\ Answering(t, who, read, own, c)
            /\ o \in Seq(Nat) /\ Len(o) \in Nat
        BY <1>2
      <3>2. Asking(who, what, sent, next, own, c)'
        <4>1. \A k \in next..(sent - 1) : k \in read..(sent - 1)
          BY <1>4, <2>4
        <4>2. asked' = asked
          BY <1>8
        <4> QED
          BY <3>1, <4>1, <4>2 DEF Asking
      <3>3. ~Mine(t, who, read, c) /\ (Mine(t, who, next, c)' <=> who[read] = c)
        BY <1>1, <2>4, <2>11 DEF Mine
      <3>4. /\ answer[c] # <<>> => o # <<>> /\ o[1] < read
            /\ Len(answer[c]) \in {0, 3}
            /\ \A i \in 1..Len(o) : i > Old(c) => o[i] >= read
        BY <3>1, <3>3 DEF Answering
      <3>5. Old(c)' = Old(c) /\ Old(c) \in {0, 1} /\ (Old(c) = 1 <=> answer[c] # <<>>)
            /\ answer' = answer
        BY <1>8 DEF Old
      <3>6. answer[c] # <<>> => o # <<>> /\ o[1] < next
        <4> SUFFICES ASSUME answer[c] # <<>> PROVE o # <<>> /\ o[1] < next
          OBVIOUS
        <4>1. o # <<>> /\ o[1] < read
          BY <3>4
        <4>2. 1 \in 1..Len(o)
          BY <3>1, <4>1
        <4>3. o[1] \in Nat
          BY <3>1, <4>2
        <4> QED
          BY <1>4, <2>4, <4>1, <4>3
      <3>7. ASSUME who[read] = c
            PROVE  Old(c) + 1 <= Len(o) /\ o[Old(c) + 1] = next - 1
        <4>1. read \in read..(sent - 1)
          BY <1>3, <1>4
        <4>2. PICK i \in 1..Len(o) : o[i] = read
          BY <3>1, <3>7, <4>1 DEF Asking
        <4>3. i > Old(c)
          <5>1. CASE Old(c) = 0
            BY <5>1
          <5>2. CASE Old(c) = 1
            <6>1. o[1] < read
              BY <3>4, <3>5, <5>2
            <6>2. i # 1
              BY <1>4, <4>2, <6>1
            <6> QED
              BY <5>2, <6>2
          <5> QED
            BY <3>5, <5>1, <5>2
        <4>4. Old(c) + 1 \in 1..Len(o) /\ Old(c) + 1 > Old(c) /\ Old(c) + 1 <= i
          BY <3>1, <3>5, <4>3
        <4>5. o[Old(c) + 1] >= read /\ o[Old(c) + 1] \in Nat
          BY <3>1, <3>4, <4>4
        <4>6. Old(c) + 1 < i => o[Old(c) + 1] < o[i]
          BY <3>1, <4>4 DEF Asking
        <4>7. Old(c) + 1 = i
          BY <1>4, <3>5, <4>2, <4>4, <4>5, <4>6
        <4> QED
          BY <2>4, <3>1, <4>2, <4>7
      <3>8. ASSUME who[read] # c, NEW i \in 1..Len(o), i > Old(c)
            PROVE  o[i] >= next
        <4>1. o[i] >= read /\ o[i] \in Nat
          BY <3>1, <3>4, <3>8
        <4>2. who[o[i]] = c
          BY <3>1 DEF Asking
        <4>3. o[i] # read
          BY <3>8, <4>2
        <4> QED
          BY <1>4, <2>4, <4>1, <4>3 DEF next
      <3>9. Answering(t, who, next, own, c)'
        <4> HIDE DEF o
        <4>1. Old(c)' = Old(c) /\ answer' = answer /\ own[c] = o
          BY <3>5 DEF o
        <4> QED
          BY <2>3, <3>3, <3>4, <3>6, <3>7, <3>8, <4>1 DEF Answering
      <3> QED
        BY <3>2, <3>9
    <2>13. Held(t, who, what, sent, part, next, Tail(owner), Tail(place), own)'
      BY <1>2, <1>14, <2>8, <2>9, <2>10, <2>12 DEF Held
    <2>14. History(t)'
      BY <2>13 DEF History
    <2>15. (alive \/ lost)' /\ alive' \in BOOLEAN
      BY <2>1
    <2> QED
      BY <1>8, <2>1, <2>14, <2>15
  <1> QED
    BY <1>13, <1>15, <1>16

LEMMA ReadKeeps ==
    ASSUME NEW t, Tasks = {t}, ~AnyText, StreamInv(t), TaskUserData(t)
    PROVE  StreamInv(t)'
  <1>1. PICK who, what, sent, part, read, owner, place, own :
            Held(t, who, what, sent, part, read, owner, place, own)
    BY DEF StreamInv, History
  <1>2. /\ History(t)' /\ (alive \/ lost)' /\ alive' \in BOOLEAN
        /\ DOMAIN out' = DOMAIN out /\ DOMAIN chan' = DOMAIN chan
        /\ UNCHANGED <<asked, answer, lost>>
        /\ queue' = [queue EXCEPT ![t] = Tail(queue[t])]
    <2>1. CASE place[1] + 1 = Len(what[read])
      BY <1>1, <2>1, LastKeeps
    <2>2. CASE place[1] + 1 # Len(what[read])
      <3>1. /\ Held(t, who, what, sent, part, read, Tail(owner), Tail(place), own)'
            /\ alive' = TRUE /\ out' = out /\ DOMAIN chan' = DOMAIN chan
            /\ UNCHANGED <<asked, answer, lost>>
            /\ queue' = [queue EXCEPT ![t] = Tail(queue[t])]
        BY <1>1, <2>2, MoreKeeps
      <3>2. History(t)'
        BY <3>1 DEF History
      <3> QED
        BY <3>1, <3>2
    <2> QED
      BY <2>1, <2>2
  <1>3. Typed(t)'
    <2>1. queue[t] \in Seq(Posts) /\ DOMAIN queue = {t} /\ queue[t] # <<>>
      BY DEF StreamInv, Typed, TaskUserData
    <2>2. queue'[t] \in Seq(Posts) /\ DOMAIN queue' = {t}
      BY <1>2, <2>1, HeadTailProperties
    <2> QED
      BY <1>2, <2>2 DEF StreamInv, Typed
  <1>4. \A c \in Clients : Whole(c)'
    BY <1>2 DEF StreamInv, Whole
  <1> QED
    BY <1>2, <1>3, <1>4 DEF StreamInv

LEMMA Tails ==
    ASSUME NEW x, NEW y, NEW z
    PROVE  Tail(<<x, y, z>>) = <<y, z>> /\ Tail(<<y, z>>) = <<z>>
  <1> DEFINE a == <<x, y, z>>
             b == <<y, z>>
             S == {x, y, z}
  <1>1. /\ a \in Seq(S) /\ a # <<>> /\ Len(a) = 3 /\ a[2] = y /\ a[3] = z
        /\ b \in Seq(S) /\ b # <<>> /\ Len(b) = 2 /\ b[1] = y /\ b[2] = z
        /\ <<z>> \in Seq(S)
    OBVIOUS
  <1> HIDE DEF a, b, S
  <1>2. /\ Tail(a) \in Seq(S) /\ Len(Tail(a)) = 2 /\ Tail(a)[1] = y /\ Tail(a)[2] = z
        /\ Tail(b) \in Seq(S) /\ Len(Tail(b)) = 1 /\ Tail(b)[1] = z
    <2>1. /\ Tail(a) \in Seq(S) /\ Len(Tail(a)) = 2
          /\ \A i \in 1..2 : Tail(a)[i] = a[i + 1]
      BY <1>1, HeadTailProperties
    <2>4. /\ Tail(b) \in Seq(S) /\ Len(Tail(b)) = Len(b) - 1
          /\ \A i \in 1..Len(Tail(b)) : Tail(b)[i] = b[i + 1]
      BY <1>1, HeadTailProperties
    <2>5. Len(b) - 1 = 1
      BY <1>1
    <2>2. /\ Tail(b) \in Seq(S) /\ Len(Tail(b)) = 1
          /\ \A i \in 1..1 : Tail(b)[i] = b[i + 1]
      BY <2>4, <2>5
    <2>3. 1 \in 1..2 /\ 2 \in 1..2 /\ 1 \in 1..1 /\ 1 + 1 = 2 /\ 2 + 1 = 3
      OBVIOUS
    <2> QED
      BY <1>1, <2>1, <2>2, <2>3
  <1>3. Tail(a) = b
    <2>1. \A i \in 1..2 : i = 1 \/ i = 2
      OBVIOUS
    <2> QED
      BY <1>1, <1>2, <2>1, SeqEqual
  <1>4. Tail(b) = <<z>>
    <2> DEFINE d == <<z>>
    <2>1. d \in Seq(S) /\ Len(d) = 1 /\ d[1] = z
      BY <1>1
    <2> HIDE DEF d
    <2>2. \A i \in 1..1 : i = 1
      OBVIOUS
    <2>3. Tail(b) = d
      BY <1>2, <2>1, <2>2, SeqEqual
    <2> QED
      BY <2>3 DEF d
  <1> QED
    BY <1>3, <1>4 DEF a, b

(* A call of out_callback_ sends the next piece of the answer.             *)
LEMMA OutputIs ==
    ASSUME NEW t, Plain = {}, TaskOutput(t), DOMAIN out = {t},
           NEW c, NEW r, NEW text, NEW n \in {0, 1, 2}, count = n, out[t] = Calls(text, n),
           chan[t] = [zmq_com |-> <<c>>, request_id |-> <<r>>]
    PROVE  /\ out'[t] = (IF n = 2 THEN <<>> ELSE Calls(text, n + 1)) /\ DOMAIN out' = {t}
           /\ count' = IF n = 2 THEN 0 ELSE n + 1
           /\ Receive(c, Reply([text |-> text, rid |-> r], n + 1))
           /\ UNCHANGED <<client, started, queue, chan, stream_buff, alive, lost>>
  <1> DEFINE o == Head(out[t])
             p == Reply([text |-> text, rid |-> r], n + 1)
  <1>1. /\ out' = [out EXCEPT ![t] = Tail(out[t])]
        /\ count' = IF o.finish THEN 0 ELSE count + 1
        /\ Receive(chan[t].zmq_com[1], [index |-> count, delta |-> o.data, finish |-> o.finish,
                                        request_id |-> chan[t].request_id])
        /\ UNCHANGED <<client, started, queue, chan, stream_buff, alive, lost>>
    BY DEF TaskOutput
  <1>2. chan[t].zmq_com[1] = c /\ chan[t].request_id = <<r>>
    OBVIOUS
  <1>3. o.finish = (n = 2) /\ Tail(out[t]) = (IF n = 2 THEN <<>> ELSE Calls(text, n + 1))
    <2>1. CASE n = 0
      <3>1. out[t] = <<[data |-> text, finish |-> FALSE], [data |-> <<"hello">>, finish |-> FALSE],
                       [data |-> <<>>, finish |-> TRUE]>>
        BY <2>1 DEF Calls
      <3>2. Tail(out[t]) = <<[data |-> <<"hello">>, finish |-> FALSE],
                             [data |-> <<>>, finish |-> TRUE]>>
        BY <3>1, Tails
      <3>3. o.finish = FALSE
        BY <3>1
      <3>4. Calls(text, 1) = <<[data |-> <<"hello">>, finish |-> FALSE],
                               [data |-> <<>>, finish |-> TRUE]>>
        BY DEF Calls
      <3>5. n + 1 = 1 /\ n # 2
        BY <2>1
      <3> QED
        BY <3>2, <3>3, <3>4, <3>5
    <2>2. CASE n = 1
      <3>1. out[t] = <<[data |-> <<"hello">>, finish |-> FALSE], [data |-> <<>>, finish |-> TRUE]>>
        BY <2>2 DEF Calls
      <3>2. Tail(out[t]) = <<[data |-> <<>>, finish |-> TRUE]>>
        BY <3>1, Tails
      <3>3. o.finish = FALSE
        BY <3>1
      <3>4. Calls(text, 2) = <<[data |-> <<>>, finish |-> TRUE]>>
        BY DEF Calls
      <3>5. n + 1 = 2 /\ n # 2
        BY <2>2
      <3> QED
        BY <3>2, <3>3, <3>4, <3>5
    <2>3. CASE n = 2
      <3>1. out[t] = <<[data |-> <<>>, finish |-> TRUE]>>
        BY <2>3 DEF Calls
      <3>2. Tail(out[t]) = <<>> /\ o.finish = TRUE
        BY <3>1
      <3> QED
        BY <2>3, <3>2
    <2> QED
      BY <2>1, <2>2, <2>3
  <1>4. o.data = CASE n + 1 = 1 -> text [] n + 1 = 2 -> <<"hello">> [] OTHER -> <<>>
    <2>1. CASE n = 0
      BY <2>1 DEF Calls
    <2>2. CASE n = 1
      BY <2>2 DEF Calls
    <2>3. CASE n = 2
      BY <2>3 DEF Calls
    <2> QED
      BY <2>1, <2>2, <2>3
  <1> HIDE DEF o
  <1>5. n + 1 - 1 = n /\ (n + 1 = 3) = (n = 2)
    OBVIOUS
  <1>6. p = [index |-> n, finish |-> n = 2, request_id |-> <<r>>, delta |-> o.data]
    BY <1>4, <1>5 DEF Reply
  <1> HIDE DEF p
  <1>7. Receive(c, p)
    BY <1>1, <1>2, <1>3, <1>6
  <1>8. out'[t] = Tail(out[t]) /\ DOMAIN out' = {t}
    BY <1>1
  <1>9. count' = IF n = 2 THEN 0 ELSE n + 1
    BY <1>1, <1>3
  <1> QED
    BY <1>1, <1>3, <1>7, <1>8, <1>9 DEF p

(* Replies are put at the end of an answer, or begin the next one.         *)
LEMMA OutputKeeps ==
    ASSUME NEW t, Tasks = {t}, ~AnyText, Plain = {}, StreamInv(t), TaskOutput(t)
    PROVE  StreamInv(t)'
  <1>1. alive /\ out[t] # <<>> /\ Typed(t) /\ (\A b \in Clients : Whole(b)) /\ (alive \/ lost)
    BY DEF TaskOutput, StreamInv
  <1>2. PICK who, what, sent, part, read, owner, place, own :
            Held(t, who, what, sent, part, read, owner, place, own)
    BY DEF StreamInv, History
  <1>3. /\ Sender(t, who, what, sent, part)
        /\ Queued(t, who, what, sent, part, read, owner, place)
        /\ Buffered(what, sent, part, read, owner, place)
        /\ Inferring(t, who, what, read)
        /\ own \in [Clients -> Seq(Nat)]
        /\ \A b \in Clients :
               Asking(who, what, sent, read, own, b) /\ Answering(t, who, read, own, b)
    BY <1>1, <1>2 DEF Held
  <1>4. PICK n : n = count
    OBVIOUS
  <1> DEFINE c == who[read - 1]
             text == FlattenSeq(what[read - 1])
             ask == [text |-> text, rid |-> Digits[read]]
             p == Reply(ask, n + 1)
  <1>5. /\ sent \in Nat /\ read \in 0..sent /\ read \in Nat /\ read > 0 /\ n \in {0, 1, 2}
        /\ out[t] = Calls(text, n)
        /\ chan[t] = [zmq_com |-> <<c>>, request_id |-> <<Digits[read]>>]
        /\ started \in 0..MaxStreams /\ started \in Nat
        /\ who \in [0..(started - 1) -> Clients] /\ what \in [0..(started - 1) -> Streams]
        /\ sent <= started
    <2>1. /\ sent \in Nat /\ read \in 0..sent
          /\ started \in 0..MaxStreams /\ started \in Nat
          /\ who \in [0..(started - 1) -> Clients] /\ what \in [0..(started - 1) -> Streams]
          /\ sent = started \/ sent + 1 = started
      BY <1>3, StreamAssumption DEF Sender, Queued
    <2>2. /\ read > 0 /\ n \in 0..2 /\ out[t] = Calls(text, n)
          /\ chan[t] = [zmq_com |-> <<c>>, request_id |-> <<Digits[read]>>]
      BY <1>1, <1>3, <1>4 DEF Inferring
    <2>3. n \in {0, 1, 2}
      BY <2>2
    <2> HIDE DEF c, text
    <2> QED
      BY <2>1, <2>2, <2>3
  <1>6. c \in Clients /\ text \in Contents /\ Digits[read] \in Numerals
    <2>1. read - 1 \in 0..(started - 1)
      BY <1>5
    <2>2. read \in 1..Cardinality(Numerals)
      BY <1>5, StreamAssumption, Numbers
    <2> QED
      BY <1>5, <2>1, <2>2, Numbers DEF Contents
  <1>7. DOMAIN out = {t}
    BY <1>1 DEF Typed
  <1> HIDE DEF c, text
  <1>8. /\ out'[t] = (IF n = 2 THEN <<>> ELSE Calls(text, n + 1)) /\ DOMAIN out' = {t}
        /\ count' = IF n = 2 THEN 0 ELSE n + 1
        /\ Receive(c, p)
        /\ UNCHANGED <<client, started, queue, chan, stream_buff, alive, lost>>
    BY <1>4, <1>5, <1>7, OutputIs
  <1>9. p \in Replies
    <2>1. <<Digits[read]>> \in Seq(Numerals)
      BY <1>6
    <2>2. n + 1 - 1 \in Int /\ (n + 1 = 3) \in BOOLEAN
      BY <1>5
    <2> DEFINE d == CASE n + 1 = 1 -> text [] n + 1 = 2 -> <<"hello">> [] OTHER -> <<>>
    <2>3. d \in Contents \cup {<<"hello">>, <<>>}
      <3>1. CASE n = 0
        BY <1>6, <3>1
      <3>2. CASE n = 1
        BY <3>2
      <3>3. CASE n = 2
        BY <3>3
      <3> QED
        BY <1>5, <3>1, <3>2, <3>3
    <2>4. ask.rid = Digits[read] /\ ask.text = text
      OBVIOUS
    <2> HIDE DEF d, ask
    <2>7. d = CASE n + 1 = 1 -> ask.text [] n + 1 = 2 -> <<"hello">> [] OTHER -> <<>>
      BY <2>4 DEF d
    <2>5. p = [index |-> n + 1 - 1, finish |-> n + 1 = 3, request_id |-> <<Digits[read]>>,
               delta |-> d]
      <3>1. n \in {0, 1, 2}
        BY <1>5
      <3> QED
        BY <2>4, <2>7, <3>1 DEF Reply
    <2> HIDE DEF p
    <2> QED
      BY <2>1, <2>2, <2>3, <2>5 DEF Replies
  <1> HIDE DEF p, ask
  <1>10. /\ asked \in [Clients -> Seq(Asks)] /\ answer \in [Clients -> Seq(Replies)]
         /\ asked[c] \in Seq(Asks) /\ answer[c] \in Seq(Replies) /\ own[c] \in Seq(Nat)
         /\ Len(answer[c]) \in Nat
    BY <1>1, <1>3, <1>6 DEF Typed
  <1>11. Mine(t, who, read, c) /\ \A b \in Clients : b # c => ~Mine(t, who, read, b)
    BY <1>1 DEF Mine, c
  <1>12. /\ n = 0 => /\ Old(c) + 1 <= Len(own[c]) /\ own[c][Old(c) + 1] = read - 1
                     /\ Len(answer[c]) \in {0, 3}
         /\ n # 0 => Len(answer[c]) = n /\ own[c][1] = read - 1
         /\ answer[c] # <<>> => own[c] # <<>> /\ own[c][1] < read
         /\ Asking(who, what, sent, read, own, c)
    BY <1>3, <1>4, <1>6, <1>11 DEF Answering
  <1>13. Complete(c) <=> Len(answer[c]) = 3
    <2> DEFINE l == Len(answer[c])
    <2>1. CASE l = 0
      <3>1. answer[c] = <<>>
        BY <1>10, <2>1
      <3> QED
        BY <2>1, <3>1 DEF Complete
    <2>2. CASE l # 0
      <3>1. answer[c] # <<>> /\ l \in 1..l
        BY <1>10, <2>2
      <3>2. answer[c][l] = Reply(asked[c][1], l)
        BY <1>1, <1>6, <3>1 DEF Whole
      <3>3. answer[c][l].finish = (l = 3)
        BY <3>2 DEF Reply
      <3> QED
        BY <3>1, <3>3 DEF Complete, Last
    <2> QED
      BY <2>1, <2>2
  <1>14. /\ \A b \in Clients : b # c => answer'[b] = answer[b] /\ asked'[b] = asked[b]
         /\ answer'[c] = IF Complete(c) THEN <<p>> ELSE Append(answer[c], p)
         /\ asked'[c] = IF Complete(c) THEN Tail(asked[c]) ELSE asked[c]
         /\ DOMAIN answer' = Clients /\ DOMAIN asked' = Clients
         /\ answer' = [b \in Clients |-> answer'[b]] /\ asked' = [b \in Clients |-> asked'[b]]
    BY <1>6, <1>8, <1>10 DEF Receive
  <1>15. /\ answer'[c] \in Seq(Replies) /\ Len(answer'[c]) = n + 1 /\ answer'[c][n + 1] = p
         /\ n # 0 => asked'[c] = asked[c] /\ \A i \in 1..n : answer'[c][i] = answer[c][i]
    <2>1. CASE n = 0 /\ Len(answer[c]) = 3
      <3>1. answer'[c] = <<p>>
        BY <1>13, <1>14, <2>1
      <3> QED
        BY <1>9, <2>1, <3>1
    <2>2. CASE ~(n = 0 /\ Len(answer[c]) = 3)
      <3>1. Len(answer[c]) = n
        BY <1>12, <2>2
      <3>2. ~Complete(c)
        BY <1>5, <1>13, <3>1
      <3>3. answer'[c] = Append(answer[c], p) /\ asked'[c] = asked[c]
        BY <1>14, <3>2
      <3> QED
        BY <1>9, <1>10, <3>1, <3>3, AppendProperties
    <2> QED
      BY <2>1, <2>2
  <1>16. PICK own2 \in [Clients -> Seq(Nat)] :
             /\ \A b \in Clients : b # c => own2[b] = own[b]
             /\ Asking(who, what, sent, read, own2, c)'
             /\ own2[c] # <<>> /\ own2[c][1] = read - 1
             /\ asked'[c] \in Seq(Asks)
    <2>1. CASE Complete(c)
      <3> DEFINE o == own[c]
                 o2 == Tail(o)
                 own2 == [own EXCEPT ![c] = o2]
      <3>0. Len(answer[c]) = 3 /\ (n # 0 => Len(answer[c]) = n)
        BY <1>12, <1>13, <2>1
      <3>1. n = 0 /\ Len(answer[c]) = 3
        BY <1>5, <3>0
      <3>2. answer[c] # <<>> /\ Old(c) = 1
        BY <3>1 DEF Old
      <3>3. 2 <= Len(o) /\ o[2] = read - 1 /\ o # <<>> /\ o \in Seq(Nat) /\ Len(o) \in Nat
        BY <1>10, <1>12, <3>1, <3>2
      <3>4. o2 \in Seq(Nat) /\ Len(o2) = Len(o) - 1 /\ \A i \in 1..(Len(o) - 1) : o2[i] = o[i + 1]
        BY <3>3, HeadTailProperties
      <3>5. own2[c] = o2 /\ own2 \in [Clients -> Seq(Nat)] /\ \A b \in Clients : b # c => own2[b] = own[b]
        BY <1>3, <1>6, <3>4
      <3>6. o2[1] = read - 1 /\ o2 # <<>>
        <4>1. 1 \in 1..(Len(o) - 1) /\ 1 + 1 = 2 /\ Len(o) - 1 # 0
          BY <3>3
        <4>2. o2[1] = read - 1
          BY <3>3, <3>4, <4>1
        <4>3. Len(o2) # 0
          BY <3>4, <4>1
        <4> HIDE DEF o2
        <4>4. o2 # <<>>
          BY <4>3
        <4> QED
          BY <4>2, <4>4
      <3>7. Len(asked[c]) = Len(o) /\ asked[c] # <<>>
        BY <1>10, <1>12, <3>3 DEF Asking
      <3>8. /\ asked'[c] \in Seq(Asks) /\ Len(asked'[c]) = Len(o) - 1
            /\ \A i \in 1..(Len(o) - 1) : asked'[c][i] = asked[c][i + 1]
        BY <1>10, <1>14, <2>1, <3>7, HeadTailProperties
      <3>9. \A i \in 1..(Len(o) - 1) : i + 1 \in 1..Len(o)
        BY <3>3
      <3> HIDE DEF o2, own2
      <3>10. ASSUME NEW i \in 1..(Len(o) - 1)
             PROVE  /\ o2[i] < sent /\ who[o2[i]] = c
                    /\ asked'[c][i] = [text |-> FlattenSeq(what[o2[i]]), rid |-> Digits[o2[i] + 1]]
        <4> DEFINE l == i + 1
        <4>1. l \in 1..Len(o) /\ o2[i] = o[l] /\ asked'[c][i] = asked[c][l]
          BY <3>4, <3>8, <3>9
        <4> HIDE DEF l
        <4>2. /\ o[l] < sent /\ who[o[l]] = c
              /\ asked[c][l] = [text |-> FlattenSeq(what[o[l]]), rid |-> Digits[o[l] + 1]]
          BY <1>12, <4>1 DEF Asking
        <4> QED
          BY <4>1, <4>2
      <3>11. ASSUME NEW i \in 1..(Len(o) - 1), NEW l \in 1..(Len(o) - 1), i < l
             PROVE  o2[i] < o2[l]
        <4> DEFINE i1 == i + 1
                   l1 == l + 1
        <4>1. i1 \in 1..Len(o) /\ l1 \in 1..Len(o) /\ o2[i] = o[i1] /\ o2[l] = o[l1]
          BY <3>4, <3>9
        <4>2. i1 < l1
          BY <3>3, <3>11
        <4> HIDE DEF i1, l1
        <4>3. o[i1] < o[l1]
          BY <1>12, <4>1, <4>2 DEF Asking
        <4> QED
          BY <4>1, <4>3
      <3>12. ASSUME NEW k \in read..(sent - 1), who[k] = c
             PROVE  \E i \in 1..(Len(o) - 1) : o2[i] = k
        <4>1. PICK i \in 1..Len(o) : o[i] = k
          BY <1>12, <3>12 DEF Asking
        <4>2. i # 1
          <5>1. o[1] < read
            BY <1>12, <3>2
          <5>2. k >= read /\ k \in Nat
            BY <1>5
          <5> QED
            BY <1>5, <4>1, <5>1, <5>2
        <4>3. i - 1 \in 1..(Len(o) - 1) /\ (i - 1) + 1 = i
          BY <3>3, <4>2
        <4>4. o2[i - 1] = k
          BY <3>4, <4>1, <4>3
        <4> QED
          BY <4>3, <4>4
      <3>13. Asking(who, what, sent, read, own2, c)'
        <4>1. own2[c] = o2 /\ Len(o2) = Len(o) - 1 /\ Len(asked'[c]) = Len(o) - 1
          BY <3>4, <3>5, <3>8
        <4> HIDE DEF o
        <4> QED
          BY <3>10, <3>11, <3>12, <4>1 DEF Asking
      <3> QED
        BY <3>5, <3>6, <3>8, <3>13
    <2>2. CASE ~Complete(c)
      <3>1. asked'[c] = asked[c]
        BY <1>14, <2>2
      <3>2. Asking(who, what, sent, read, own, c)'
        BY <1>12, <3>1 DEF Asking
      <3>3. own[c] # <<>> /\ own[c][1] = read - 1
        <4>1. CASE n = 0
          <5>1. Len(answer[c]) = 0
            BY <1>12, <1>13, <2>2, <4>1
          <5>2. answer[c] = <<>>
            BY <1>10, <5>1
          <5>3. Old(c) = 0
            BY <5>2 DEF Old
          <5>4. Old(c) + 1 = 1 /\ 1 <= Len(own[c]) /\ own[c][1] = read - 1
            BY <1>12, <4>1, <5>3
          <5> QED
            BY <1>10, <5>4
        <4>2. CASE n # 0
          <5>1. Len(answer[c]) # 0 /\ own[c][1] = read - 1
            BY <1>12, <4>2
          <5>2. answer[c] # <<>>
            BY <1>10, <5>1
          <5> QED
            BY <1>12, <5>1, <5>2
        <4> QED
          BY <4>1, <4>2
      <3> QED
        BY <1>3, <1>10, <3>1, <3>2, <3>3
    <2> QED
      BY <2>1, <2>2
  <1>17. 1 \in 1..Len(own2[c]) /\ asked'[c] # <<>> /\ asked'[c][1] = ask
    <2>1. own2[c] \in Seq(Nat)
      BY <1>6, <1>16
    <2>2. 1 \in 1..Len(own2[c]) /\ Len(own2[c]) > 0
      BY <1>16, <2>1
    <2>3. /\ Len(asked'[c]) = Len(own2[c])
          /\ asked'[c][1] = [text |-> FlattenSeq(what[own2[c][1]]), rid |-> Digits[own2[c][1] + 1]]
      BY <1>16, <2>2 DEF Asking
    <2>4. read - 1 + 1 = read
      BY <1>5
    <2>5. asked'[c][1] = ask
      BY <1>16, <2>3, <2>4 DEF ask, text
    <2>6. asked'[c] # <<>>
      BY <2>2, <2>3
    <2> QED
      BY <2>2, <2>5, <2>6
  <1>18. ASSUME NEW b \in Clients PROVE Whole(b)'
    <2>1. CASE b # c
      BY <1>1, <1>14, <2>1 DEF Whole
    <2>2. CASE b = c
      <3>1. ASSUME NEW i \in 1..(n + 1) PROVE answer'[c][i] = Reply(asked'[c][1], i)
        <4>1. CASE i = n + 1
          BY <1>15, <1>17, <4>1 DEF p
        <4>2. CASE i # n + 1
          <5>1. i \in 1..n /\ n # 0
            BY <1>5, <4>2
          <5>2. answer[c][i] = Reply(asked[c][1], i)
            BY <1>1, <1>6, <1>12, <5>1 DEF Whole
          <5> QED
            BY <1>15, <5>1, <5>2
        <4> QED
          BY <4>1, <4>2
      <3> QED
        BY <1>15, <1>17, <2>2, <3>1 DEF Whole
    <2> QED
      BY <2>1, <2>2
  <1>19. ASSUME NEW b \in Clients
         PROVE  Asking(who, what, sent, read, own2, b)' /\ Answering(t, who, read, own2, b)'
    <2>1. CASE b # c
      <3>1. own2[b] = own[b] /\ asked'[b] = asked[b] /\ answer'[b] = answer[b]
        BY <1>14, <1>16, <2>1
      <3>2. ~Mine(t, who, read, b) /\ ~Mine(t, who, read, b)'
        BY <1>11, <2>1 DEF Mine, c
      <3>3. Old(b)' = Old(b)
        BY <3>1 DEF Old
      <3>4. Asking(who, what, sent, read, own, b) /\ Answering(t, who, read, own, b)
        BY <1>3
      <3>5. Asking(who, what, sent, read, own2, b)'
        BY <3>1, <3>4 DEF Asking
      <3>6. Answering(t, who, read, own2, b)'
        BY <3>1, <3>2, <3>3, <3>4 DEF Answering
      <3> QED
        BY <3>5, <3>6
    <2>2. CASE b = c
      <3> DEFINE o == own2[c]
      <3>1. answer'[c] # <<>> /\ Old(c)' = 1
        BY <1>5, <1>15 DEF Old
      <3>2. o # <<>> /\ o[1] = read - 1 /\ o[1] < read /\ o \in Seq(Nat) /\ Len(o) \in Nat
        BY <1>5, <1>6, <1>16
      <3>3. ASSUME NEW i \in 1..Len(o), i > 1 PROVE o[i] >= read
        <4>1. o[1] < o[i]
          BY <1>16, <1>17, <3>3 DEF Asking
        <4>2. o[i] \in Nat
          BY <3>2
        <4> QED
          BY <1>5, <3>2, <4>1, <4>2
      <3>4. CASE n = 2
        <4>1. out'[t] = <<>> /\ Len(answer'[c]) = 3
          BY <1>8, <1>15, <3>4
        <4>2. ~Mine(t, who, read, c)'
          BY <4>1 DEF Mine
        <4> QED
          BY <1>16, <2>2, <3>1, <3>2, <3>3, <4>1, <4>2 DEF Answering
      <3>5. CASE n # 2
        <4>1. count' = n + 1 /\ count' # 0 /\ Len(answer'[c]) = count'
          BY <1>5, <1>8, <1>15, <3>5
        <4>2. Answering(t, who, read, own2, c)'
          <5>1. Mine(t, who, read, c)' => Len(answer'[c]) = count' /\ o[1] = read - 1
            BY <3>2, <4>1
          <5>2. Mine(t, who, read, c)'
            <6>1. Calls(text, n + 1) # <<>>
              BY DEF Calls
            <6>2. out'[t] # <<>>
              BY <1>8, <3>5, <6>1
            <6> QED
              BY <6>2 DEF Mine, c
          <5> QED
            BY <3>1, <3>2, <3>3, <4>1, <5>1, <5>2 DEF Answering
        <4> QED
          BY <1>16, <2>2, <4>2
      <3> QED
        BY <3>4, <3>5
    <2> QED
      BY <2>1, <2>2
  <1>20. Inferring(t, who, what, read)'
    <2>1. CASE n = 2
      BY <1>8, <2>1 DEF Inferring
    <2>2. CASE n # 2
      <3>1. count' = n + 1 /\ count' \in 0..2 /\ out'[t] = Calls(text, count') /\ chan'[t] = chan[t]
        BY <1>5, <1>8, <2>2
      <3> QED
        BY <1>5, <3>1 DEF Inferring, text, c
    <2> QED
      BY <2>1, <2>2
  <1>21. Held(t, who, what, sent, part, read, owner, place, own2)'
    <2>1. Sender(t, who, what, sent, part)'
      BY <1>3, <1>8 DEF Sender
    <2>2. Queued(t, who, what, sent, part, read, owner, place)'
      BY <1>3, <1>8 DEF Queued
    <2>3. Buffered(what, sent, part, read, owner, place)'
      BY <1>3, <1>8 DEF Buffered
    <2> QED
      BY <1>16, <1>19, <1>20, <2>1, <2>2, <2>3 DEF Held
  <1>22. Typed(t)'
    <2>1. asked' \in [Clients -> Seq(Asks)] /\ answer' \in [Clients -> Seq(Replies)]
      <3>1. \A b \in Clients : asked'[b] \in Seq(Asks) /\ answer'[b] \in Seq(Replies)
        BY <1>10, <1>14, <1>15, <1>16
      <3> QED
        BY <1>14, <3>1
    <2> QED
      BY <1>1, <1>8, <2>1 DEF Typed
  <1>23. History(t)' /\ (alive \/ lost)'
    BY <1>1, <1>8, <1>21 DEF History
  <1> QED
    BY <1>18, <1>22, <1>23 DEF StreamInv

LEMMA StreamStep ==
    ASSUME NEW t, Tasks = {t}, Plain = {}, ~AnyText, ~Mixing, ~LoseFinish,
           StreamInv(t), [Next]_vars
    PROVE  StreamInv(t)'
  <1>1. ASSUME NEW c \in Clients, StartStream(c) PROVE StreamInv(t)'
    BY <1>1, StartKeeps
  <1>2. ASSUME NEW c \in Clients, NEW lose \in BOOLEAN, SendPiece(c, lose) PROVE StreamInv(t)'
    BY <1>2, SendKeeps
  <1>3. ASSUME NEW u \in Tasks, TaskUserData(u) PROVE StreamInv(t)'
    <2>1. TaskUserData(t)
      BY <1>3
    <2> QED
      BY <2>1, ReadKeeps
  <1>4. ASSUME NEW u \in Tasks, TaskOutput(u) PROVE StreamInv(t)'
    <2>1. TaskOutput(t)
      BY <1>4
    <2> QED
      BY <2>1, OutputKeeps
  <1>5. CASE UNCHANGED vars
    <2>1. /\ client' = client /\ started' = started /\ queue' = queue /\ chan' = chan /\ out' = out
          /\ stream_buff' = stream_buff /\ count' = count /\ alive' = alive /\ asked' = asked
          /\ answer' = answer /\ lost' = lost
      BY <1>5 DEF vars
    <2>2. PICK who, what, sent, part, read, owner, place, own :
              Held(t, who, what, sent, part, read, owner, place, own)
      BY DEF StreamInv, History
    <2>3. Held(t, who, what, sent, part, read, owner, place, own)'
      <3>1. Sender(t, who, what, sent, part)'
        BY <2>1, <2>2 DEF Held, Sender
      <3>2. ASSUME alive PROVE Queued(t, who, what, sent, part, read, owner, place)'
        BY <2>1, <2>2, <3>2 DEF Held, Queued
      <3>3. ASSUME alive PROVE Buffered(what, sent, part, read, owner, place)'
        BY <2>1, <2>2, <3>3 DEF Held, Buffered
      <3>4. ASSUME alive PROVE Inferring(t, who, what, read)'
        BY <2>1, <2>2, <3>4 DEF Held, Inferring
      <3>5. ASSUME alive, NEW c \in Clients
            PROVE  Asking(who, what, sent, read, own, c)' /\ Answering(t, who, read, own, c)'
        <4>1. Asking(who, what, sent, read, own, c)'
          BY <2>1, <2>2, <3>5 DEF Held, Asking
        <4>2. Answering(t, who, read, own, c)'
          BY <2>1, <2>2, <3>5 DEF Held, Answering, Mine, Old
        <4> QED
          BY <4>1, <4>2
      <3> QED
        BY <2>1, <2>2, <3>1, <3>2, <3>3, <3>4, <3>5 DEF Held
    <2>4. History(t)'
      BY <2>3 DEF History
    <2>5. Typed(t)' /\ (alive \/ lost)' /\ (\A c \in Clients : Whole(c))'
      BY <2>1 DEF StreamInv, Typed, Whole
    <2> QED
      BY <2>4, <2>5 DEF StreamInv
  <1> QED
    BY <1>1, <1>2, <1>3, <1>4, <1>5 DEF Next

LEMMA StreamInvAlways ==
    ASSUME NEW t, Tasks = {t}, Plain = {}, ~AnyText, ~Mixing, ~LoseFinish
    PROVE  Spec => []StreamInv(t)
  <1>1. Init => StreamInv(t)
    BY StreamInitially
  <1>2. StreamInv(t) /\ [Next]_vars => StreamInv(t)'
    BY StreamStep
  <1> QED
    BY <1>1, <1>2, PTL DEF Spec

(* While the clients send one stream after the other, in texts the scanner *)
(* reads back, to a node with one task that streams its answers, and no    *)
(* last piece is lost: task_user_data and task_output answer every client  *)
(* piece by piece with the whole text of the stream it asked first,        *)
(* however many streams wait in the queue and whichever other pieces are   *)
(* lost.  For any number of clients, streams and pieces.                   *)
THEOREM StreamAnswers ==
    ASSUME NEW t, Tasks = {t}, Plain = {}, ~AnyText, ~Mixing, ~LoseFinish
    PROVE  Spec => []AnswersWhole
  <1>1. StreamInv(t) => AnswersWhole
    <2> SUFFICES ASSUME StreamInv(t), NEW c \in Clients, NEW i \in DOMAIN answer[c]
                 PROVE  /\ asked[c] # <<>>
                        /\ answer[c][i] =
                               [index |-> i - 1, finish |-> i = 3,
                                request_id |-> <<asked[c][1].rid>>,
                                delta |-> CASE i = 1 -> asked[c][1].text
                                            [] i = 2 -> <<"hello">> [] OTHER -> <<>>]
      BY DEF AnswersWhole
    <2>1. answer[c] \in Seq(Replies)
      BY DEF StreamInv, Typed
    <2>2. i \in 1..Len(answer[c]) /\ i \in Int
      BY <2>1
    <2>3. asked[c] # <<>> /\ answer[c][i] = Reply(asked[c][1], i)
      BY <2>2 DEF StreamInv, Whole
    <2> QED
      BY <2>2, <2>3 DEF Reply
  <1> QED
    BY <1>1, StreamInvAlways, PTL

(* Under the same conditions decode_stream throws, and terminates the      *)
(* node, only when a piece was lost.                                       *)
THEOREM StreamDeaths ==
    ASSUME NEW t, Tasks = {t}, Plain = {}, ~AnyText, ~Mixing, ~LoseFinish
    PROVE  Spec => []DiesOfLossOnly
  <1>1. StreamInv(t) => DiesOfLossOnly
    BY DEF StreamInv, DiesOfLossOnly
  <1> QED
    BY <1>1, StreamInvAlways, PTL
-----------------------------------------------------------------------------
(* pzmq_data.                                                              *)

(* A number a char can hold survives it ...                                *)
LEMMA NumberKept ==
    ASSUME NEW n \in Nat, CharMax \in {127, 255}, n <= CharMax
    PROVE  ToChar(n) \in Byte /\ FromChar(ToChar(n)) = n
<1>1. n \in 0..255
  <2>1. CASE CharMax = 127
    BY <2>1
  <2>2. CASE CharMax = 255
    BY <2>2
  <2> QED BY <2>1, <2>2
<1>2. n % 256 = n
  BY <1>1
<1>3. ~(n > CharMax)
  <2>1. CharMax \in Int
    OBVIOUS
  <2> QED BY <2>1
<1> QED BY <1>1, <1>2, <1>3 DEF ToChar, FromChar, Byte

(* ... and so does the length of a string it can count.                    *)
LEMMA LengthKept ==
    ASSUME NEW p \in Strings, Counts(p)
    PROVE  /\ ToChar(Len(p)) \in Byte
           /\ FromChar(ToChar(Len(p))) = Len(p)
BY NumberKept, LenProperties DEF Strings, Counts

(* The parts of a message.                                                 *)
LEMMA MessageParts ==
    ASSUME NEW p0 \in Strings, NEW p1 \in Strings, Counts(p0)
    PROVE  LET m == set_param(p0, p1)
           IN  /\ m \in Strings
               /\ Len(m) = 1 + Len(p0) + Len(p1)
               /\ FromChar(m[1]) = Len(p0)
               /\ \A i \in 1..Len(p0) : m[1 + i] = p0[i]
               /\ \A i \in 1..Len(p1) : m[(1 + Len(p0)) + i] = p1[i]
<1> DEFINE h == <<ToChar(Len(p0))>>
           a == h \o p0
           m == a \o p1
<1>0. Len(p0) \in Nat /\ Len(p1) \in Nat
  BY LenProperties DEF Strings
<1>1. h \in Seq(Byte) /\ Len(h) = 1 /\ FromChar(h[1]) = Len(p0)
  BY LengthKept
<1> HIDE DEF h
<1>2. /\ a \in Seq(Byte) /\ Len(a) = 1 + Len(p0)
      /\ \A i \in 1..(1 + Len(p0)) : a[i] = IF i <= 1 THEN h[i] ELSE p0[i - 1]
  <2>1. p0 \in Seq(Byte)
    BY DEF Strings
  <2>2. /\ a \in Seq(Byte) /\ Len(a) = Len(h) + Len(p0)
        /\ \A i \in 1..(Len(h) + Len(p0)) :
               a[i] = IF i <= Len(h) THEN h[i] ELSE p0[i - Len(h)]
    BY <1>1, <2>1, ConcatProperties
  <2> HIDE DEF a
  <2> QED BY <1>1, <2>2
<1>3. a[1] = h[1] /\ \A i \in 1..Len(p0) : a[1 + i] = p0[i]
  BY <1>0, <1>2
<1> HIDE DEF a
<1>4. /\ m \in Seq(Byte) /\ Len(m) = (1 + Len(p0)) + Len(p1)
      /\ \A i \in 1..((1 + Len(p0)) + Len(p1)) :
             m[i] = IF i <= 1 + Len(p0) THEN a[i] ELSE p1[i - (1 + Len(p0))]
  <2>1. p1 \in Seq(Byte)
    BY DEF Strings
  <2>2. /\ m \in Seq(Byte) /\ Len(m) = Len(a) + Len(p1)
        /\ \A i \in 1..(Len(a) + Len(p1)) :
               m[i] = IF i <= Len(a) THEN a[i] ELSE p1[i - Len(a)]
    BY <1>2, <2>1, ConcatProperties
  <2> HIDE DEF m
  <2> QED BY <1>2, <2>2
<1> HIDE DEF m
<1>5. m[1] = a[1] /\ \A i \in 1..Len(p0) : m[1 + i] = p0[i]
  BY <1>0, <1>3, <1>4
<1>6. \A i \in 1..Len(p1) : m[(1 + Len(p0)) + i] = p1[i]
  BY <1>0, <1>4
<1>7. m = set_param(p0, p1)
  BY DEF set_param, m, a, h
<1> QED BY <1>1, <1>3, <1>4, <1>5, <1>6, <1>7 DEF Strings

(* A slice is known by its length and its elements.                        *)
LEMMA SliceIs ==
    ASSUME NEW m \in Strings, NEW s \in Strings, NEW i \in Nat,
           i + Len(s) <= Len(m),
           \A j \in 1..Len(s) : m[i + j] = s[j]
    PROVE  Slice(m, i, Len(s)) = s
<1> DEFINE t == SubSeq(m, i + 1, i + Len(s))
<1>1. Len(s) \in Nat /\ Len(m) \in Nat
  BY LenProperties DEF Strings
<1>2. \A j \in (i + 1)..(i + Len(s)) : m[j] \in Byte
  BY <1>1, LenProperties DEF Strings
<1>3. /\ t \in Seq(Byte)
      /\ Len(t) = IF i + 1 <= i + Len(s) THEN (i + Len(s)) - (i + 1) + 1 ELSE 0
      /\ \A j \in 1..((i + Len(s)) - (i + 1) + 1) : t[j] = m[(i + 1) + j - 1]
  BY <1>1, <1>2, SubSeqProperties
<1> HIDE DEF t
<1>4. Len(t) = Len(s)
  BY <1>1, <1>3
<1>5. \A j \in 1..Len(s) : t[j] = s[j]
  <2> TAKE j \in 1..Len(s)
  <2>1. (i + 1) + j - 1 = i + j /\ j \in 1..((i + Len(s)) - (i + 1) + 1)
    BY <1>1
  <2>2. t[j] = m[(i + 1) + j - 1]
    BY <1>3, <2>1
  <2> QED BY <2>1, <2>2
<1>6. t = s
  BY <1>3, <1>4, <1>5, SeqEqual DEF Strings
<1> QED BY <1>6 DEF Slice, t

(* What set_param packed, get_param reads back, the first parameter under  *)
(* 0 and the second under 1, as long as the first is no longer than a char *)
(* can count: the URLs of this repository, never a request.                *)
THEOREM ParamRoundTrip ==
    ASSUME NEW p0 \in Strings, NEW p1 \in Strings, Counts(p0)
    PROVE  /\ get_param(0, set_param(p0, p1)) = p0
           /\ get_param(1, set_param(p0, p1)) = p1
<1> DEFINE m == set_param(p0, p1)
<1>1. /\ m \in Strings
      /\ Len(m) = 1 + Len(p0) + Len(p1)
      /\ FromChar(m[1]) = Len(p0)
      /\ \A i \in 1..Len(p0) : m[1 + i] = p0[i]
      /\ \A i \in 1..Len(p1) : m[(1 + Len(p0)) + i] = p1[i]
  BY MessageParts
<1> HIDE DEF m
<1>2. Len(p0) \in Nat /\ Len(p1) \in Nat
  BY LenProperties DEF Strings
<1>3. Slice(m, 1, Len(p0)) = p0
  <2>1. 1 + Len(p0) <= Len(m)
    BY <1>1, <1>2
  <2> QED BY <1>1, <2>1, SliceIs
<1>4. Slice(m, 1 + Len(p0), Len(p1)) = p1
  <2>1. (1 + Len(p0)) + Len(p1) <= Len(m) /\ 1 + Len(p0) \in Nat
    BY <1>1, <1>2
  <2> QED BY <1>1, <2>1, SliceIs
<1>5. get_param(0, m) = Slice(m, 1, Len(p0))
  BY <1>1 DEF get_param
<1>6. get_param(1, m) = Slice(m, 1 + Len(p0), Len(p1))
  <2>1. Len(m) - Len(p0) - 1 = Len(p1) /\ Len(p0) + 1 = 1 + Len(p0)
    BY <1>1, <1>2
  <2> QED BY <1>1, <2>1 DEF get_param
<1> QED BY <1>3, <1>4, <1>5, <1>6 DEF m

(* register_unit answers the number of the unit and, nested, its two URLs; *)
(* sys_register_unit of a node takes the nesting apart again and has the   *)
(* three it was given.                                                     *)
THEOREM RegistrationRoundTrip ==
    ASSUME NEW port \in Strings, NEW output \in Strings, NEW input \in Strings,
           Counts(port), Counts(output)
    PROVE  LET msg == set_param(port, set_param(output, input))
               str_port == get_param(1, msg)
           IN  /\ get_param(0, msg) = port
               /\ get_param(0, str_port) = output
               /\ get_param(1, str_port) = input
<1>1. set_param(output, input) \in Strings
  BY MessageParts
<1>2. get_param(1, set_param(port, set_param(output, input))) = set_param(output, input)
  BY <1>1, ParamRoundTrip
<1>3. get_param(0, set_param(port, set_param(output, input))) = port
  BY <1>1, ParamRoundTrip
<1> QED BY <1>2, <1>3, ParamRoundTrip
=============================================================================
