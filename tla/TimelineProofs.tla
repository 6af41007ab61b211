--------------------------- MODULE TimelineProofs ---------------------------
(***************************************************************************)
(* The fault timeline, for any number of injectors, requests, clears and   *)
(* short writes: what a reader gets, and how much a short write can spoil. *)
(***************************************************************************)
EXTENDS Timeline, FiniteSetTheorems, SequenceTheorems, TLAPS

-----------------------------------------------------------------------------
(* The invariant.                                                          *)

Pieces == {Half(i, k) : i \in Injectors, k \in {1, 2}} \cup {Newline}

Lefts(i) == {Line(i), <<Half(i, 2), Newline>>, <<Newline>>}

InjectorRecord ==
    [pc : {"act", "append", "write"} \cup Over, struck : {"none", "partly", "done"},
     status : {"none", "ok", "error"}, left : Seq(Pieces)]

Types ==
    /\ exists \in BOOLEAN
    /\ file \in Seq(Pieces)
    /\ injector \in [Injectors -> InjectorRecord]
    /\ history \in [clears : Nat, cuts : Nat, whole : SUBSET Injectors]

\* x: an injector.
Writing(x, i) == x.pc = "write" => exists /\ x.left \in Lefts(i)

\* The line of i is at p, and it starts there.
LineAt(s, i, p) ==
    /\ p + 2 <= Len(s)
    /\ s[p] = Half(i, 1) /\ s[p + 1] = Half(i, 2) /\ s[p + 2] = Newline
Readable(s, i) == \E p \in 1 .. Len(s) : LineAt(s, i, p) /\ (p = 1 \/ s[p - 1] = Newline)

\* A file that does not end in a newline will cost the next line its start.
Lost      == {i \in history.whole : ~Readable(file, i)}
Dirty     == file # << >> /\ file[Len(file)] # Newline
LossInv   == /\ IsFiniteSet(Lost)
             /\ Cardinality(Lost) + (IF Dirty THEN 1 ELSE 0) <= history.cuts

\* A half stands without the other one, or i is not through with its line.
Broken(s, i) ==
    \E k \in 1 .. Len(s) :
        \/ s[k] = Half(i, 1) /\ ~(k + 1 <= Len(s) /\ s[k + 1] = Half(i, 2))
        \/ s[k] = Half(i, 2) /\ ~(k > 1 /\ s[k - 1] = Half(i, 1))
Partway(x, i) == x.pc = "write" /\ x.left # Line(i)
CutShort      == {i \in Injectors : Broken(file, i) \/ Partway(injector[i], i)}
CutInv        == IsFiniteSet(CutShort) /\ Cardinality(CutShort) <= history.cuts

FileInv ==
    /\ Types
    /\ \A i \in Injectors : Writing(injector[i], i)
    /\ ~exists => file = << >>
    /\ LossInv
    /\ CutInv

-----------------------------------------------------------------------------
(* Pieces and lines.                                                       *)

LEMMA PiecesDiffer ==
    ASSUME NEW i, NEW j
    PROVE  /\ Half(i, 1) # Newline /\ Half(i, 2) # Newline /\ Half(i, 1) # Half(j, 2)
           /\ \A k \in {1, 2} : Half(i, k) = Half(j, k) => i = j
           /\ Half(i, 1).of = i /\ Half(i, 2).of = i
           /\ Half(i, 1).half = 1 /\ Half(i, 2).half = 2 /\ Newline.half = 0
  BY DEF Half, Newline

LEMMA LinePieces ==
    ASSUME NEW i \in Injectors
    PROVE  /\ Half(i, 1) \in Pieces /\ Half(i, 2) \in Pieces /\ Newline \in Pieces
           /\ Lefts(i) \subseteq Seq(Pieces)
           /\ Len(Line(i)) = 3 /\ Len(<<Half(i, 2), Newline>>) = 2 /\ Len(<<Newline>>) = 1
  <1>1. Half(i, 1) \in Pieces /\ Half(i, 2) \in Pieces /\ Newline \in Pieces
    BY DEF Pieces
  <1>2. Lefts(i) \subseteq Seq(Pieces)
    BY <1>1 DEF Lefts, Line
  <1>3. Len(Line(i)) = 3 /\ Len(<<Half(i, 2), Newline>>) = 2 /\ Len(<<Newline>>) = 1
    BY DEF Line
  <1> QED
    BY <1>1, <1>2, <1>3

\* What is left of a line, piece by piece: m pieces of three have been written.
LEMMA LeftPieces ==
    ASSUME NEW i \in Injectors, NEW left \in Lefts(i)
    PROVE  \E m \in {0, 1, 2} :
               /\ Len(left) = 3 - m
               /\ \A k \in 1 .. 3 - m :
                      left[k] = IF m + k = 1 THEN Half(i, 1)
                                ELSE IF m + k = 2 THEN Half(i, 2) ELSE Newline
               /\ m = 0 <=> left = Line(i)
  <1>0. /\ Len(Line(i)) = 3 /\ Len(<<Half(i, 2), Newline>>) = 2 /\ Len(<<Newline>>) = 1
    BY LinePieces
  <1>1. CASE left = Line(i)
    <2>1. left[1] = Half(i, 1) /\ left[2] = Half(i, 2) /\ left[3] = Newline
      BY <1>1 DEF Line
    <2>2. \A k \in 1 .. 3 : k = 1 \/ k = 2 \/ k = 3
      OBVIOUS
    <2> QED
      BY <1>0, <1>1, <2>1, <2>2
  <1>2. CASE left = <<Half(i, 2), Newline>>
    <2>1. left[1] = Half(i, 2) /\ left[2] = Newline /\ Len(left) = 2 /\ left # Line(i)
      BY <1>0, <1>2
    <2>2. \A k \in 1 .. 2 : k = 1 \/ k = 2
      OBVIOUS
    <2> QED
      BY <2>1, <2>2
  <1>3. CASE left = <<Newline>>
    <2>1. left[1] = Newline /\ Len(left) = 1 /\ left # Line(i)
      BY <1>0, <1>3
    <2>2. \A k \in 1 .. 1 : k = 1
      OBVIOUS
    <2> QED
      BY <2>1, <2>2
  <1> QED
    BY <1>1, <1>2, <1>3 DEF Lefts

-----------------------------------------------------------------------------
(* Counting.                                                               *)

\* Every element of a finite set of numbers has its rank, and every rank its element.
LEMMA NthFacts ==
    ASSUME NEW S, S \subseteq Int, IsFiniteSet(S)
    PROVE  /\ \A n \in 1 .. Cardinality(S) : Nth(S, n) \in S
           /\ \A k \in S : \E n \in 1 .. Cardinality(S) : Nth(S, n) = k
  <1> DEFINE Below(k) == {j \in S : j < k}
             rank == [k \in S |-> Cardinality(Below(k)) + 1]
             c == Cardinality(S)
  <1>1. c \in Nat
    BY FS_CardinalityType
  <1>2. ASSUME NEW k \in S
        PROVE  /\ IsFiniteSet(Below(k)) /\ Cardinality(Below(k)) \in Nat
               /\ Cardinality(Below(k)) + 1 <= c
    <2>1. IsFiniteSet(S \ {k}) /\ Cardinality(S \ {k}) = c - 1
      BY FS_RemoveElement
    <2>2. Below(k) \in SUBSET (S \ {k})
      OBVIOUS
    <2>3. IsFiniteSet(Below(k)) /\ Cardinality(Below(k)) <= c - 1
      BY <2>1, <2>2, FS_Subset
    <2>4. Cardinality(Below(k)) \in Nat
      BY <2>3, FS_CardinalityType
    <2> QED
      BY <1>1, <2>3, <2>4
  <1>3. ASSUME NEW j \in S, NEW k \in S, j < k
        PROVE  Cardinality(Below(j)) < Cardinality(Below(k))
    <2>1. Below(j) \in SUBSET Below(k)
      <3> SUFFICES ASSUME NEW i \in S, i < j PROVE i < k
        OBVIOUS
      <3>1. i \in Int /\ j \in Int /\ k \in Int
        OBVIOUS
      <3> QED
        BY <1>3, <3>1
    <2>2. j \in Below(k) /\ j \notin Below(j)
      BY <1>3
    <2>3. Below(j) # Below(k)
      BY <2>2
    <2>4. /\ Cardinality(Below(j)) <= Cardinality(Below(k))
          /\ Cardinality(Below(j)) # Cardinality(Below(k))
      BY <1>2, <2>1, <2>3, FS_Subset
    <2> QED
      BY <1>2, <2>4
  <1>4. ASSUME NEW j \in S, NEW k \in S, Cardinality(Below(j)) = Cardinality(Below(k))
        PROVE  j = k
    <2>1. Cardinality(Below(j)) \in Nat
      BY <1>2
    <2>2. ~(j < k) /\ ~(k < j)
      BY <1>3, <1>4, <2>1
    <2>3. j \in Int /\ k \in Int
      OBVIOUS
    <2> QED
      BY <2>2, <2>3
  <1>5. rank \in Injection(S, 1 .. c)
    <2>1. rank \in [S -> 1 .. c]
      BY <1>1, <1>2
    <2>2. IsInjective(rank)
      BY <1>2, <1>4 DEF IsInjective
    <2> QED
      BY <2>1, <2>2 DEF Injection
  <1>6. IsFiniteSet(1 .. c) /\ Cardinality(1 .. c) = c
    BY <1>1, FS_Interval
  <1>7. rank \in Surjection(S, 1 .. c)
    BY <1>5, <1>6, FS_Injection
  <1>8. ASSUME NEW n \in 1 .. c
        PROVE  \E k \in S : Cardinality(Below(k)) = n - 1
    <2>1. PICK k \in S : rank[k] = n
      BY <1>7 DEF Surjection
    <2>2. Cardinality(Below(k)) + 1 = n
      BY <2>1
    <2>3. Cardinality(Below(k)) \in Nat
      BY <1>2
    <2>4. Cardinality(Below(k)) = n - 1
      BY <2>2, <2>3
    <2> QED
      BY <2>4
  <1>9. \A n \in 1 .. c : Nth(S, n) \in S /\ Cardinality(Below(Nth(S, n))) = n - 1
    BY <1>8 DEF Nth
  <1>10. ASSUME NEW k \in S PROVE \E n \in 1 .. c : Nth(S, n) = k
    <2>1. PICK n : n = Cardinality(Below(k)) + 1
      OBVIOUS
    <2>2. n \in 1 .. c /\ Cardinality(Below(k)) = n - 1
      BY <1>1, <1>2, <2>1
    <2>3. Nth(S, n) = k
      BY <1>4, <1>9, <2>2
    <2> QED
      BY <2>2, <2>3
  <1> QED
    BY <1>9, <1>10

LEMMA TwoOf ==
    ASSUME NEW S, IsFiniteSet(S), NEW a \in S, NEW b \in S, a # b
    PROVE  Cardinality(S) >= 2
  <1>1. IsFiniteSet({a}) /\ Cardinality({a}) = 1
    BY FS_Singleton
  <1>2. IsFiniteSet({a} \cup {b}) /\ Cardinality({a} \cup {b}) = 2
    <2>1. b \notin {a}
      OBVIOUS
    <2>2. /\ IsFiniteSet({a} \cup {b})
          /\ Cardinality({a} \cup {b}) =
                 IF b \in {a} THEN Cardinality({a}) ELSE Cardinality({a}) + 1
      BY ONLY <1>1, FS_AddElement
    <2> QED
      BY <1>1, <2>1, <2>2
  <1>3. {a} \cup {b} \in SUBSET S
    OBVIOUS
  <1>4. Cardinality({a} \cup {b}) <= Cardinality(S)
    BY <1>3, FS_Subset
  <1>5. Cardinality(S) \in Nat
    BY FS_CardinalityType
  <1> QED
    BY <1>2, <1>4, <1>5

\* T has no element that S has not, but i.
LEMMA OneMore ==
    ASSUME NEW S, NEW T, NEW i, IsFiniteSet(S), T \subseteq S \cup {i}
    PROVE  /\ IsFiniteSet(T) /\ Cardinality(T) \in Nat /\ Cardinality(S) \in Nat
           /\ Cardinality(T) <= Cardinality(S) + 1
           /\ T \subseteq S => Cardinality(T) <= Cardinality(S)
  <1>1. /\ IsFiniteSet(S \cup {i})
        /\ Cardinality(S \cup {i}) = IF i \in S THEN Cardinality(S) ELSE Cardinality(S) + 1
    BY FS_AddElement
  <1>2. IsFiniteSet(T) /\ Cardinality(T) <= Cardinality(S \cup {i})
    BY <1>1, FS_Subset
  <1>3. Cardinality(T) \in Nat /\ Cardinality(S) \in Nat
    BY <1>2, FS_CardinalityType
  <1>4. T \subseteq S => Cardinality(T) <= Cardinality(S)
    BY FS_Subset
  <1> QED
    BY <1>1, <1>2, <1>3, <1>4

-----------------------------------------------------------------------------
(* What a Scanner and json.Unmarshal make of the pieces.                   *)

LEMMA Least ==
    ASSUME NEW T \in SUBSET Nat, T # {}
    PROVE  \E x \in T : \A y \in T : x <= y
  <1>1. IsWellFoundedOn(OpToRel(<, Nat), Nat)
    BY NatLessThanWellFounded
  <1>2. PICK x \in T : \A y \in T : ~(<<y, x>> \in OpToRel(<, Nat))
    BY <1>1, WFMin, Zenon
  <1>3. \A y \in T : ~(y < x)
    BY <1>2 DEF OpToRel
  <1>4. \A y \in T : x <= y
    <2> TAKE y \in T
    <2>1. x \in Nat /\ y \in Nat /\ ~(y < x)
      BY <1>3
    <2> QED
      BY <2>1
  <1> QED
    BY <1>4

LEMMA Largest ==
    ASSUME NEW T \in SUBSET Nat, T # {}, NEW k \in Nat, \A x \in T : x < k
    PROVE  Max(T) \in T /\ \A x \in T : x <= Max(T)
  <1> DEFINE D == {k - x : x \in T}
  <1>1. D \in SUBSET Nat /\ D # {}
    <2>1. \A x \in T : k - x \in Nat
      OBVIOUS
    <2> QED
      BY <2>1
  <1>2. PICK d \in D : \A e \in D : d <= e
    <2> HIDE DEF D
    <2> QED
      BY <1>1, Least
  <1>3. PICK m \in T : d = k - m
    BY <1>2
  <1>4. \A x \in T : m >= x
    <2> TAKE x \in T
    <2>1. k - m <= k - x
      BY <1>2, <1>3
    <2>2. m \in Nat /\ x \in Nat
      OBVIOUS
    <2> QED
      BY <2>1, <2>2
  <1>5. Max(T) \in T /\ \A x \in T : Max(T) >= x
    BY <1>4 DEF Max
  <1>6. \A x \in T : x <= Max(T)
    <2> TAKE x \in T
    <2>1. x \in Nat /\ Max(T) \in Nat /\ Max(T) >= x
      BY <1>5
    <2> QED
      BY <2>1
  <1> QED
    BY <1>5, <1>6

LEMMA EndsAre ==
    ASSUME NEW s \in Seq(Pieces)
    PROVE  /\ Len(s) \in Nat /\ Ends(s) \subseteq 1 .. Len(s) + 1
           /\ \A k \in 1 .. Len(s) : k \in Ends(s) <=> s[k] = Newline
           /\ IsFiniteSet(EventEnds(s)) /\ EventEnds(s) \subseteq Ends(s)
  <1>1. Len(s) \in Nat /\ DOMAIN s = 1 .. Len(s)
    BY LenProperties
  <1>2. Ends(s) \subseteq 1 .. Len(s) + 1
    BY <1>1 DEF Ends
  <1>3. \A k \in 1 .. Len(s) : k \in Ends(s) <=> s[k] = Newline
    BY <1>1 DEF Ends
  <1>4. EventEnds(s) \subseteq Ends(s)
    BY DEF EventEnds
  <1>5. IsFiniteSet(1 .. Len(s) + 1)
    BY <1>1, FS_Interval
  <1>6. IsFiniteSet(EventEnds(s))
    BY <1>2, <1>4, <1>5, FS_Subset
  <1> QED
    BY <1>1, <1>2, <1>3, <1>4, <1>6

LEMMA EventsAre ==
    ASSUME NEW s \in Seq(Pieces)
    PROVE  /\ DOMAIN Events(s) = 1 .. Len(Events(s))
           /\ \A n \in DOMAIN Events(s) : \E k \in EventEnds(s) : Events(s)[n] = EventTo(s, k)
           /\ \A k \in EventEnds(s) : \E n \in DOMAIN Events(s) : Events(s)[n] = EventTo(s, k)
  <1> DEFINE S == EventEnds(s)
             c == Cardinality(S)
  <1>1. IsFiniteSet(S) /\ S \subseteq Int
    BY EndsAre
  <1>2. c \in Nat
    BY <1>1, FS_CardinalityType
  <1>3. Events(s) = [n \in 1 .. c |-> EventTo(s, Nth(S, n))]
    BY DEF Events
  <1> HIDE DEF S, c
  <1>4. DOMAIN Events(s) = 1 .. c /\ \A n \in 1 .. c : Events(s)[n] = EventTo(s, Nth(S, n))
    BY <1>3
  <1>5. Len(Events(s)) = c
    BY <1>2, <1>4
  <1>6. /\ \A n \in 1 .. c : Nth(S, n) \in S
        /\ \A k \in S : \E n \in 1 .. c : Nth(S, n) = k
    BY <1>1, NthFacts DEF c
  <1>7. \A n \in 1 .. c : \E k \in S : Events(s)[n] = EventTo(s, k)
    BY <1>4, <1>6
  <1>8. \A k \in S : \E n \in 1 .. c : Events(s)[n] = EventTo(s, k)
    BY <1>4, <1>6
  <1> QED
    BY <1>4, <1>5, <1>7, <1>8 DEF S

LEMMA StartIs ==
    ASSUME NEW s \in Seq(Pieces), NEW k \in Ends(s)
    PROVE  /\ k \in Nat /\ Start(s, k) \in 1 .. k
           /\ \A p \in 1 .. k : (p = 1 \/ p - 1 \in Ends(s))
                                /\ (\A e \in Ends(s) : e < k => e < p)
                                    => Start(s, k) = p
  <1> DEFINE T == {0} \cup {e \in Ends(s) : e < k}
  <1>1. k \in Nat /\ k >= 1
    BY EndsAre
  <1>2. T \in SUBSET Nat /\ T # {} /\ \A x \in T : x < k
    BY <1>1, EndsAre
  <1>3. Max(T) \in T /\ \A x \in T : x <= Max(T)
    <2> HIDE DEF T
    <2> QED
      BY <1>1, <1>2, Largest
  <1>4. Start(s, k) = Max(T) + 1
    BY DEF Start
  <1>5. Max(T) \in Nat /\ Max(T) < k
    BY <1>2, <1>3
  <1>6. Start(s, k) \in 1 .. k
    BY <1>1, <1>4, <1>5
  <1>7. ASSUME NEW p \in 1 .. k, p = 1 \/ p - 1 \in Ends(s),
               \A e \in Ends(s) : e < k => e < p
        PROVE  Start(s, k) = p
    <2>1. p - 1 \in T
      BY <1>1, <1>7
    <2>2. p - 1 <= Max(T)
      BY <1>3, <2>1
    <2>3. Max(T) < p
      <3>1. Max(T) = 0 \/ Max(T) \in Ends(s)
        BY <1>3
      <3> QED
        BY <1>5, <1>7, <3>1
    <2> QED
      BY <1>4, <1>5, <2>2, <2>3
  <1> QED
    BY <1>1, <1>6, <1>7

\* A line that is an event is its two halves.
LEMMA EventIs ==
    ASSUME NEW s \in Seq(Pieces), NEW k \in EventEnds(s)
    PROVE  \E p \in 1 .. Len(s) : /\ p + 1 <= Len(s)
                                  /\ s[p].half = 1 /\ s[p + 1].half = 2
                                  /\ EventTo(s, k) = <<s[p].of, s[p + 1].of>>
  <1>1. k \in Ends(s) /\ IsEvent(LineTo(s, k))
    BY DEF EventEnds
  <1>2. k \in Nat /\ Start(s, k) \in 1 .. k /\ k \in 1 .. Len(s) + 1 /\ Len(s) \in Nat
    BY <1>1, StartIs, EndsAre
  <1>3. PICK p : p = Start(s, k)
    OBVIOUS
  <1>4. LineTo(s, k) = SubSeq(s, p, k - 1)
    BY <1>3 DEF LineTo
  <1>5. p \in 1 .. Len(s) + 1 /\ k - 1 \in p - 1 .. Len(s)
    BY <1>2, <1>3
  <1>6. /\ Len(SubSeq(s, p, k - 1)) = k - p
        /\ \A n \in 1 .. k - p : SubSeq(s, p, k - 1)[n] = s[p + n - 1]
    BY <1>2, <1>5
  <1>7. k - p = 2
    BY <1>1, <1>4, <1>6 DEF IsEvent
  <1>8. LineTo(s, k)[1] = s[p] /\ LineTo(s, k)[2] = s[p + 1]
    <2>1. p + 1 - 1 = p /\ p + 2 - 1 = p + 1 /\ 1 \in 1 .. k - p /\ 2 \in 1 .. k - p
      BY <1>5, <1>7
    <2> QED
      BY <1>4, <1>6, <2>1
  <1>9. p \in 1 .. Len(s) /\ p + 1 <= Len(s)
    BY <1>2, <1>5, <1>7
  <1> QED
    BY <1>1, <1>8, <1>9 DEF IsEvent, EventTo

\* A line whole and from its start is read as the event of its injector.
LEMMA ReadableIsEvent ==
    ASSUME NEW s \in Seq(Pieces), NEW i \in Injectors, Readable(s, i)
    PROVE  Contains(Events(s), <<i, i>>)
  <1>1. PICK p \in 1 .. Len(s) : LineAt(s, i, p) /\ (p = 1 \/ s[p - 1] = Newline)
    BY DEF Readable
  <1>2. PICK k : k = p + 2
    OBVIOUS
  <1>3. Len(s) \in Nat /\ p \in Nat /\ p >= 1 /\ k \in 1 .. Len(s) /\ p \in 1 .. k
    BY <1>1, <1>2, EndsAre DEF LineAt
  <1>4. /\ s[p] = Half(i, 1) /\ s[p + 1] = Half(i, 2) /\ s[k] = Newline
        /\ p + 1 \in 1 .. Len(s)
    BY <1>1, <1>2, <1>3 DEF LineAt
  <1>5. k \in Ends(s) /\ p \notin Ends(s) /\ p + 1 \notin Ends(s)
    BY <1>3, <1>4, EndsAre, PiecesDiffer
  <1>6. p = 1 \/ p - 1 \in Ends(s)
    <2>1. p # 1 => p - 1 \in 1 .. Len(s)
      BY <1>3
    <2> QED
      BY <1>1, <2>1, EndsAre
  <1>7. \A e \in Ends(s) : e < k => e < p
    <2> SUFFICES ASSUME NEW e \in Ends(s), e < k PROVE e < p
      OBVIOUS
    <2>1. e \in Nat /\ e # p /\ e # p + 1
      BY <1>5, EndsAre
    <2> QED
      BY <1>2, <1>3, <2>1
  <1>8. Start(s, k) = p
    BY <1>3, <1>5, <1>6, <1>7, StartIs
  <1>9. LineTo(s, k) = SubSeq(s, p, p + 1)
    <2>1. k - 1 = p + 1
      BY <1>2, <1>3
    <2> QED
      BY <1>8, <2>1 DEF LineTo
  <1>10. /\ Len(LineTo(s, k)) = 2
         /\ LineTo(s, k)[1] = Half(i, 1) /\ LineTo(s, k)[2] = Half(i, 2)
    <2>1. /\ Len(SubSeq(s, p, p + 1)) = 2
          /\ \A n \in 1 .. 2 : SubSeq(s, p, p + 1)[n] = s[p + n - 1]
      BY <1>3, <1>4
    <2>2. p + 1 - 1 = p /\ p + 2 - 1 = p + 1 /\ 1 \in 1 .. 2 /\ 2 \in 1 .. 2
      BY <1>3
    <2> QED
      BY <1>4, <1>9, <2>1, <2>2
  <1>11. k \in EventEnds(s) /\ EventTo(s, k) = <<i, i>>
    BY <1>5, <1>10, PiecesDiffer DEF EventEnds, IsEvent, EventTo
  <1> QED
    BY <1>11, EventsAre DEF Contains

-----------------------------------------------------------------------------
(* Pieces at the end of the file.                                          *)

LEMMA Appended ==
    ASSUME NEW s \in Seq(Pieces), NEW x \in Seq(Pieces)
    PROVE  /\ s \o x \in Seq(Pieces) /\ Len(s) \in Nat /\ Len(x) \in Nat
           /\ Len(s \o x) = Len(s) + Len(x)
           /\ \A k \in 1 .. Len(s) : (s \o x)[k] = s[k]
           /\ \A k \in 1 .. Len(x) : (s \o x)[Len(s) + k] = x[k]
  <1>1. /\ s \o x \in Seq(Pieces) /\ Len(s \o x) = Len(s) + Len(x)
        /\ \A k \in 1 .. Len(s) + Len(x) :
               (s \o x)[k] = IF k <= Len(s) THEN s[k] ELSE x[k - Len(s)]
    BY ConcatProperties
  <1>2. Len(s) \in Nat /\ Len(x) \in Nat
    BY LenProperties
  <1>3. \A k \in 1 .. Len(s) : (s \o x)[k] = s[k]
    BY <1>1, <1>2
  <1>4. ASSUME NEW k \in 1 .. Len(x) PROVE (s \o x)[Len(s) + k] = x[k]
    <2>1. /\ Len(s) + k \in 1 .. Len(s) + Len(x) /\ ~(Len(s) + k <= Len(s))
          /\ Len(s) + k - Len(s) = k
      BY <1>2
    <2> QED
      BY <1>1, <2>1
  <1> QED
    BY <1>1, <1>2, <1>3, <1>4

LEMMA ReadableStays ==
    ASSUME NEW s \in Seq(Pieces), NEW x \in Seq(Pieces), NEW i, Readable(s, i)
    PROVE  Readable(s \o x, i)
  <1>1. PICK p \in 1 .. Len(s) : LineAt(s, i, p) /\ (p = 1 \/ s[p - 1] = Newline)
    BY DEF Readable
  <1>2. /\ p \in 1 .. Len(s \o x) /\ p + 2 <= Len(s \o x)
        /\ p + 1 \in 1 .. Len(s) /\ p + 2 \in 1 .. Len(s)
        /\ p # 1 => p - 1 \in 1 .. Len(s)
    BY <1>1, Appended DEF LineAt
  <1>3. LineAt(s \o x, i, p)
    BY <1>1, <1>2, Appended DEF LineAt
  <1>4. p = 1 \/ (s \o x)[p - 1] = Newline
    BY <1>1, <1>2, Appended
  <1> QED
    BY <1>2, <1>3, <1>4 DEF Readable

\* A whole line after a newline, or at the start of the file.
LEMMA LineIsReadable ==
    ASSUME NEW s \in Seq(Pieces), NEW i \in Injectors, s = << >> \/ s[Len(s)] = Newline
    PROVE  Readable(s \o Line(i), i)
  <1> DEFINE t == s \o Line(i)
  <1>1. Line(i) \in Seq(Pieces) /\ Len(Line(i)) = 3
    BY LinePieces DEF Lefts
  <1>2. PICK p : p = Len(s) + 1
    OBVIOUS
  <1>3. Len(s) \in Nat /\ p \in Nat /\ Len(t) = Len(s) + 3
    <2>1. Len(s) \in Nat /\ Len(t) = Len(s) + Len(Line(i))
      BY <1>1, Appended
    <2> QED
      BY <1>1, <1>2, <2>1
  <1>4. t[p] = Half(i, 1) /\ t[p + 1] = Half(i, 2) /\ t[p + 2] = Newline
    <2>1. t[Len(s) + 1] = Line(i)[1] /\ t[Len(s) + 2] = Line(i)[2] /\ t[Len(s) + 3] = Line(i)[3]
      <3>1. \A k \in 1 .. Len(Line(i)) : t[Len(s) + k] = Line(i)[k]
        BY <1>1, Appended
      <3>2. /\ 1 \in 1 .. Len(Line(i)) /\ 2 \in 1 .. Len(Line(i)) /\ 3 \in 1 .. Len(Line(i))
        BY <1>1
      <3> HIDE DEF t
      <3> QED
        BY <3>1, <3>2
    <2>2. p = Len(s) + 1 /\ p + 1 = Len(s) + 2 /\ p + 2 = Len(s) + 3
      BY <1>2, <1>3
    <2>3. Line(i)[1] = Half(i, 1) /\ Line(i)[2] = Half(i, 2) /\ Line(i)[3] = Newline
      BY DEF Line
    <2> QED
      BY <2>1, <2>2, <2>3
  <1>5. p \in 1 .. Len(t) /\ p + 2 <= Len(t)
    BY <1>2, <1>3
  <1>6. p = 1 \/ t[p - 1] = Newline
    <2>1. CASE s = << >>
      <3>1. Len(s) = 0
        BY <2>1
      <3> QED
        BY <1>2, <3>1
    <2>2. CASE s # << >>
      <3>1. Len(s) \in 1 .. Len(s) /\ p - 1 = Len(s)
        <4>1. Len(s) # 0
          BY <2>2, EmptySeq
        <4> QED
          BY <1>2, <1>3, <4>1
      <3> QED
        BY <1>1, <2>2, <3>1, Appended
    <2> QED
      BY <2>1, <2>2
  <1> QED
    BY <1>4, <1>5, <1>6 DEF Readable, LineAt

\* Halves that are not torn before are torn only by pieces that are.
LEMMA BrokenBefore ==
    ASSUME NEW s \in Seq(Pieces), NEW x \in Seq(Pieces), NEW j, Broken(s \o x, j),
           ~Broken(x, j)
    PROVE  Broken(s, j)
  <1> DEFINE t == s \o x
  <1>0. /\ Len(s) \in Nat /\ Len(x) \in Nat /\ Len(t) = Len(s) + Len(x)
        /\ \A k \in 1 .. Len(s) : t[k] = s[k]
        /\ \A k \in 1 .. Len(x) : t[Len(s) + k] = x[k]
    BY Appended
  <1> HIDE DEF t
  <1>1. PICK k \in 1 .. Len(t) :
            \/ t[k] = Half(j, 1) /\ ~(k + 1 <= Len(t) /\ t[k + 1] = Half(j, 2))
            \/ t[k] = Half(j, 2) /\ ~(k > 1 /\ t[k - 1] = Half(j, 1))
    BY DEF Broken, t
  <1>2. CASE k <= Len(s)
    <2>1. k \in 1 .. Len(s) /\ s[k] = t[k]
      BY <1>0, <1>1, <1>2
    <2>2. CASE t[k] = Half(j, 1) /\ ~(k + 1 <= Len(t) /\ t[k + 1] = Half(j, 2))
      <3>1. ~(k + 1 <= Len(s) /\ s[k + 1] = Half(j, 2))
        <4> SUFFICES ASSUME k + 1 <= Len(s), s[k + 1] = Half(j, 2) PROVE FALSE
          OBVIOUS
        <4>1. k + 1 \in 1 .. Len(s) /\ k + 1 <= Len(t)
          BY <1>0, <2>1
        <4> QED
          BY <1>0, <2>2, <4>1
      <3> QED
        BY <2>1, <2>2, <3>1 DEF Broken
    <2>3. CASE t[k] = Half(j, 2) /\ ~(k > 1 /\ t[k - 1] = Half(j, 1))
      <3>1. ~(k > 1 /\ s[k - 1] = Half(j, 1))
        <4> SUFFICES ASSUME k > 1, s[k - 1] = Half(j, 1) PROVE FALSE
          OBVIOUS
        <4>1. k - 1 \in 1 .. Len(s)
          BY <1>0, <2>1
        <4> QED
          BY <1>0, <2>3, <4>1
      <3> QED
        BY <2>1, <2>3, <3>1 DEF Broken
    <2> QED
      BY <1>1, <2>2, <2>3
  <1>3. CASE ~(k <= Len(s))
    <2>1. PICK m : m = k - Len(s)
      OBVIOUS
    <2>2. m \in 1 .. Len(x) /\ k = Len(s) + m
      BY <1>0, <1>1, <1>3, <2>1
    <2>3. x[m] = t[k]
      BY <1>0, <2>2
    <2>4. CASE t[k] = Half(j, 1) /\ ~(k + 1 <= Len(t) /\ t[k + 1] = Half(j, 2))
      <3>1. m + 1 <= Len(x) /\ x[m + 1] = Half(j, 2)
        BY <2>2, <2>3, <2>4 DEF Broken
      <3>2. m + 1 \in 1 .. Len(x) /\ k + 1 = Len(s) + (m + 1) /\ k + 1 <= Len(t)
        <4>1. Len(s) \in Nat /\ Len(x) \in Nat /\ Len(t) = Len(s) + Len(x) /\ m + 1 <= Len(x)
          BY <1>0, <3>1
        <4> QED
          BY <2>2, <4>1
      <3> QED
        BY <1>0, <2>4, <3>1, <3>2
    <2>5. CASE t[k] = Half(j, 2) /\ ~(k > 1 /\ t[k - 1] = Half(j, 1))
      <3>1. m > 1 /\ x[m - 1] = Half(j, 1)
        BY <2>2, <2>3, <2>5 DEF Broken
      <3>2. m - 1 \in 1 .. Len(x) /\ k - 1 = Len(s) + (m - 1) /\ k > 1
        BY <1>0, <2>2, <3>1
      <3> QED
        BY <1>0, <2>5, <3>1, <3>2
    <2> QED
      BY <1>1, <2>4, <2>5
  <1> QED
    BY <1>2, <1>3

LEMMA LineIsNotBroken ==
    ASSUME NEW i \in Injectors
    PROVE  ~Broken(Line(i), i)
  <1>1. Len(Line(i)) = 3
    BY LinePieces
  <1>2. Line(i)[1] = Half(i, 1) /\ Line(i)[2] = Half(i, 2) /\ Line(i)[3] = Newline
    BY DEF Line
  <1>3. \A k \in 1 .. 3 : k = 1 \/ k = 2 \/ k = 3
    OBVIOUS
  <1>4. ASSUME NEW k \in 1 .. 3
        PROVE  /\ Line(i)[k] = Half(i, 1) => k + 1 <= 3 /\ Line(i)[k + 1] = Half(i, 2)
               /\ Line(i)[k] = Half(i, 2) => k > 1 /\ Line(i)[k - 1] = Half(i, 1)
    <2>1. CASE k = 1
      BY <1>2, <2>1, PiecesDiffer
    <2>2. CASE k = 2
      BY <1>2, <2>2, PiecesDiffer
    <2>3. CASE k = 3
      BY <1>2, <2>3, PiecesDiffer
    <2> QED
      BY <1>3, <2>1, <2>2, <2>3
  <1> QED
    BY <1>1, <1>4 DEF Broken

\* What i writes is of no other injector, and the rest of its line ends it.
LEMMA PiecesOf ==
    ASSUME NEW i \in Injectors, NEW left \in Lefts(i), NEW n \in 1 .. Len(left)
    PROVE  /\ left \in Seq(Pieces) /\ SubSeq(left, 1, n) \in Seq(Pieces)
           /\ Len(left) \in {1, 2, 3} /\ Len(SubSeq(left, 1, n)) = n
           /\ \A j \in Injectors : j # i => ~Broken(SubSeq(left, 1, n), j)
           /\ left[Len(left)] = Newline
           /\ SubSeq(left, 1, Len(left)) = left
           /\ n < Len(left) => SubSeq(left, n + 1, Len(left)) \in Lefts(i) \ {Line(i)}
  <1>1. PICK m \in {0, 1, 2} :
            /\ Len(left) = 3 - m
            /\ \A k \in 1 .. 3 - m :
                   left[k] = IF m + k = 1 THEN Half(i, 1)
                             ELSE IF m + k = 2 THEN Half(i, 2) ELSE Newline
            /\ m = 0 <=> left = Line(i)
    BY LeftPieces
  <1>2. left \in Seq(Pieces) /\ Len(left) \in {1, 2, 3}
    BY <1>1, LinePieces
  <1>3. /\ SubSeq(left, 1, n) \in Seq(Pieces) /\ Len(SubSeq(left, 1, n)) = n
        /\ \A k \in 1 .. n : SubSeq(left, 1, n)[k] = left[k]
    BY <1>2
  <1>4. ASSUME NEW j \in Injectors, j # i PROVE ~Broken(SubSeq(left, 1, n), j)
    <2>1. \A k \in 1 .. n : k \in 1 .. 3 - m
      BY <1>1
    <2>2. \A k \in 1 .. n : SubSeq(left, 1, n)[k] \in {Half(i, 1), Half(i, 2), Newline}
      BY <1>1, <1>3, <2>1
    <2>3. \A k \in 1 .. n : /\ SubSeq(left, 1, n)[k] # Half(j, 1)
                            /\ SubSeq(left, 1, n)[k] # Half(j, 2)
      BY <1>4, <2>2, PiecesDiffer
    <2> QED
      BY <1>3, <2>3 DEF Broken
  <1>5. left[Len(left)] = Newline
    <2>1. 3 - m \in 1 .. 3 - m /\ m + (3 - m) = 3
      BY <1>1
    <2> QED
      BY <1>1, <2>1
  <1>6. SubSeq(left, 1, Len(left)) = left
    <2>1. /\ SubSeq(left, 1, Len(left)) \in Seq(Pieces)
          /\ Len(SubSeq(left, 1, Len(left))) = Len(left)
          /\ \A k \in 1 .. Len(left) : SubSeq(left, 1, Len(left))[k] = left[k]
      BY <1>2
    <2> QED
      BY <1>2, <2>1, SeqEqual
  <1>7. ASSUME n < Len(left)
        PROVE  SubSeq(left, n + 1, Len(left)) \in Lefts(i) \ {Line(i)}
    <2> DEFINE u == SubSeq(left, n + 1, Len(left))
    <2>1. /\ u \in Seq(Pieces) /\ Len(u) = Len(left) - n
          /\ \A k \in 1 .. Len(left) - n : u[k] = left[n + k]
      <3>1. \A k \in 1 .. Len(left) - n : n + 1 + k - 1 = n + k
        BY <1>2
      <3>2. u \in Seq(Pieces)
        BY <1>2, <1>7
      <3>3. Len(u) = Len(left) - n
        BY <1>2, <1>7
      <3>4. \A k \in 1 .. Len(left) - n : u[k] = left[n + 1 + k - 1]
        BY <1>2, <1>7
      <3> QED
        BY <3>1, <3>2, <3>3, <3>4
    <2> HIDE DEF u
    <2>2. n \in {1, 2} /\ m + n \in {1, 2} /\ Len(u) = 3 - (m + n)
      BY <1>1, <1>2, <1>7, <2>1
    <2>3. \A k \in 1 .. 3 - (m + n) :
              u[k] = IF m + n + k = 2 THEN Half(i, 2) ELSE Newline
      <3> TAKE k \in 1 .. 3 - (m + n)
      <3>1. n + k \in 1 .. 3 - m /\ k \in 1 .. Len(left) - n /\ m + (n + k) = m + n + k
            /\ m + n + k # 1
        BY <1>1, <2>2
      <3> QED
        BY <1>1, <2>1, <3>1
    <2>4. /\ <<Half(i, 2), Newline>> \in Seq(Pieces) /\ Len(<<Half(i, 2), Newline>>) = 2
          /\ <<Newline>> \in Seq(Pieces) /\ Len(<<Newline>>) = 1 /\ Len(Line(i)) = 3
      BY LinePieces DEF Lefts
    <2>5. CASE m + n = 1
      <3>1. \A k \in 1 .. 2 : u[k] = <<Half(i, 2), Newline>>[k]
        <4>1. \A k \in 1 .. 2 : k = 1 \/ k = 2
          OBVIOUS
        <4>2. u[1] = Half(i, 2) /\ u[2] = Newline
          BY <2>3, <2>5
        <4> QED
          BY <4>1, <4>2
      <3>2. Len(u) = Len(<<Half(i, 2), Newline>>) /\ Len(u) = 2
        BY <2>2, <2>4, <2>5
      <3>3. u = <<Half(i, 2), Newline>>
        BY <2>1, <2>4, <3>1, <3>2, SeqEqual
      <3> QED
        BY <2>4, <3>2, <3>3 DEF Lefts, u
    <2>6. CASE m + n = 2
      <3>1. \A k \in 1 .. 1 : u[k] = <<Newline>>[k]
        <4>1. \A k \in 1 .. 1 : k = 1
          OBVIOUS
        <4>2. u[1] = Newline
          BY <2>3, <2>6
        <4> QED
          BY <4>1, <4>2
      <3>2. Len(u) = Len(<<Newline>>) /\ Len(u) = 1
        BY <2>2, <2>4, <2>6
      <3>3. u = <<Newline>>
        BY <2>1, <2>4, <3>1, <3>2, SeqEqual
      <3> QED
        BY <2>4, <3>2, <3>3 DEF Lefts, u
    <2> QED
      BY <2>2, <2>5, <2>6
  <1> QED
    BY <1>2, <1>3, <1>4, <1>5, <1>6, <1>7

-----------------------------------------------------------------------------
(* The steps of the injectors.                                             *)

\* A step of i to x that leaves the file alone.
LEMMA QuietStep ==
    ASSUME FileInv, NEW i \in Injectors, NEW x \in InjectorRecord,
           injector' = [injector EXCEPT ![i] = x], UNCHANGED <<file, history>>,
           exists' \in BOOLEAN, exists => exists', Writing(x, i)',
           Partway(x, i) => Partway(injector[i], i)
    PROVE  FileInv'
  <1>1. /\ injector' \in [Injectors -> InjectorRecord] /\ injector'[i] = x
        /\ \A j \in Injectors : j # i => injector'[j] = injector[j]
    BY DEF FileInv, Types
  <1>2. Types'
    BY <1>1 DEF FileInv, Types
  <1>3. ASSUME NEW j \in Injectors PROVE Writing(injector[j], j)'
    <2>1. CASE j = i
      BY <1>1, <2>1 DEF Writing
    <2>2. CASE j # i
      BY <1>1, <2>2 DEF FileInv, Writing
    <2> QED
      BY <2>1, <2>2
  <1>4. LossInv'
    BY DEF FileInv, LossInv, Lost, Dirty
  <1>5. CutInv'
    <2>1. ASSUME NEW j \in CutShort' PROVE j \in CutShort
      <3>1. CASE j = i
        BY <1>1, <2>1, <3>1 DEF CutShort, Partway
      <3>2. CASE j # i
        BY <1>1, <2>1, <3>2 DEF CutShort, Partway
      <3> QED
        BY <3>1, <3>2
    <2>2. CutShort' \subseteq CutShort
      BY <2>1
    <2>3. IsFiniteSet(CutShort) /\ Cardinality(CutShort) <= history.cuts /\ history.cuts \in Nat
      BY DEF FileInv, CutInv, Types
    <2>4. /\ IsFiniteSet(CutShort') /\ Cardinality(CutShort') \in Nat
          /\ Cardinality(CutShort) \in Nat /\ Cardinality(CutShort') <= Cardinality(CutShort)
      BY <2>2, <2>3, OneMore
    <2>5. Cardinality(CutShort') <= history.cuts
      BY <2>3, <2>4
    <2> QED
      BY <2>4, <2>5 DEF CutInv
  <1>6. ~exists' => file' = << >>
    BY DEF FileInv
  <1> QED
    BY <1>2, <1>3, <1>4, <1>5, <1>6 DEF FileInv

LEMMA QuietKeeps ==
    ASSUME FileInv, NEW i \in Injectors,
           Abort(i) \/ Strike(i) \/ Return(i) \/ OpenTimeline(i) \/ LogFails(i) \/ Kill(i)
    PROVE  FileInv'
  <1>1. /\ injector[i] \in InjectorRecord /\ injector \in [Injectors -> InjectorRecord]
        /\ exists \in BOOLEAN /\ Writing(injector[i], i)
    BY DEF FileInv, Types
  <1>2. PICK y \in InjectorRecord : y = injector[i]
    BY <1>1
  <1>3. /\ << >> \in Seq(Pieces) /\ Line(i) \in Seq(Pieces)
    BY LinePieces DEF Lefts
  <1>4. CASE Abort(i)
    <2>1. PICK x : x = [y EXCEPT !.pc = "failed"]
      OBVIOUS
    <2>2. /\ x \in InjectorRecord /\ x.pc = "failed"
      BY <2>1 DEF InjectorRecord, Over
    <2>3. /\ injector' = [injector EXCEPT ![i] = x]
          /\ UNCHANGED <<exists, file, history>>
      BY <1>1, <1>2, <1>4, <2>1 DEF Abort
    <2> QED
      BY <1>1, <1>2, <2>2, <2>3, QuietStep DEF Writing, Partway
  <1>5. CASE Strike(i)
    <2>1. PICK how \in {"done", "partly"} : injector' = [injector EXCEPT ![i].struck = how]
      BY <1>5 DEF Strike
    <2>2. PICK x : x = [y EXCEPT !.struck = how]
      OBVIOUS
    <2>3. /\ x \in InjectorRecord /\ x.pc = y.pc
      BY <2>2 DEF InjectorRecord
    <2>4. /\ injector' = [injector EXCEPT ![i] = x] /\ y.pc = "act"
          /\ UNCHANGED <<exists, file, history>>
      BY <1>1, <1>2, <1>5, <2>1, <2>2 DEF Strike, At
    <2>5. Writing(x, i)' /\ ~Partway(x, i)
      BY <1>1, <1>2, <2>3, <2>4 DEF Writing, Partway
    <2> QED
      BY <1>1, <2>3, <2>4, <2>5, QuietStep
  <1>6. CASE Return(i)
    <2>1. PICK s \in {"ok", "error"} :
              injector' = [injector EXCEPT ![i] = [y EXCEPT !.pc = "append", !.status = s]]
      BY <1>2, <1>6 DEF Return, Set, WriteResults, CommandResults
    <2>2. PICK x : x = [y EXCEPT !.pc = "append", !.status = s]
      OBVIOUS
    <2>3. /\ x \in InjectorRecord /\ x.pc = "append"
      BY <2>2 DEF InjectorRecord
    <2>4. /\ injector' = [injector EXCEPT ![i] = x]
          /\ UNCHANGED <<exists, file, history>>
      BY <1>6, <2>1, <2>2 DEF Return
    <2>5. Writing(x, i)' /\ ~Partway(x, i)
      BY <2>1, <2>3 DEF Writing, Partway
    <2>6. exists' \in BOOLEAN /\ (exists => exists')
      BY <1>1, <2>4
    <2> QED
      BY <2>3, <2>4, <2>5, <2>6, QuietStep
  <1>7. CASE OpenTimeline(i)
    <2>1. PICK x : x = [y EXCEPT !.pc = "write", !.left = Line(i)]
      OBVIOUS
    <2>2. /\ x \in InjectorRecord /\ x.pc = "write" /\ x.left = Line(i)
      BY <1>3, <2>1 DEF InjectorRecord
    <2>3. /\ injector' = [injector EXCEPT ![i] = x] /\ exists'
          /\ UNCHANGED <<file, history>>
      BY <1>2, <1>7, <2>1 DEF OpenTimeline, Set
    <2>4. Writing(x, i)' /\ ~Partway(x, i)
      BY <1>1, <1>2, <2>2, <2>3 DEF Writing, Partway, Lefts
    <2> QED
      BY <2>2, <2>3, <2>4, QuietStep
  <1>8. ASSUME NEW pc \in Over,
               injector' = [injector EXCEPT ![i] = [y EXCEPT !.pc = pc, !.left = << >>]],
               UNCHANGED <<exists, file, history>>
        PROVE  FileInv'
    <2>1. PICK x : x = [y EXCEPT !.pc = pc, !.left = << >>]
      OBVIOUS
    <2>2. /\ x \in InjectorRecord /\ x.pc \in Over
      BY <1>3, <2>1 DEF InjectorRecord
    <2>3. injector' = [injector EXCEPT ![i] = x]
      BY <1>8, <2>1
    <2>4. Writing(x, i)' /\ ~Partway(x, i)
      BY <1>1, <1>2, <2>2 DEF Writing, Partway, Over
    <2> QED
      BY <1>1, <1>8, <2>2, <2>3, <2>4, QuietStep
  <1>9. CASE LogFails(i)
    BY <1>2, <1>8, <1>9 DEF LogFails, Exit, Set, Over
  <1>10. CASE Kill(i)
    BY <1>2, <1>8, <1>10 DEF Kill, Set, Over
  <1> QED
    BY <1>4, <1>5, <1>6, <1>7, <1>9, <1>10

\* A write of i spoils the halves of no other.
LEMMA WriteSpoils ==
    ASSUME FileInv, NEW i \in Injectors, NEW x \in InjectorRecord, injector[i].pc = "write",
           NEW n \in 1 .. Len(injector[i].left),
           injector' = [injector EXCEPT ![i] = x], UNCHANGED exists,
           file' = file \o SubSeq(injector[i].left, 1, n), Writing(x, i)
    PROVE  /\ injector[i].left \in Lefts(i) /\ file \in Seq(Pieces) /\ file' \in Seq(Pieces)
           /\ SubSeq(injector[i].left, 1, n) \in Seq(Pieces)
           /\ exists /\ injector' \in [Injectors -> InjectorRecord] /\ injector'[i] = x
           /\ \A j \in Injectors : Writing(injector[j], j)'
           /\ \A j \in CutShort' : j # i => j \in CutShort
  <1>1. injector[i].left \in Lefts(i) /\ exists /\ file \in Seq(Pieces)
    BY DEF FileInv, Types, Writing
  <1>2. PICK u : u = SubSeq(injector[i].left, 1, n)
    OBVIOUS
  <1>3. u \in Seq(Pieces) /\ \A j \in Injectors : j # i => ~Broken(u, j)
    BY <1>1, <1>2, PiecesOf
  <1>4. file' = file \o u /\ file' \in Seq(Pieces)
    BY <1>1, <1>2, <1>3, Appended
  <1>5. /\ injector' \in [Injectors -> InjectorRecord] /\ injector'[i] = x
        /\ \A j \in Injectors : j # i => injector'[j] = injector[j]
    BY DEF FileInv, Types
  <1>6. ASSUME NEW j \in Injectors PROVE Writing(injector[j], j)'
    <2>1. CASE j = i
      BY <1>5, <2>1 DEF Writing
    <2>2. CASE j # i
      BY <1>5, <2>2 DEF FileInv, Writing
    <2> QED
      BY <2>1, <2>2
  <1>7. ASSUME NEW j \in CutShort', j # i PROVE j \in CutShort
    <2>1. j \in Injectors /\ (Broken(file', j) \/ Partway(injector'[j], j))
      BY <1>7 DEF CutShort
    <2>2. Broken(file', j) => Broken(file, j)
      BY <1>1, <1>3, <1>4, <1>7, <2>1, BrokenBefore
    <2> QED
      BY <1>5, <1>7, <2>1, <2>2 DEF CutShort
  <1> QED
    BY <1>1, <1>2, <1>3, <1>4, <1>5, <1>6, <1>7

LEMMA WriteRestKeeps ==
    ASSUME FileInv, NEW i \in Injectors, WriteRest(i)
    PROVE  FileInv'
  <1>1. PICK y \in InjectorRecord : y = injector[i]
    BY DEF FileInv, Types
  <1>2. /\ y.pc = "write" /\ UNCHANGED exists /\ history.cuts \in Nat
        /\ y.left \in Lefts(i) /\ y.left \in Seq(Pieces) /\ Len(y.left) \in {1, 2, 3}
        /\ y.left[Len(y.left)] = Newline /\ Len(y.left) \in 1 .. Len(y.left)
        /\ SubSeq(y.left, 1, Len(y.left)) = y.left
    <2>1. y.pc = "write" /\ UNCHANGED exists
      BY <1>1 DEF WriteRest, At
    <2>2. y.left \in Lefts(i) /\ history.cuts \in Nat
      BY <1>1, <2>1 DEF FileInv, Writing, Types
    <2>3. \E m \in {0, 1, 2} : Len(y.left) = 3 - m
      BY <2>2, LeftPieces
    <2>4. Len(y.left) \in 1 .. Len(y.left)
      BY <2>3
    <2> QED
      BY <2>1, <2>2, <2>4, PiecesOf
  <1>3. PICK pc \in Over :
            injector' = [injector EXCEPT ![i] = [y EXCEPT !.pc = pc, !.left = << >>]]
    BY <1>1 DEF WriteRest, Exit, Set, Over
  <1>4. PICK x : x = [y EXCEPT !.pc = pc, !.left = << >>]
    OBVIOUS
  <1>5. /\ x \in InjectorRecord /\ x.pc \in Over
    <2>1. << >> \in Seq(Pieces)
      OBVIOUS
    <2> QED
      BY <1>4, <2>1 DEF InjectorRecord
  <1>6. injector' = [injector EXCEPT ![i] = x]
    BY <1>3, <1>4
  <1>7. Writing(x, i) /\ ~Partway(x, i)
    BY <1>2, <1>5 DEF Writing, Partway, Over
  <1>8. file' = file \o y.left
    BY <1>1, <1>2 DEF WriteRest, Written
  <1>9. /\ file \in Seq(Pieces) /\ file' \in Seq(Pieces)
        /\ exists /\ injector' \in [Injectors -> InjectorRecord] /\ injector'[i] = x
        /\ \A j \in Injectors : Writing(injector[j], j)'
        /\ \A j \in CutShort' : j # i => j \in CutShort
    BY <1>1, <1>2, <1>5, <1>6, <1>7, <1>8, WriteSpoils
  <1>10. /\ history' \in [clears : Nat, cuts : Nat, whole : SUBSET Injectors]
         /\ history'.cuts = history.cuts
         /\ \A j \in history'.whole : j \in history.whole \/ (j = i /\ y.left = Line(i))
    <2>1. PICK w : w = IF y.left = Line(i) THEN history.whole \cup {i} ELSE history.whole
      OBVIOUS
    <2>2. history' = [history EXCEPT !.whole = w]
      BY <1>1, <2>1 DEF WriteRest
    <2>3. history \in [clears : Nat, cuts : Nat, whole : SUBSET Injectors]
      BY DEF FileInv, Types
    <2>4. w \subseteq Injectors
      BY <2>1, <2>3
    <2> QED
      BY <2>1, <2>2, <2>3, <2>4
  <1>11. ~Dirty'
    <2>1. /\ Len(file) \in Nat /\ Len(file') = Len(file) + Len(y.left)
          /\ file'[Len(file) + Len(y.left)] = y.left[Len(y.left)]
      BY <1>2, <1>8, <1>9, Appended
    <2> QED
      BY <1>2, <2>1 DEF Dirty
  <1>12. ASSUME NEW j \in Lost' PROVE j \in Lost \/ (j = i /\ Dirty)
    <2>1. j \in history'.whole /\ ~Readable(file', j)
      BY <1>12 DEF Lost
    <2>2. CASE j \in history.whole
      <3>1. ~Readable(file, j)
        BY <1>2, <1>8, <1>9, <2>1, ReadableStays
      <3> QED
        BY <2>2, <3>1 DEF Lost
    <2>3. CASE j = i /\ y.left = Line(i)
      <3>1. ~(file = << >> \/ file[Len(file)] = Newline)
        BY <1>8, <1>9, <2>1, <2>3, LineIsReadable
      <3> QED
        BY <2>3, <3>1 DEF Dirty
    <2> QED
      BY <1>10, <2>1, <2>2, <2>3
  <1>13. LossInv'
    <2>1. /\ IsFiniteSet(Lost) /\ Cardinality(Lost) + (IF Dirty THEN 1 ELSE 0) <= history.cuts
      BY DEF FileInv, LossInv
    <2>2. Lost' \subseteq Lost \cup {i} /\ (~Dirty => Lost' \subseteq Lost)
      BY <1>12
    <2>3. /\ IsFiniteSet(Lost') /\ Cardinality(Lost') \in Nat /\ Cardinality(Lost) \in Nat
          /\ Cardinality(Lost') <= Cardinality(Lost) + 1
          /\ ~Dirty => Cardinality(Lost') <= Cardinality(Lost)
      BY <2>1, <2>2, OneMore
    <2>4. Cardinality(Lost') <= history'.cuts
      BY <1>2, <1>10, <2>1, <2>3
    <2> QED
      BY <1>11, <2>3, <2>4 DEF LossInv
  <1>14. CutInv'
    <2>1. i \in CutShort' => i \in CutShort
      <3>1. CASE y.left = Line(i)
        <4>1. i \in CutShort' => Broken(file', i)
          BY <1>7, <1>9 DEF CutShort
        <4>2. Broken(file', i) => Broken(file, i)
          BY <1>2, <1>8, <1>9, <3>1, BrokenBefore, LineIsNotBroken
        <4> QED
          BY <4>1, <4>2 DEF CutShort
      <3>2. CASE y.left # Line(i)
        BY <1>1, <1>2, <3>2 DEF CutShort, Partway
      <3> QED
        BY <3>1, <3>2
    <2>2. CutShort' \subseteq CutShort
      BY <1>9, <2>1
    <2>3. IsFiniteSet(CutShort) /\ Cardinality(CutShort) <= history.cuts
      BY DEF FileInv, CutInv
    <2>4. /\ IsFiniteSet(CutShort') /\ Cardinality(CutShort') \in Nat
          /\ Cardinality(CutShort) \in Nat /\ Cardinality(CutShort') <= Cardinality(CutShort)
      BY <2>2, <2>3, OneMore
    <2>5. Cardinality(CutShort') <= history'.cuts
      BY <1>2, <1>10, <2>3, <2>4
    <2> QED
      BY <2>4, <2>5 DEF CutInv
  <1>15. Types' /\ (~exists' => file' = << >>)
    BY <1>2, <1>9, <1>10 DEF FileInv, Types
  <1> QED
    BY <1>9, <1>13, <1>14, <1>15 DEF FileInv

LEMMA WriteShortKeeps ==
    ASSUME FileInv, NEW i \in Injectors, WriteShort(i)
    PROVE  FileInv'
  <1>1. PICK y \in InjectorRecord : y = injector[i]
    BY DEF FileInv, Types
  <1>2. y.pc = "write" /\ UNCHANGED exists /\ y.left \in Lefts(i) /\ Len(y.left) \in {1, 2, 3}
    <2>1. y.pc = "write" /\ UNCHANGED exists
      BY <1>1 DEF WriteShort, At
    <2>2. y.left \in Lefts(i)
      BY <1>1, <2>1 DEF FileInv, Writing
    <2>3. \E m \in {0, 1, 2} : Len(y.left) = 3 - m
      BY <2>2, LeftPieces
    <2> QED
      BY <2>1, <2>2, <2>3
  <1>3. PICK n \in 1 .. Len(y.left) - 1 :
            /\ file' = file \o SubSeq(y.left, 1, n)
            /\ injector' = [injector EXCEPT ![i].left = SubSeq(y.left, n + 1, Len(y.left))]
    <2>1. \E n \in 1 .. Len(injector[i].left) - 1 :
              /\ file' = file \o SubSeq(injector[i].left, 1, n)
              /\ injector' = [injector EXCEPT ![i].left =
                     SubSeq(injector[i].left, n + 1, Len(injector[i].left))]
      BY DEF WriteShort, Written, FileInv, Types
    <2> QED
      BY <1>1, <2>1
  <1>4. n \in 1 .. Len(y.left) /\ n < Len(y.left)
    BY <1>2
  <1>5. PICK rest : rest = SubSeq(y.left, n + 1, Len(y.left))
    OBVIOUS
  <1>6. rest \in Lefts(i) \ {Line(i)} /\ rest \in Seq(Pieces)
    BY <1>2, <1>4, <1>5, PiecesOf, LinePieces
  <1>7. PICK x : x = [y EXCEPT !.left = rest]
    OBVIOUS
  <1>8. /\ x \in InjectorRecord /\ x.pc = y.pc /\ x.left = rest
    BY <1>6, <1>7 DEF InjectorRecord
  <1>9. injector' = [injector EXCEPT ![i] = x]
    BY <1>1, <1>3, <1>5, <1>7 DEF FileInv, Types
  <1>10. Writing(x, i)
    <2>1. Writing(y, i)
      BY <1>1 DEF FileInv
    <2> QED
      BY <1>6, <1>8, <2>1 DEF Writing
  <1>11. PICK u : u = SubSeq(y.left, 1, n)
    OBVIOUS
  <1>12. /\ file \in Seq(Pieces) /\ file' \in Seq(Pieces) /\ u \in Seq(Pieces)
         /\ exists /\ injector' \in [Injectors -> InjectorRecord]
         /\ \A j \in Injectors : Writing(injector[j], j)'
         /\ \A j \in CutShort' : j # i => j \in CutShort
    BY <1>1, <1>2, <1>3, <1>4, <1>8, <1>9, <1>10, <1>11, WriteSpoils
  <1>13. /\ history' \in [clears : Nat, cuts : Nat, whole : SUBSET Injectors]
         /\ history.cuts \in Nat /\ history'.cuts = history.cuts + 1
         /\ history'.whole = history.whole
    <2>1. history \in [clears : Nat, cuts : Nat, whole : SUBSET Injectors]
      BY DEF FileInv, Types
    <2>2. history' = [history EXCEPT !.cuts = history.cuts + 1]
      BY <2>1 DEF WriteShort
    <2> QED
      BY <2>1, <2>2
  <1>14. LossInv'
    <2>1. /\ IsFiniteSet(Lost) /\ Cardinality(Lost) + (IF Dirty THEN 1 ELSE 0) <= history.cuts
      BY DEF FileInv, LossInv
    <2>2. ASSUME NEW j \in Lost' PROVE j \in Lost
      <3>1. j \in history.whole /\ ~Readable(file', j)
        BY <1>13, <2>2 DEF Lost
      <3>2. ~Readable(file, j)
        BY <1>3, <1>11, <1>12, <3>1, ReadableStays
      <3> QED
        BY <3>1, <3>2 DEF Lost
    <2>3. Lost' \subseteq Lost
      BY <2>2
    <2>4. /\ IsFiniteSet(Lost') /\ Cardinality(Lost') \in Nat /\ Cardinality(Lost) \in Nat
          /\ Cardinality(Lost') <= Cardinality(Lost)
      BY <2>1, <2>3, OneMore
    <2>5. Cardinality(Lost') + 1 <= history'.cuts
      BY <1>13, <2>1, <2>4
    <2>6. Cardinality(Lost') + (IF Dirty' THEN 1 ELSE 0) <= history'.cuts
      BY <1>13, <2>4, <2>5
    <2> QED
      BY <2>4, <2>6 DEF LossInv
  <1>15. CutInv'
    <2>1. CutShort' \subseteq CutShort \cup {i}
      BY <1>12
    <2>2. IsFiniteSet(CutShort) /\ Cardinality(CutShort) <= history.cuts
      BY DEF FileInv, CutInv
    <2>3. /\ IsFiniteSet(CutShort') /\ Cardinality(CutShort') \in Nat
          /\ Cardinality(CutShort) \in Nat /\ Cardinality(CutShort') <= Cardinality(CutShort) + 1
      BY <2>1, <2>2, OneMore
    <2>4. Cardinality(CutShort') <= history'.cuts
      BY <1>13, <2>2, <2>3
    <2> QED
      BY <2>3, <2>4 DEF CutInv
  <1>16. Types' /\ (~exists' => file' = << >>)
    BY <1>2, <1>12, <1>13 DEF FileInv, Types
  <1> QED
    BY <1>12, <1>14, <1>15, <1>16 DEF FileInv

-----------------------------------------------------------------------------
(* The invariant holds.                                                    *)

LEMMA EmptyFile ==
    ASSUME NEW i
    PROVE  ~Broken(<< >>, i)
  BY DEF Broken

LEMMA ClearKeeps ==
    ASSUME FileInv, Clear
    PROVE  FileInv'
  <1>1. /\ exists' = TRUE /\ file' = << >> /\ UNCHANGED injector
        /\ history' = [history EXCEPT !.clears = @ + 1, !.whole = {}]
    BY DEF Clear
  <1>2. history \in [clears : Nat, cuts : Nat, whole : SUBSET Injectors]
    BY DEF FileInv, Types
  <1> PICK h \in [clears : Nat, cuts : Nat, whole : SUBSET Injectors] : h = history
    BY <1>2
  <1> PICK n \in Nat : n = h.clears + 1
    OBVIOUS
  <1>10. history' = [h EXCEPT !.clears = n, !.whole = {}]
    BY <1>1
  <1>3. /\ history' \in [clears : Nat, cuts : Nat, whole : SUBSET Injectors]
        /\ history'.cuts = history.cuts /\ history'.whole = {} /\ history.cuts \in Nat
    <2>1. history' \in [clears : Nat, cuts : Nat, whole : SUBSET Injectors]
      BY <1>10
    <2>2. history'.cuts = h.cuts /\ history'.whole = {} /\ h.cuts \in Nat
      BY <1>10
    <2> QED
      BY <2>1, <2>2
  <1>4. Types'
    BY <1>1, <1>3 DEF FileInv, Types
  <1>5. \A j \in Injectors : Writing(injector[j], j)'
    BY <1>1 DEF FileInv, Writing
  <1>6. LossInv'
    <2>1. Lost' = {} /\ ~Dirty'
      BY <1>1, <1>3 DEF Lost, Dirty
    <2>2. IsFiniteSet({}) /\ Cardinality({}) = 0
      BY FS_EmptySet
    <2> QED
      BY <1>3, <2>1, <2>2 DEF LossInv
  <1>7. CutInv'
    <2>1. CutShort' \subseteq CutShort
      BY <1>1, EmptyFile DEF CutShort
    <2>2. IsFiniteSet(CutShort) /\ Cardinality(CutShort) <= history.cuts
      BY DEF FileInv, CutInv
    <2>3. /\ IsFiniteSet(CutShort') /\ Cardinality(CutShort') \in Nat
          /\ Cardinality(CutShort) \in Nat /\ Cardinality(CutShort') <= Cardinality(CutShort)
      BY <2>1, <2>2, OneMore
    <2>4. Cardinality(CutShort') <= history'.cuts
      BY <1>3, <2>2, <2>3
    <2> QED
      BY <2>3, <2>4 DEF CutInv
  <1> QED
    BY <1>1, <1>4, <1>5, <1>6, <1>7 DEF FileInv

LEMMA InitHolds ==
    ASSUME Init
    PROVE  FileInv
  <1>1. /\ exists = FALSE /\ file = << >> /\ injector = [i \in Injectors |-> Started]
        /\ history = [clears |-> 0, cuts |-> 0, whole |-> {}]
    BY DEF Init
  <1>2. << >> \in Seq(Pieces)
    OBVIOUS
  <1>3. Started \in InjectorRecord
    BY <1>2 DEF Started, InjectorRecord
  <1>4. Types
    BY <1>1, <1>2, <1>3 DEF Types
  <1>5. \A i \in Injectors : Writing(injector[i], i)
    BY <1>1 DEF Writing, Started
  <1>6. IsFiniteSet({}) /\ Cardinality({}) = 0
    BY FS_EmptySet
  <1>7. Lost = {} /\ ~Dirty
    BY <1>1 DEF Lost, Dirty
  <1>8. CutShort = {}
    BY <1>1, EmptyFile DEF CutShort, Partway, Started
  <1> QED
    BY <1>1, <1>4, <1>5, <1>6, <1>7, <1>8 DEF FileInv, LossInv, CutInv

LEMMA OthersKeep ==
    ASSUME FileInv, UNCHANGED <<exists, file, injector, history>>
    PROVE  FileInv'
  BY DEF FileInv, Types, Writing, LossInv, Lost, Dirty, CutInv, CutShort, Partway

LEMMA NextKeeps ==
    ASSUME FileInv, [Next]_vars
    PROVE  FileInv'
  <1>1. ASSUME NEW i \in Injectors, Inject(i) PROVE FileInv'
    BY <1>1, QuietKeeps, WriteRestKeeps, WriteShortKeeps DEF Inject
  <1>2. ASSUME NEW r \in Requests, Serve(r) PROVE FileInv'
    BY <1>2, OthersKeep DEF Serve, OpenFaults, ScanSome, ScanEnd, ScanFails
  <1>3. CASE UNCHANGED vars
    BY <1>3, OthersKeep DEF vars
  <1> QED
    BY <1>1, <1>2, <1>3, ClearKeeps DEF Next

LEMMA FileInvariant == Spec => []FileInv
  BY InitHolds, NextKeeps, PTL DEF Spec

-----------------------------------------------------------------------------
(* The theorems about the file.                                            *)

\* However often writes come back short, whoever then goes on, dies or fails, no more
\* lines written in one piece are lost to the reader than there were short writes.
THEOREM LossesAreBounded == Spec => []LossBounded
  <1>1. ASSUME FileInv PROVE LossBounded
    <2>1. file \in Seq(Pieces) /\ history.cuts \in Nat /\ history.whole \subseteq Injectors
      BY <1>1 DEF FileInv, Types
    <2>2. \A i \in Injectors : Readable(file, i) => Contains(Events(file), <<i, i>>)
      BY <2>1, ReadableIsEvent
    <2>3. Unreadable \subseteq Lost
      BY <2>1, <2>2 DEF Unreadable, Lost
    <2>4. IsFiniteSet(Lost) /\ Cardinality(Lost) + (IF Dirty THEN 1 ELSE 0) <= history.cuts
      BY <1>1 DEF FileInv, LossInv
    <2>5. /\ Cardinality(Unreadable) \in Nat /\ Cardinality(Lost) \in Nat
          /\ Cardinality(Unreadable) <= Cardinality(Lost)
      BY <2>3, <2>4, OneMore
    <2>6. Cardinality(Unreadable) <= history.cuts
      BY <2>1, <2>4, <2>5
    <2> QED
      BY <2>6 DEF LossBounded
  <1> QED
    BY <1>1, FileInvariant, PTL

\* An event that no injector has reported takes the halves of two injectors, each torn
\* from its other half by a short write of its own.
THEOREM FabricationsTakeTwo == Spec => []FabricationTakesTwo
  <1>1. ASSUME FileInv PROVE FabricationTakesTwo
    <2> SUFFICES ASSUME NEW n \in DOMAIN Events(file),
                        Events(file)[n][1] # Events(file)[n][2]
                 PROVE  history.cuts >= 2
      BY DEF FabricationTakesTwo
    <2>1. file \in Seq(Pieces) /\ history.cuts \in Nat
      BY <1>1 DEF FileInv, Types
    <2>2. PICK k \in EventEnds(file) : Events(file)[n] = EventTo(file, k)
      BY <2>1, EventsAre
    <2>3. PICK p \in 1 .. Len(file) :
              /\ p + 1 <= Len(file)
              /\ file[p].half = 1 /\ file[p + 1].half = 2
              /\ EventTo(file, k) = <<file[p].of, file[p + 1].of>>
      BY <2>1, EventIs
    <2>4. Len(file) \in Nat /\ p \in Nat /\ p + 1 \in 1 .. Len(file)
      BY <2>1, <2>3, LenProperties
    <2>5. file[p] \in Pieces /\ file[p + 1] \in Pieces
      BY <2>1, <2>4
    <2>6. PICK a \in Injectors : file[p] = Half(a, 1)
      BY <2>3, <2>5, PiecesDiffer DEF Pieces
    <2>7. PICK b \in Injectors : file[p + 1] = Half(b, 2)
      BY <2>3, <2>5, PiecesDiffer DEF Pieces
    <2>8. a # b
      BY <2>2, <2>3, <2>6, <2>7, PiecesDiffer
    <2>9. Half(a, 1) # Half(b, 1) /\ Half(a, 2) # Half(b, 2)
      BY <2>8, PiecesDiffer
    <2>10. Broken(file, a)
      BY <2>6, <2>7, <2>9 DEF Broken
    <2>11. Broken(file, b)
      <3>1. p + 1 - 1 = p
        BY <2>4
      <3> QED
        BY <2>4, <2>6, <2>7, <2>9, <3>1 DEF Broken
    <2>12. a \in CutShort /\ b \in CutShort
      BY <2>10, <2>11 DEF CutShort
    <2>13. IsFiniteSet(CutShort) /\ Cardinality(CutShort) <= history.cuts
      BY <1>1 DEF FileInv, CutInv
    <2>14. Cardinality(CutShort) >= 2 /\ Cardinality(CutShort) \in Nat
      BY <2>8, <2>12, <2>13, TwoOf, FS_CardinalityType
    <2> QED
      BY <2>1, <2>13, <2>14
  <1> QED
    BY <1>1, FileInvariant, PTL

-----------------------------------------------------------------------------
(* The requests.                                                           *)

Answers == {<< >>, Failure} \cup {Shown(s) : s \in Seq(Pieces)}

RequestRecord ==
    [pc : {"new", "scan", "answered"}, seen : Seq(Pieces), disturbed : BOOLEAN,
     answer : Answers]

\* s, as far as it goes, is what t starts with.
Starts(s, t) == Len(s) <= Len(t) /\ \A k \in 1 .. Len(s) : s[k] = t[k]

\* x: a request.  What it has read is the start of the file, if that was not cut.
Following(x) == /\ x.pc = "new" => x.seen = << >>
                /\ x.pc = "scan" /\ ~x.disturbed => Starts(x.seen, file)

ReadInv ==
    /\ request \in [Requests -> RequestRecord]
    /\ \A r \in Requests : Following(request[r])

\* A step of r to x.
LEMMA ReadStep ==
    ASSUME ReadInv, NEW r \in Requests, NEW x \in RequestRecord,
           request' = [request EXCEPT ![r] = x], UNCHANGED file, Following(x)
    PROVE  /\ ReadInv' /\ request'[r] = x
           /\ \A q \in Requests : q # r => request'[q] = request[q]
  <1>1. /\ request' \in [Requests -> RequestRecord] /\ request'[r] = x
        /\ \A q \in Requests : q # r => request'[q] = request[q]
    BY DEF ReadInv
  <1>2. ASSUME NEW q \in Requests PROVE Following(request[q])'
    <2>1. CASE q = r
      BY <1>1, <2>1 DEF Following
    <2>2. CASE q # r
      BY <1>1, <2>2 DEF ReadInv, Following
    <2> QED
      BY <2>1, <2>2
  <1> QED
    BY <1>1, <1>2 DEF ReadInv

\* Whatever is appended, what was read stays the start of the file.
LEMMA AppendKeepsReads ==
    ASSUME FileInv, ReadInv, UNCHANGED request,
           NEW u \in Seq(Pieces), file' = file \o u
    PROVE  ReadInv'
  <1>1. file \in Seq(Pieces)
    BY DEF FileInv, Types
  <1>2. /\ Len(file) \in Nat /\ Len(file') \in Nat /\ Len(file) <= Len(file')
        /\ \A k \in 1 .. Len(file) : file'[k] = file[k]
    BY <1>1, Appended
  <1>3. ASSUME NEW r \in Requests PROVE Following(request[r])'
    <2>1. request[r].seen \in Seq(Pieces)
      BY DEF ReadInv, RequestRecord
    <2>2. Len(request[r].seen) \in Nat
      BY <2>1, LenProperties
    <2>3. Starts(request[r].seen, file) => Starts(request[r].seen, file')
      <3> PICK s \in Seq(Pieces) : s = request[r].seen
        BY <2>1
      <3> SUFFICES ASSUME Starts(s, file) PROVE Starts(s, file')
        OBVIOUS
      <3>1. Len(s) \in Nat /\ Len(s) <= Len(file) /\ \A k \in 1 .. Len(s) : s[k] = file[k]
        BY <2>2 DEF Starts
      <3>2. Len(s) <= Len(file')
        BY <1>2, <3>1
      <3>3. \A k \in 1 .. Len(s) : k \in 1 .. Len(file)
        BY <1>2, <3>1
      <3> QED
        BY <1>2, <3>1, <3>2, <3>3 DEF Starts
    <2> QED
      BY <2>3 DEF ReadInv, Following
  <1> QED
    BY <1>3 DEF ReadInv

LEMMA InjectKeepsReads ==
    ASSUME FileInv, ReadInv, NEW i \in Injectors, Inject(i)
    PROVE  ReadInv'
  <1>1. CASE WriteRest(i) \/ WriteShort(i)
    <2>1. injector[i].left \in Lefts(i) /\ UNCHANGED request
      BY <1>1 DEF WriteRest, WriteShort, At, FileInv, Writing
    <2>2. PICK y \in Lefts(i) : y = injector[i].left
      BY <2>1
    <2>3. Len(y) \in {1, 2, 3}
      <3>1. \E m \in {0, 1, 2} : Len(y) = 3 - m
        BY LeftPieces
      <3> QED
        BY <3>1
    <2>4. \E n \in 1 .. Len(y) : file' = file \o SubSeq(y, 1, n)
      <3>1. CASE WriteRest(i)
        <4>1. file' = file \o SubSeq(y, 1, Len(y))
          BY <2>2, <3>1 DEF WriteRest, Written
        <4>2. Len(y) \in 1 .. Len(y)
          BY <2>3
        <4> QED
          BY <4>1, <4>2
      <3>2. CASE WriteShort(i)
        <4>1. \E n \in 1 .. Len(y) - 1 : file' = file \o SubSeq(y, 1, n)
          BY <2>2, <3>2 DEF WriteShort, Written
        <4>2. 1 .. Len(y) - 1 \subseteq 1 .. Len(y)
          BY <2>3
        <4> QED
          BY <4>1, <4>2
      <3> QED
        BY <1>1, <3>1, <3>2
    <2>5. PICK n \in 1 .. Len(y) : file' = file \o SubSeq(y, 1, n)
      BY <2>4
    <2>6. SubSeq(y, 1, n) \in Seq(Pieces)
      BY PiecesOf
    <2> QED
      BY <2>1, <2>5, <2>6, AppendKeepsReads
  <1>2. CASE UNCHANGED <<file, request>>
    BY <1>2 DEF ReadInv, Following, Starts
  <1> QED
    BY <1>1, <1>2 DEF Inject, Abort, Strike, Return, OpenTimeline, LogFails, Kill

LEMMA ClearKeepsReads ==
    ASSUME ReadInv, Clear
    PROVE  ReadInv'
  <1>1. request' = [r \in Requests |->
            IF request[r].pc = "scan" THEN [request[r] EXCEPT !.disturbed = TRUE]
            ELSE request[r]]
    BY DEF Clear
  <1>2. ASSUME NEW r \in Requests
        PROVE  request'[r] \in RequestRecord /\ Following(request[r])'
    <2>1. PICK y \in RequestRecord : y = request[r]
      BY DEF ReadInv
    <2>2. CASE y.pc = "scan"
      <3>1. PICK x : x = [y EXCEPT !.disturbed = TRUE]
        OBVIOUS
      <3>2. x \in RequestRecord /\ x.pc = "scan" /\ x.disturbed
        BY <2>2, <3>1 DEF RequestRecord
      <3>3. request'[r] = x
        BY <1>1, <2>1, <2>2, <3>1
      <3> QED
        BY <3>2, <3>3 DEF Following
    <2>3. CASE y.pc # "scan"
      <3>1. request'[r] = y
        BY <1>1, <2>1, <2>3
      <3> QED
        BY <2>1, <2>3, <3>1 DEF ReadInv, Following
    <2> QED
      BY <2>2, <2>3
  <1> QED
    BY <1>1, <1>2 DEF ReadInv

LEMMA AnswerStep ==
    ASSUME ReadInv, NEW r \in Requests, NEW a \in Answers, Answer(r, a), UNCHANGED file
    PROVE  /\ ReadInv' /\ request'[r].answer = a
           /\ \A q \in Requests : q # r => request'[q] = request[q]
  <1>1. PICK y \in RequestRecord : y = request[r]
    BY DEF ReadInv
  <1>2. PICK x : x = [y EXCEPT !.pc = "answered", !.answer = a, !.seen = << >>]
    OBVIOUS
  <1>3. << >> \in Seq(Pieces)
    OBVIOUS
  <1>4. x \in RequestRecord /\ x.pc = "answered" /\ x.answer = a
    BY <1>2, <1>3 DEF RequestRecord
  <1>5. request' = [request EXCEPT ![r] = x]
    BY <1>1, <1>2 DEF Answer, ReadInv
  <1>6. Following(x)
    BY <1>4 DEF Following
  <1> QED
    BY <1>4, <1>5, <1>6, ReadStep

LEMMA NothingShown == Shown(<< >>) = << >>
  <1>1. << >> \in Seq(Pieces) /\ Len(<< >>) = 0
    OBVIOUS
  <1>2. EventEnds(<< >>) = {}
    <2> SUFFICES ASSUME NEW k \in EventEnds(<< >>) PROVE FALSE
      OBVIOUS
    <2>1. \E p \in 1 .. Len(<< >>) : TRUE
      BY <1>1, EventIs
    <2> QED
      BY <1>1, <2>1
  <1>3. PICK c : c = Cardinality(EventEnds(<< >>))
    OBVIOUS
  <1>4. c = 0
    BY <1>2, <1>3, FS_EmptySet
  <1>5. Events(<< >>) = [n \in 1 .. c |-> EventTo(<< >>, Nth(EventEnds(<< >>), n))]
    BY <1>3 DEF Events
  <1>6. Events(<< >>) = << >>
    BY <1>4, <1>5
  <1>7. ~TooLong(<< >>)
    BY DEF TooLong
  <1>8. SubSeq(<< >>, 1, Len(<< >>)) = << >>
    BY <1>1
  <1>9. ~(Len(<< >>) > MaxEvents)
    BY <1>1, BoundsAssumption
  <1> QED
    BY <1>6, <1>7, <1>8, <1>9 DEF Shown

LEMMA OpenKeepsReads ==
    ASSUME FileInv, ReadInv, NEW r \in Requests, OpenFaults(r)
    PROVE  /\ ReadInv' /\ \A q \in Requests : q # r => request'[q] = request[q]
           /\ request'[r].pc = "answered" /\ request'[r].answer # Failure
                  => request'[r].answer = Shown(file)
  <1>1. PICK y \in RequestRecord : y = request[r]
    BY DEF ReadInv
  <1>2. UNCHANGED file /\ y.pc = "new" /\ y.seen = << >> /\ file \in Seq(Pieces)
    BY <1>1 DEF OpenFaults, ReadInv, Following, FileInv, Types
  <1>3. CASE request' = [request EXCEPT ![r].pc = "scan"]
    <2>1. PICK x : x = [y EXCEPT !.pc = "scan"]
      OBVIOUS
    <2>2. x \in RequestRecord /\ x.pc = "scan" /\ x.seen = << >>
      BY <1>2, <2>1 DEF RequestRecord
    <2>3. request' = [request EXCEPT ![r] = x]
      BY <1>1, <1>3, <2>1 DEF ReadInv
    <2>4. Starts(<< >>, file)
      <3>1. Len(<< >>) = 0 /\ Len(file) \in Nat
        BY <1>2, LenProperties
      <3> QED
        BY <3>1 DEF Starts
    <2>5. Following(x)
      BY <2>2, <2>4 DEF Following
    <2> QED
      BY <1>2, <2>2, <2>3, <2>5, ReadStep
  <1>4. CASE ~exists /\ Answer(r, << >>)
    <2>1. Shown(file) = << >>
      BY <1>4, NothingShown DEF FileInv
    <2>2. << >> \in Answers
      BY DEF Answers
    <2> QED
      BY <1>2, <1>4, <2>1, <2>2, AnswerStep
  <1>5. CASE Answer(r, Failure)
    <2>1. Failure \in Answers
      BY DEF Answers
    <2> QED
      BY <1>2, <1>5, <2>1, AnswerStep
  <1> QED
    BY <1>3, <1>4, <1>5 DEF OpenFaults

\* A read goes on where the last one ended.
LEMMA ScanKeepsReads ==
    ASSUME FileInv, ReadInv, NEW r \in Requests, ScanSome(r)
    PROVE  /\ ReadInv' /\ \A q \in Requests : q # r => request'[q] = request[q]
           /\ request'[r].pc = "answered" => request'[r].answer = Failure
  <1>1. PICK y \in RequestRecord : y = request[r]
    BY DEF ReadInv
  <1>2. /\ UNCHANGED file /\ y.pc = "scan" /\ y.seen \in Seq(Pieces) /\ file \in Seq(Pieces)
        /\ ~y.disturbed => Starts(y.seen, file)
    BY <1>1 DEF ScanSome, ReadInv, Following, RequestRecord, FileInv, Types
  <1>3. PICK m \in Nat : m = Len(y.seen)
    BY <1>2, LenProperties
  <1>4. PICK n \in 1 .. Len(file) - m :
            IF TooLong(y.seen \o SubSeq(file, m + 1, m + n)) THEN Answer(r, Failure)
            ELSE request' = [request EXCEPT ![r].seen =
                                 y.seen \o SubSeq(file, m + 1, m + n)]
    BY <1>1, <1>3 DEF ScanSome
  <1>5. CASE Answer(r, Failure)
    <2>1. Failure \in Answers
      BY DEF Answers
    <2> QED
      BY <1>2, <1>5, <2>1, AnswerStep
  <1>6. CASE request' = [request EXCEPT ![r].seen = y.seen \o SubSeq(file, m + 1, m + n)]
    <2>1. PICK u : u = SubSeq(file, m + 1, m + n)
      OBVIOUS
    <2>2. Len(file) \in Nat /\ n \in Nat /\ m + n <= Len(file)
      BY <1>2, LenProperties
    <2>3. u \in Seq(Pieces) /\ Len(u) = n /\ \A k \in 1 .. n : u[k] = file[m + k]
      <3>1. \A k \in 1 .. n : m + 1 + k - 1 = m + k
        BY <2>2
      <3>2. u \in Seq(Pieces)
        BY <1>2, <2>1, <2>2
      <3>3. Len(u) = n
        BY <1>2, <2>1, <2>2
      <3>4. \A k \in 1 .. n : u[k] = file[m + 1 + k - 1]
        BY <1>2, <2>1, <2>2
      <3> QED
        BY <3>1, <3>2, <3>3, <3>4
    <2>4. PICK v : v = y.seen \o u
      OBVIOUS
    <2>5. /\ v \in Seq(Pieces) /\ Len(v) = m + n
          /\ \A k \in 1 .. m : v[k] = y.seen[k]
          /\ \A k \in 1 .. n : v[m + k] = u[k]
      BY <1>2, <1>3, <2>3, <2>4, Appended
    <2>6. ASSUME Starts(y.seen, file) PROVE Starts(v, file)
      <3>1. \A k \in 1 .. m : y.seen[k] = file[k]
        BY <1>3, <2>6 DEF Starts
      <3>2. ASSUME NEW k \in 1 .. m + n PROVE v[k] = file[k]
        <4>1. CASE k <= m
          BY <2>5, <3>1, <4>1
        <4>2. CASE k > m
          <5>1. PICK j \in 1 .. n : m + j = k
            <6>1. k - m \in 1 .. n /\ m + (k - m) = k
              BY <2>2, <4>2
            <6> QED
              BY <6>1
          <5>2. v[m + j] = u[j] /\ u[j] = file[m + j]
            BY <2>3, <2>5
          <5> QED
            BY <5>1, <5>2
        <4> QED
          BY <4>1, <4>2
      <3> QED
        BY <2>2, <2>5, <3>2 DEF Starts
    <2>7. PICK x : x = [y EXCEPT !.seen = v]
      OBVIOUS
    <2>8. /\ x \in RequestRecord /\ x.pc = "scan" /\ x.seen = v
          /\ x.disturbed = y.disturbed
      BY <1>2, <2>5, <2>7 DEF RequestRecord
    <2>9. request' = [request EXCEPT ![r] = x]
      BY <1>1, <1>6, <2>1, <2>4, <2>7 DEF ReadInv
    <2>10. Following(x)
      BY <1>2, <2>6, <2>8 DEF Following
    <2> QED
      BY <1>2, <2>8, <2>9, <2>10, ReadStep
  <1> QED
    BY <1>4, <1>5, <1>6

\* At the end of the file, all of it was read.
LEMMA EndKeepsReads ==
    ASSUME FileInv, ReadInv, NEW r \in Requests, ScanEnd(r)
    PROVE  /\ ReadInv' /\ \A q \in Requests : q # r => request'[q] = request[q]
           /\ ~request[r].disturbed => request'[r].answer = Shown(file)
  <1>1. PICK y \in RequestRecord : y = request[r]
    BY DEF ReadInv
  <1>2. /\ UNCHANGED file /\ y.pc = "scan" /\ y.seen \in Seq(Pieces) /\ file \in Seq(Pieces)
        /\ ~y.disturbed => Starts(y.seen, file)
        /\ Len(y.seen) >= Len(file) /\ Answer(r, Shown(y.seen))
    BY <1>1 DEF ScanEnd, ReadInv, Following, RequestRecord, FileInv, Types
  <1>3. Shown(y.seen) \in Answers
    BY <1>2 DEF Answers
  <1>4. ASSUME Starts(y.seen, file) PROVE y.seen = file
    <2>1. Len(y.seen) \in Nat /\ Len(file) \in Nat
      BY <1>2, LenProperties
    <2>2. Len(y.seen) = Len(file) /\ \A k \in 1 .. Len(y.seen) : y.seen[k] = file[k]
      BY <1>2, <1>4, <2>1 DEF Starts
    <2> QED
      BY <1>2, <2>2, SeqEqual
  <1>5. /\ ReadInv' /\ request'[r].answer = Shown(y.seen)
        /\ \A q \in Requests : q # r => request'[q] = request[q]
    BY <1>2, <1>3, AnswerStep
  <1> QED
    BY <1>1, <1>2, <1>4, <1>5

LEMMA FailKeepsReads ==
    ASSUME ReadInv, NEW r \in Requests, ScanFails(r)
    PROVE  /\ ReadInv' /\ \A q \in Requests : q # r => request'[q] = request[q]
           /\ request'[r].answer = Failure
  <1>1. Failure \in Answers
    BY DEF Answers
  <1> QED
    BY <1>1, AnswerStep DEF ScanFails

\* What a step answers is what the file holds.
SnapshotStep ==
    \A r \in Requests :
        AnsweredNow(r) /\ ~request[r].disturbed /\ request'[r].answer # Failure
            => request'[r].answer = Shown(file)

LEMMA NextReads ==
    ASSUME FileInv, ReadInv, [Next]_vars
    PROVE  ReadInv' /\ SnapshotStep
  <1>1. ASSUME \A r \in Requests : request'[r].pc = request[r].pc
        PROVE  SnapshotStep
    BY <1>1 DEF SnapshotStep, AnsweredNow
  <1>2. ASSUME NEW i \in Injectors, Inject(i) PROVE ReadInv' /\ SnapshotStep
    <2>1. UNCHANGED request
      BY <1>2 DEF Inject, Abort, Strike, Return, OpenTimeline, WriteRest, WriteShort, LogFails,
                  Kill
    <2> QED
      BY <1>1, <1>2, <2>1, InjectKeepsReads
  <1>3. CASE Clear
    <2>1. ASSUME NEW r \in Requests PROVE request'[r].pc = request[r].pc
      <3>1. PICK y \in RequestRecord : y = request[r]
        BY DEF ReadInv
      <3>2. [y EXCEPT !.disturbed = TRUE].pc = y.pc
        BY DEF RequestRecord
      <3>3. request'[r] = IF y.pc = "scan" THEN [y EXCEPT !.disturbed = TRUE] ELSE y
        BY <1>3, <3>1 DEF Clear
      <3> QED
        BY <3>1, <3>2, <3>3
    <2> QED
      BY <1>1, <1>3, <2>1, ClearKeepsReads
  <1>4. ASSUME NEW r \in Requests, Serve(r) PROVE ReadInv' /\ SnapshotStep
    <2>1. /\ ReadInv' /\ \A q \in Requests : q # r => request'[q] = request[q]
          /\ /\ request'[r].pc = "answered" /\ ~request[r].disturbed
             /\ request'[r].answer # Failure
             => request'[r].answer = Shown(file)
      BY <1>4, OpenKeepsReads, ScanKeepsReads, EndKeepsReads, FailKeepsReads DEF Serve
    <2>2. ASSUME NEW q \in Requests, AnsweredNow(q), ~request[q].disturbed,
                 request'[q].answer # Failure
          PROVE  request'[q].answer = Shown(file)
      <3>1. request'[q].pc = "answered" /\ request'[q] # request[q]
        BY <2>2 DEF AnsweredNow
      <3>2. q = r
        BY <2>1, <3>1
      <3> QED
        BY <2>1, <2>2, <3>1, <3>2
    <2> QED
      BY <2>1, <2>2 DEF SnapshotStep
  <1>5. CASE UNCHANGED vars
    <2>1. ReadInv'
      BY <1>5 DEF vars, ReadInv, Following, Starts
    <2> QED
      BY <1>1, <1>5, <2>1 DEF vars
  <1> QED
    BY <1>2, <1>3, <1>4, <1>5 DEF Next

LEMMA InitReads ==
    ASSUME Init
    PROVE  ReadInv
  <1>1. request = [r \in Requests |-> Waiting]
    BY DEF Init
  <1>2. << >> \in Seq(Pieces)
    OBVIOUS
  <1>3. Waiting \in RequestRecord /\ Following(Waiting)
    BY <1>2 DEF Waiting, RequestRecord, Answers, Following
  <1> QED
    BY <1>1, <1>3 DEF ReadInv

\* A list answered while injectors append is what the timeline holds at that moment, in
\* however many reads it was taken, unless it was cleared meanwhile.
THEOREM ReadsAreSnapshots == Spec => ReadIsSnapshot
  <1>1. Init => ReadInv
    BY InitReads
  <1>2. FileInv /\ ReadInv /\ [Next]_vars => ReadInv'
    BY NextReads
  <1>3. FileInv /\ ReadInv /\ [Next]_vars => [SnapshotStep]_vars
    BY NextReads
  <1>4. [SnapshotStep]_vars <=>
            [\A r \in Requests :
                 AnsweredNow(r) /\ ~request[r].disturbed /\ request'[r].answer # Failure
                     => request'[r].answer = Shown(file)]_vars
    BY DEF SnapshotStep
  <1> QED
    BY <1>1, <1>2, <1>3, <1>4, FileInvariant, PTL DEF Spec, ReadIsSnapshot
=============================================================================
