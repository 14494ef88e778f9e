----------------------------- MODULE Rio_proofs -----------------------------
(***************************************************************************)
(* Lines are read as they were written.  The first part is that a stream   *)
(* keeps its characters in order: every step moves a piece from the front  *)
(* of one of its sections to the end of the section before.  The second is *)
(* that the reader's lines begin and end where the writer's do, because    *)
(* the characters it holds are a window of those that were sent.           *)
(***************************************************************************)
EXTENDS Rio, SequenceTheorems, TLAPS

LEMMA FirstRest ==
  ASSUME NEW s \in Seq(Chars), NEW n \in 0 .. Len(s)
  PROVE  /\ First(s, n) \in Seq(Chars) /\ Rest(s, n) \in Seq(Chars)
         /\ First(s, n) \o Rest(s, n) = s
         /\ Len(First(s, n)) = n
         /\ \A i \in 1 .. n : First(s, n)[i] = s[i]
<1>1. Len(s) \in Nat /\ \A i \in 1 .. Len(s) : s[i] \in Chars
  BY LenProperties, ElementOfSeq
<1>2. First(s, n) \in Seq(Chars) /\ Len(First(s, n)) = n
      /\ \A i \in 1 .. n : First(s, n)[i] = s[i]
  BY <1>1, SubSeqProperties DEF First
<1>3. Rest(s, n) \in Seq(Chars)
  BY <1>1, SubSeqProperties DEF Rest
<1>4. SubSeq(s, 1, n) \o SubSeq(s, n + 1, Len(s)) = SubSeq(s, 1, Len(s))
  <2>1. 1 \in 1 .. Len(s) + 1 /\ n \in 1 - 1 .. Len(s) /\ Len(s) \in n .. Len(s)
    BY <1>1
  <2> QED BY <2>1, ConcatAdjacentSubSeq
<1>5. SubSeq(s, 1, Len(s)) = s
  BY SubSeqFull
<1> QED BY <1>2, <1>3, <1>4, <1>5 DEF First, Rest

Associate(a, b, c) == (a \o b) \o c = a \o (b \o c)

LEMMA Associates ==
  ASSUME NEW a \in Seq(Chars), NEW b \in Seq(Chars), NEW c \in Seq(Chars)
  PROVE  Associate(a, b, c)
BY ConcatAssociative DEF Associate

(* A piece of c, or all of it, moves to the end of b.  These equations have *)
(* names so that the provers are not led to regroup without end.            *)
Moved(a, b, c, n) == (a \o (b \o First(c, n))) \o Rest(c, n) = (a \o b) \o c
MovedAll(a, b, c) == (a \o (b \o c)) \o <<>> = (a \o b) \o c

LEMMA Moves ==
  ASSUME NEW a \in Seq(Chars), NEW b \in Seq(Chars), NEW c \in Seq(Chars),
         NEW n \in 0 .. Len(c)
  PROVE  Moved(a, b, c, n)
<1>1. PICK f \in Seq(Chars) : f = First(c, n)
  BY FirstRest
<1>2. PICK r \in Seq(Chars) : r = Rest(c, n)
  BY FirstRest
<1>3. f \o r = c
  BY <1>1, <1>2, FirstRest
<1>4. PICK ab \in Seq(Chars) : ab = a \o b
  BY ConcatProperties
<1>5. PICK bf \in Seq(Chars) : bf = b \o f
  BY ConcatProperties
<1>6. Associate(a, b, f) /\ Associate(ab, f, r)
  BY Associates
<1>7. (a \o b) \o f = a \o (b \o f) /\ (ab \o f) \o r = ab \o (f \o r)
  BY <1>6 DEF Associate
<1>8. (a \o bf) \o r = ab \o c
  BY <1>3, <1>4, <1>5, <1>6, <1>7
<1> QED BY <1>1, <1>2, <1>4, <1>5, <1>8 DEF Moved

LEMMA AllMoves ==
  ASSUME NEW a \in Seq(Chars), NEW b \in Seq(Chars), NEW c \in Seq(Chars)
  PROVE  MovedAll(a, b, c)
<1>1. a \o (b \o c) = (a \o b) \o c
  BY ConcatAssociative
<1>2. a \o b \in Seq(Chars) /\ (a \o b) \o c \in Seq(Chars)
  BY ConcatProperties
<1> QED BY <1>1, <1>2, ConcatEmptySeq DEF MovedAll

-----------------------------------------------------------------------------
LEMMA PeerOfEnd ==
  ASSUME NEW e \in Ends
  PROVE  Peer(e) \in Ends /\ Peer(Peer(e)) = e /\ Peer(e) # e
BY DEF Ends, Sides, Peer

LEMMA LimitIsPositive == Limit \in Nat /\ Limit > 0
BY MaxLenAssumption DEF Limit

(* What a reading end holds, before what its peer has left to write. *)
Taken(e) == read[e] \o got[e]
Arrived(e) == read[e] \o got[e] \o buf[e] \o wire[e]

LEMMA StreamTypes ==
  ASSUME RioTypeOK, NEW e \in Ends
  PROVE  /\ unsent[e] \in Seq(Chars) /\ wire[e] \in Seq(Chars) /\ buf[e] \in Seq(Chars)
         /\ got[e] \in Seq(Chars) /\ sent[e] \in Seq(Chars) /\ read[e] \in Seq(Chars)
         /\ Taken(e) \in Seq(Chars) /\ Taken(e) \o buf[e] \in Seq(Chars)
         /\ Arrived(e) \in Seq(Chars)
         /\ Len(unsent[e]) \in Nat /\ Len(wire[e]) \in Nat /\ Len(buf[e]) \in Nat
         /\ Len(got[e]) \in Nat /\ Len(read[e]) \in Nat
<1>1. /\ unsent[e] \in Seq(Chars) /\ wire[e] \in Seq(Chars) /\ buf[e] \in Seq(Chars)
      /\ got[e] \in Seq(Chars) /\ sent[e] \in Seq(Chars) /\ read[e] \in Seq(Chars)
  BY DEF RioTypeOK
<1>2. Taken(e) \in Seq(Chars)
  BY <1>1, ConcatProperties DEF Taken
<1>3. Taken(e) \o buf[e] \in Seq(Chars)
  BY <1>1, <1>2, ConcatProperties
<1>4. Arrived(e) = (Taken(e) \o buf[e]) \o wire[e]
  BY DEF Arrived, Taken
<1>5. Arrived(e) \in Seq(Chars)
  BY <1>1, <1>3, <1>4, ConcatProperties
<1> QED BY <1>1, <1>2, <1>3, <1>5, LenProperties

LEMMA SizesAreBounded ==
  ASSUME NEW a \in Nat, NEW b \in Int, NEW k \in Sizes(Smaller(a, b))
  PROVE  k \in 1 .. a
BY DEF Sizes, Smaller

-----------------------------------------------------------------------------
(* Type correctness. *)

LEMMA TypeInit == RioInit => RioTypeOK
BY DEF RioInit, RioTypeOK

LEMMA TypeStep ==
  ASSUME RioTypeOK, [RioNext]_rioVars
  PROVE  RioTypeOK'
<1> USE DEF RioTypeOK
<1>1. ASSUME NEW e \in Ends, NEW text \in Seq(Chars), StartWrite(e, text)
      PROVE  RioTypeOK'
  <2>1. sent[e] \o text \in Seq(Chars)
    BY ConcatProperties
  <2> QED BY <1>1, <2>1 DEF StartWrite
<1>2. ASSUME NEW e \in Ends, Write(e)
      PROVE  RioTypeOK'
  <2>1. Peer(e) \in Ends
    BY PeerOfEnd
  <2>2. PICK k \in Sizes(Smaller(Len(unsent[e]), Capacity - Len(wire[Peer(e)]))) :
          /\ wire' = [wire EXCEPT ![Peer(e)] = @ \o First(unsent[e], k)]
          /\ unsent' = [unsent EXCEPT ![e] = Rest(@, k)]
    BY <1>2 DEF Write
  <2>3. k \in 0 .. Len(unsent[e])
    BY <2>1, StreamTypes, SizesAssumption, SizesAreBounded
  <2>4. First(unsent[e], k) \in Seq(Chars) /\ Rest(unsent[e], k) \in Seq(Chars)
    BY <2>3, FirstRest
  <2>5. wire[Peer(e)] \o First(unsent[e], k) \in Seq(Chars)
    BY <2>1, <2>4, ConcatProperties
  <2> QED BY <1>2, <2>2, <2>4, <2>5 DEF Write
<1>3. ASSUME NEW e \in Ends, WriteLost(e)
      PROVE  RioTypeOK'
  <2>1. Peer(e) \in Ends
    BY PeerOfEnd
  <2>2. wire[Peer(e)] \o unsent[e] \in Seq(Chars)
    BY <2>1, ConcatProperties
  <2> QED BY <1>3, <2>2 DEF WriteLost
<1>4. ASSUME NEW e \in Ends, Refill(e)
      PROVE  RioTypeOK'
  <2> DEFINE k == Smaller(Len(wire[e]), BufSize)
  <2>1. k \in 0 .. Len(wire[e])
    BY StreamTypes, SizesAssumption DEF Smaller
  <2>2. First(wire[e], k) \in Seq(Chars) /\ Rest(wire[e], k) \in Seq(Chars)
    BY <2>1, FirstRest
  <2>3. /\ buf' = [buf EXCEPT ![e] = First(wire[e], k)]
        /\ wire' = [wire EXCEPT ![e] = Rest(@, k)]
    BY <1>4 DEF Refill
  <2> QED BY <1>4, <2>2, <2>3 DEF Refill
<1>5. ASSUME NEW e \in Ends, Take(e)
      PROVE  RioTypeOK'
  <2>1. PICK n \in 1 .. Smaller(Len(buf[e]), Limit - Len(got[e])) :
          /\ got' = [got EXCEPT ![e] = @ \o First(buf[e], n)]
          /\ buf' = [buf EXCEPT ![e] = Rest(@, n)]
    BY <1>5 DEF Take
  <2>2. n \in 0 .. Len(buf[e])
    BY StreamTypes, LimitIsPositive DEF Smaller
  <2>3. First(buf[e], n) \in Seq(Chars) /\ Rest(buf[e], n) \in Seq(Chars)
    BY <2>2, FirstRest
  <2>4. got[e] \o First(buf[e], n) \in Seq(Chars)
    BY <2>3, ConcatProperties
  <2> QED BY <1>5, <2>1, <2>3, <2>4 DEF Take
<1>6. ASSUME NEW e \in Ends, EndCall(e)
      PROVE  RioTypeOK'
  <2>1. read[e] \o got[e] \in Seq(Chars)
    BY ConcatProperties
  <2> QED BY <1>6, <2>1 DEF EndCall
<1>7. ASSUME NEW e \in Ends, Close(e)
      PROVE  RioTypeOK'
  BY <1>7 DEF Close, streams
<1>8. ASSUME UNCHANGED rioVars
      PROVE  RioTypeOK'
  BY <1>8 DEF rioVars, streams
<1> QED BY <1>1, <1>2, <1>3, <1>4, <1>5, <1>6, <1>7, <1>8 DEF RioNext, ReturnsLine, ReturnsNone

-----------------------------------------------------------------------------
(* Order. *)

Kept(f) == Arrived(f) \o unsent[Peer(f)] = sent[Peer(f)]

LEMMA InOrderIsKept == InOrder <=> \A f \in Ends : Kept(f)
BY DEF InOrder, Kept, Arrived

LEMMA OrderInit == RioInit => InOrder
<1> SUFFICES ASSUME RioInit, NEW f \in Ends
             PROVE  Kept(f)
  BY InOrderIsKept
<1>1. Peer(f) \in Ends
  BY PeerOfEnd
<1>2. <<>> \in Seq(Chars) /\ <<>> \o <<>> = <<>>
  BY EmptySeq, ConcatEmptySeq
<1> QED BY <1>1, <1>2 DEF RioInit, Kept, Arrived

LEMMA OrderOfStart ==
  ASSUME RioTypeOK, InOrder, NEW e \in Ends, NEW text \in Seq(Chars), StartWrite(e, text),
         NEW f \in Ends
  PROVE  Kept(f)'
<1>1. Arrived(f)' = Arrived(f)
  BY DEF StartWrite, Arrived
<1>2. CASE Peer(f) = e
  <2>1. Arrived(f) \o <<>> = sent[e]
    BY <1>2, InOrderIsKept DEF Kept, StartWrite
  <2>2. Arrived(f) = sent[e]
    BY <2>1, StreamTypes, ConcatEmptySeq
  <2>3. unsent'[e] = text /\ sent'[e] = sent[e] \o text
    BY DEF StartWrite, RioTypeOK
  <2> QED BY <1>1, <1>2, <2>2, <2>3 DEF Kept
<1>3. CASE Peer(f) # e
  <2>1. unsent'[Peer(f)] = unsent[Peer(f)] /\ sent'[Peer(f)] = sent[Peer(f)]
    BY <1>3, PeerOfEnd DEF StartWrite, RioTypeOK
  <2> QED BY <1>1, <2>1, InOrderIsKept DEF Kept
<1> QED BY <1>2, <1>3

LEMMA OrderOfWrite ==
  ASSUME RioTypeOK, InOrder, NEW e \in Ends, Write(e) \/ WriteLost(e), NEW f \in Ends
  PROVE  Kept(f)'
<1>1. Taken(f)' = Taken(f) /\ buf' = buf /\ sent' = sent
  BY DEF Write, WriteLost, Taken
<1>2. Peer(e) \in Ends /\ Peer(f) \in Ends
  BY PeerOfEnd
<1>3. CASE f = Peer(e)
  <2> DEFINE a == Taken(f) \o buf[f]
  <2>1. Peer(f) = e
    BY <1>3, PeerOfEnd
  <2>2. (a \o wire'[f]) \o unsent'[e] = (a \o wire[f]) \o unsent[e]
    <3>1. a \in Seq(Chars) /\ wire[f] \in Seq(Chars) /\ unsent[e] \in Seq(Chars)
      BY StreamTypes
    <3>2. CASE Write(e)
      <4>1. PICK k \in Sizes(Smaller(Len(unsent[e]), Capacity - Len(wire[f]))) :
              /\ wire' = [wire EXCEPT ![f] = @ \o First(unsent[e], k)]
              /\ unsent' = [unsent EXCEPT ![e] = Rest(@, k)]
        BY <1>3, <3>2 DEF Write
      <4>2. k \in 0 .. Len(unsent[e])
        BY StreamTypes, SizesAssumption, SizesAreBounded
      <4>3. wire'[f] = wire[f] \o First(unsent[e], k) /\ unsent'[e] = Rest(unsent[e], k)
        BY <4>1 DEF RioTypeOK
      <4> HIDE DEF a
      <4>4. Moved(a, wire[f], unsent[e], k)
        BY <3>1, <4>2, Moves
      <4> QED BY <4>3, <4>4 DEF Moved
    <3>3. CASE WriteLost(e)
      <4>1. wire'[f] = wire[f] \o unsent[e] /\ unsent'[e] = <<>>
        BY <1>3, <3>3 DEF WriteLost, RioTypeOK
      <4> HIDE DEF a
      <4>2. MovedAll(a, wire[f], unsent[e])
        BY <3>1, AllMoves
      <4> QED BY <4>1, <4>2 DEF MovedAll
    <3> QED BY <3>2, <3>3
  <2>3. Arrived(f) = a \o wire[f] /\ Arrived(f)' = a \o wire'[f]
    BY <1>1 DEF Arrived, Taken
  <2>4. Arrived(f)' \o unsent'[e] = Arrived(f) \o unsent[e]
    BY <2>2, <2>3
  <2>5. Arrived(f) \o unsent[e] = sent[e]
    BY <2>1, InOrderIsKept DEF Kept
  <2> QED BY <1>1, <2>1, <2>4, <2>5 DEF Kept
<1>4. CASE f # Peer(e)
  <2>1. Peer(f) # e
    BY <1>4, PeerOfEnd
  <2>2. wire'[f] = wire[f] /\ unsent'[Peer(f)] = unsent[Peer(f)]
    BY <1>2, <1>4, <2>1 DEF Write, WriteLost, RioTypeOK
  <2> QED BY <1>1, <2>2, InOrderIsKept DEF Kept, Arrived, Taken
<1> QED BY <1>3, <1>4

LEMMA ArrivedStays ==
  ASSUME RioTypeOK, NEW e \in Ends, Refill(e) \/ Take(e) \/ EndCall(e), NEW f \in Ends
  PROVE  Arrived(f)' = Arrived(f)
<1>1. CASE f # e
  BY <1>1 DEF Arrived, Refill, Take, EndCall, RioTypeOK
<1>2. CASE f = e /\ Refill(e)
  <2> DEFINE k == Smaller(Len(wire[e]), BufSize)
  <2>1. k \in 0 .. Len(wire[e])
    BY StreamTypes, SizesAssumption DEF Smaller
  <2>2. Taken(e)' = Taken(e) /\ buf[e] = <<>>
    BY <1>2 DEF Refill, Taken
  <2>3. buf'[e] = First(wire[e], k) /\ wire'[e] = Rest(wire[e], k)
    BY <1>2 DEF Refill, RioTypeOK
  <2> HIDE DEF k
  <2>4. <<>> \in Seq(Chars) /\ <<>> \o First(wire[e], k) = First(wire[e], k)
    BY <2>1, FirstRest, StreamTypes, EmptySeq, ConcatEmptySeq
  <2>5. Moved(Taken(e), <<>>, wire[e], k)
    BY <2>1, <2>4, StreamTypes, Moves
  <2>6. (Taken(e) \o buf'[e]) \o wire'[e] = (Taken(e) \o buf[e]) \o wire[e]
    BY <2>2, <2>3, <2>4, <2>5 DEF Moved
  <2> QED BY <1>2, <2>2, <2>6 DEF Arrived, Taken
<1>3. CASE f = e /\ Take(e)
  <2>1. PICK n \in 1 .. Smaller(Len(buf[e]), Limit - Len(got[e])) :
          /\ got' = [got EXCEPT ![e] = @ \o First(buf[e], n)]
          /\ buf' = [buf EXCEPT ![e] = Rest(@, n)]
    BY <1>3 DEF Take
  <2>2. n \in 0 .. Len(buf[e])
    BY StreamTypes, LimitIsPositive DEF Smaller
  <2>3. got'[e] = got[e] \o First(buf[e], n) /\ buf'[e] = Rest(buf[e], n)
    BY <2>1 DEF RioTypeOK
  <2>4. Moved(read[e], got[e], buf[e], n)
    BY <2>2, StreamTypes, Moves
  <2>5. (read[e] \o got'[e]) \o buf'[e] = (read[e] \o got[e]) \o buf[e]
    BY <2>3, <2>4 DEF Moved
  <2>6. read' = read /\ wire' = wire
    BY <1>3 DEF Take
  <2> QED BY <1>3, <2>5, <2>6 DEF Arrived
<1>4. CASE f = e /\ EndCall(e)
  <2>1. read'[e] = Taken(e) /\ got'[e] = <<>> /\ buf' = buf /\ wire' = wire
    BY <1>4 DEF EndCall, Taken, RioTypeOK
  <2>2. Taken(e) \o <<>> = Taken(e)
    BY StreamTypes, ConcatEmptySeq
  <2> QED BY <1>4, <2>1, <2>2 DEF Arrived, Taken
<1> QED BY <1>1, <1>2, <1>3, <1>4

LEMMA OrderStep ==
  ASSUME RioTypeOK, InOrder, [RioNext]_rioVars
  PROVE  InOrder'
<1> SUFFICES ASSUME NEW f \in Ends
             PROVE  Kept(f)'
  BY DEF InOrder, Kept, Arrived
<1>1. ASSUME NEW e \in Ends, Refill(e) \/ Take(e) \/ EndCall(e)
      PROVE  Kept(f)'
  <2>1. unsent' = unsent /\ sent' = sent
    BY <1>1 DEF Refill, Take, EndCall
  <2>2. Arrived(f)' = Arrived(f)
    BY <1>1, ArrivedStays
  <2> QED BY <2>1, <2>2, InOrderIsKept DEF Kept
<1>2. CASE UNCHANGED <<streams, sent, read>>
  BY <1>2, InOrderIsKept DEF Kept, Arrived, streams
<1> QED BY <1>1, <1>2, OrderOfStart, OrderOfWrite
        DEF RioNext, ReturnsLine, ReturnsNone, Close, rioVars

-----------------------------------------------------------------------------
(* Lines. *)

Parts(c, a, b) == /\ Len(c) = Len(a) + Len(b)
                  /\ \A i \in 1 .. Len(a) : c[i] = a[i]
                  /\ \A i \in 1 .. Len(b) : c[Len(a) + i] = b[i]

LEMMA ConcatParts ==
  ASSUME NEW a \in Seq(Chars), NEW b \in Seq(Chars)
  PROVE  Parts(a \o b, a, b)
<1>1. Len(a) \in Nat /\ Len(b) \in Nat
  BY LenProperties
<1>2. /\ Len(a \o b) = Len(a) + Len(b)
      /\ \A i \in 1 .. Len(a) + Len(b) :
           (a \o b)[i] = IF i <= Len(a) THEN a[i] ELSE b[i - Len(a)]
  BY ConcatProperties
<1> QED BY <1>1, <1>2 DEF Parts

(* At most one newline, at the end, and no more characters than allowed. *)
OneLine == \A e \in Ends : /\ Len(got[e]) <= Limit
                           /\ \A i \in 1 .. Len(got[e]) - 1 : got[e][i] # NL

LEMMA OneLineInit == RioInit => OneLine
BY LimitIsPositive DEF RioInit, OneLine

LEMMA OneLineStep ==
  ASSUME RioTypeOK, OneLine, [RioNext]_rioVars
  PROVE  OneLine'
<1>1. ASSUME NEW e \in Ends, Take(e)
      PROVE  OneLine'
  <2> DEFINE g == Len(got[e])
  <2>1. PICK n \in 1 .. Smaller(Len(buf[e]), Limit - g) :
          /\ \A i \in 1 .. n - 1 : buf[e][i] # NL
          /\ got' = [got EXCEPT ![e] = @ \o First(buf[e], n)]
    BY <1>1 DEF Take
  <2>2. n \in 0 .. Len(buf[e]) /\ g \in Nat /\ g + n <= Limit
    BY StreamTypes, LimitIsPositive DEF Smaller
  <2>3. got'[e] = got[e] \o First(buf[e], n) /\ \A d \in Ends : d # e => got'[d] = got[d]
    BY <2>1 DEF RioTypeOK
  <2>4. /\ First(buf[e], n) \in Seq(Chars) /\ Len(First(buf[e], n)) = n
        /\ \A i \in 1 .. n : First(buf[e], n)[i] = buf[e][i]
    BY <2>2, StreamTypes, FirstRest
  <2>5. /\ Len(got'[e]) = g + n
        /\ \A i \in 1 .. g : got'[e][i] = got[e][i]
        /\ \A i \in 1 .. n : got'[e][g + i] = buf[e][i]
    <3>1. Parts(got'[e], got[e], First(buf[e], n))
      BY <2>3, <2>4, StreamTypes, ConcatParts
    <3> QED BY <2>4, <3>1 DEF Parts
  <2>6. \A i \in 1 .. g : got[e][i] # NL
    <3>1. got[e] # <<>> => got[e][g] # NL
      BY <1>1 DEF Take, HasLine, EndsLine
    <3>2. \A i \in 1 .. g : i = g \/ i \in 1 .. g - 1
      BY <2>2
    <3>3. \A i \in 1 .. g - 1 : got[e][i] # NL
      BY DEF OneLine
    <3>4. g > 0 => got[e] # <<>>
      BY EmptySeq
    <3> QED BY <2>2, <3>1, <3>2, <3>3, <3>4
  <2>7. ASSUME NEW i \in 1 .. Len(got'[e]) - 1
        PROVE  got'[e][i] # NL
    <3>1. CASE i <= g
      <4>1. i \in 1 .. g
        BY <2>2, <2>5, <3>1
      <4> QED BY <2>5, <2>6, <4>1
    <3>2. CASE i > g
      <4>1. i - g \in 1 .. n - 1 /\ i = g + (i - g)
        BY <2>2, <2>5, <3>2
      <4> QED BY <2>1, <2>5, <4>1
    <3> QED BY <2>2, <2>5, <3>1, <3>2
  <2> QED BY <2>2, <2>3, <2>5, <2>7 DEF OneLine
<1>2. ASSUME NEW e \in Ends, EndCall(e)
      PROVE  OneLine'
  <2>1. \A d \in Ends : got'[d] = got[d] \/ got'[d] = <<>>
    BY <1>2 DEF EndCall, RioTypeOK
  <2> QED BY <2>1, LimitIsPositive DEF OneLine
<1>3. CASE UNCHANGED got
  BY <1>3 DEF OneLine
<1> QED BY <1>1, <1>2, <1>3 DEF RioNext, ReturnsLine, ReturnsNone, StartWrite, Write,
            WriteLost, Refill, Close, rioVars, streams

(* What the reader has taken and is taking is the front of what was sent. *)
LEMMA Window ==
  ASSUME RioTypeOK, InOrder, NEW e \in Ends
  PROVE  /\ Len(sent[Peer(e)]) >= Len(read[e]) + Len(got[e])
         /\ \A i \in 1 .. Len(got[e]) : sent[Peer(e)][Len(read[e]) + i] = got[e][i]
<1> DEFINE t == Taken(e)
           b == t \o buf[e]
           w == Arrived(e)
<1>1. Peer(e) \in Ends
  BY PeerOfEnd
<1>2. /\ t \in Seq(Chars) /\ b \in Seq(Chars) /\ w \in Seq(Chars)
      /\ read[e] \in Seq(Chars) /\ got[e] \in Seq(Chars) /\ buf[e] \in Seq(Chars)
      /\ wire[e] \in Seq(Chars) /\ unsent[Peer(e)] \in Seq(Chars)
  BY <1>1, StreamTypes
<1>3. t = read[e] \o got[e] /\ w = b \o wire[e] /\ sent[Peer(e)] = w \o unsent[Peer(e)]
  BY InOrderIsKept DEF Kept, Arrived, Taken
<1>4. b = t \o buf[e]
  OBVIOUS
<1>5. /\ Len(t) \in Nat /\ Len(b) \in Nat /\ Len(w) \in Nat /\ Len(read[e]) \in Nat
      /\ Len(got[e]) \in Nat /\ Len(buf[e]) \in Nat /\ Len(wire[e]) \in Nat
      /\ Len(unsent[Peer(e)]) \in Nat
  BY <1>2, LenProperties
<1> HIDE DEF t, b, w
<1>6. Parts(t, read[e], got[e]) /\ Parts(b, t, buf[e])
  BY <1>2, <1>3, <1>4, ConcatParts
<1>7. Parts(w, b, wire[e]) /\ Parts(sent[Peer(e)], w, unsent[Peer(e)])
  BY <1>2, <1>3, ConcatParts
<1>8. PICK lr \in Nat, lg \in Nat, lb \in Nat, lw \in Nat, lu \in Nat :
        /\ lr = Len(read[e]) /\ lg = Len(got[e]) /\ lb = Len(buf[e]) /\ lw = Len(wire[e])
        /\ lu = Len(unsent[Peer(e)])
  BY <1>5
<1>9. /\ Len(t) = lr + lg /\ Len(b) = lr + lg + lb /\ Len(w) = lr + lg + lb + lw
      /\ Len(sent[Peer(e)]) = lr + lg + lb + lw + lu
  BY <1>6, <1>7, <1>8 DEF Parts
<1>10. ASSUME NEW i \in 1 .. lg
       PROVE  sent[Peer(e)][lr + i] = got[e][i]
  <2>1. lr + i \in 1 .. lr + lg /\ lr + i \in 1 .. lr + lg + lb
        /\ lr + i \in 1 .. lr + lg + lb + lw
    OBVIOUS
  <2>2. t[lr + i] = got[e][i]
    BY <1>6, <1>8 DEF Parts
  <2>3. b[lr + i] = t[lr + i]
    BY <1>6, <1>9, <2>1 DEF Parts
  <2>4. w[lr + i] = b[lr + i]
    BY <1>7, <1>9, <2>1 DEF Parts
  <2>5. sent[Peer(e)][lr + i] = w[lr + i]
    BY <1>7, <1>9, <2>1 DEF Parts
  <2> QED BY <2>2, <2>3, <2>4, <2>5
<1>11. lr + lg + lb + lw + lu >= lr + lg
  OBVIOUS
<1> QED BY <1>8, <1>9, <1>10, <1>11

LEMMA LineEnds ==
  ASSUME RioTypeOK, InOrder, OneLine, NEW e \in Ends, Fits(sent[Peer(e)]), HasLine(e)
  PROVE  EndsLine(got[e])
<1>1. CASE Len(got[e]) = Limit
  <2>1. Len(read[e]) \in 0 .. Len(sent[Peer(e)]) - Limit
    <3>1. Len(read[e]) \in Nat /\ Len(sent[Peer(e)]) \in Nat
      BY StreamTypes, PeerOfEnd, LenProperties
    <3>2. Len(sent[Peer(e)]) >= Len(read[e]) + Limit
      BY <1>1, Window
    <3> QED BY <3>1, <3>2, LimitIsPositive
  <2>2. PICK j \in 1 .. Limit : sent[Peer(e)][Len(read[e]) + j] = NL
    BY <2>1 DEF Fits, Within
  <2>3. got[e][j] = NL
    BY <1>1, <2>2, Window
  <2>4. j = Limit
    BY <1>1, <2>3, LimitIsPositive DEF OneLine
  <2>5. got[e] # <<>>
    BY <1>1, LimitIsPositive
  <2> QED BY <1>1, <2>3, <2>4, <2>5 DEF EndsLine
<1> QED BY <1>1 DEF HasLine

LEMMA FitsBefore ==
  ASSUME NEW s \in Seq(Chars), NEW t \in Seq(Chars), Fits(s \o t)
  PROVE  Fits(s)
<1>1. Len(s) \in Nat /\ Len(t) \in Nat /\ Limit \in Nat
  BY LenProperties, LimitIsPositive
<1>2. Len(s \o t) = Len(s) + Len(t) /\ \A i \in 1 .. Len(s) : (s \o t)[i] = s[i]
  BY ConcatParts DEF Parts
<1> SUFFICES ASSUME NEW i \in 0 .. Len(s) - Limit
             PROVE  \E j \in 1 .. Limit : s[i + j] = NL
  BY DEF Fits, Within
<1>3. PICK j \in 1 .. Limit : (s \o t)[i + j] = NL
  <2>1. i \in 0 .. Len(s \o t) - Limit
    BY <1>1, <1>2
  <2> QED BY <2>1 DEF Fits, Within
<1>4. i + j \in 1 .. Len(s)
  BY <1>1
<1> QED BY <1>2, <1>3, <1>4

(* Between two calls a line has just ended. *)
ReadWhole == \A e \in Ends :
  Fits(sent[Peer(e)]) /\ Peer(e) \notin closed => read[e] = <<>> \/ EndsLine(read[e])

LEMMA ReadWholeStep ==
  ASSUME RioTypeOK, InOrder, OneLine, ReadWhole, [RioNext]_rioVars
  PROVE  ReadWhole'
<1> SUFFICES ASSUME NEW f \in Ends, Fits(sent[Peer(f)])', Peer(f) \notin closed'
             PROVE  read'[f] = <<>> \/ EndsLine(read'[f])
  BY DEF ReadWhole, EndsLine
<1>1. Peer(f) \in Ends
  BY PeerOfEnd
<1>2. closed \subseteq closed'
  BY DEF RioNext, ReturnsLine, ReturnsNone, EndCall, StartWrite, Write, WriteLost, Refill,
         Take, Close, rioVars
<1>3. Fits(sent[Peer(f)])
  <2>1. CASE sent' = sent
    BY <2>1
  <2>2. ASSUME NEW e \in Ends, NEW text \in Seq(Chars), StartWrite(e, text)
        PROVE  Fits(sent[Peer(f)])
    <3>1. CASE e = Peer(f)
      <4>1. sent'[Peer(f)] = sent[Peer(f)] \o text
        BY <2>2, <3>1 DEF StartWrite, RioTypeOK
      <4>2. sent[Peer(f)] \in Seq(Chars) /\ Fits(sent[Peer(f)] \o text)
        BY <1>1, <4>1, StreamTypes
      <4> QED BY <4>2, FitsBefore
    <3>2. CASE e # Peer(f)
      <4>1. sent'[Peer(f)] = sent[Peer(f)]
        BY <1>1, <2>2, <3>2 DEF StartWrite, RioTypeOK
      <4> QED BY <4>1
    <3> QED BY <3>1, <3>2
  <2> QED BY <2>1, <2>2 DEF RioNext, ReturnsLine, ReturnsNone, EndCall, Write, WriteLost,
              Refill, Take, Close, rioVars
<1>4. read[f] = <<>> \/ EndsLine(read[f])
  BY <1>2, <1>3 DEF ReadWhole
<1>5. CASE ReturnsLine(f)
  <2>1. read'[f] = read[f] \o got[f]
    BY <1>5 DEF ReturnsLine, EndCall, RioTypeOK
  <2>2. HasLine(f)
    BY <1>2, <1>5 DEF ReturnsLine, AtEOF
  <2>3. EndsLine(got[f])
    BY <1>3, <2>2, LineEnds
  <2>4. read[f] \in Seq(Chars) /\ got[f] \in Seq(Chars)
        /\ Len(read[f]) \in Nat /\ Len(got[f]) \in Nat /\ Len(got[f]) > 0
    BY <2>3, StreamTypes, EmptySeq DEF EndsLine
  <2>5. /\ Len(read'[f]) = Len(read[f]) + Len(got[f])
        /\ read'[f][Len(read[f]) + Len(got[f])] = got[f][Len(got[f])]
    <3>1. Parts(read'[f], read[f], got[f])
      BY <2>1, <2>4, ConcatParts
    <3>2. Len(got[f]) \in 1 .. Len(got[f])
      BY <2>4
    <3> QED BY <3>1, <3>2 DEF Parts
  <2>6. read'[f] # <<>>
    <3>1. Len(<<>>) = 0
      BY EmptySeq
    <3>2. PICK a \in Nat, b \in Nat : a = Len(read[f]) /\ b = Len(got[f])
      BY <2>4
    <3>3. b > 0
      BY <2>4, <3>2
    <3>4. Len(read'[f]) = a + b
      BY <2>5, <3>2
    <3>5. a + b # 0
      BY <3>3
    <3> QED BY <3>1, <3>4, <3>5
  <2> QED BY <2>3, <2>5, <2>6 DEF EndsLine
<1>6. CASE read'[f] = read[f]
  BY <1>4, <1>6
<1>7. CASE ReturnsNone(f)
  BY <1>2, <1>7 DEF ReturnsNone, AtEOF
<1> QED BY <1>5, <1>6, <1>7 DEF RioNext, ReturnsLine, ReturnsNone, EndCall, StartWrite, Write,
            WriteLost, Refill, Take, Close, rioVars, streams, RioTypeOK

-----------------------------------------------------------------------------
RioInv == RioTypeOK /\ InOrder /\ OneLine /\ ReadWhole

LEMMA RioInvImplies == RioInv => LinesInOrder
BY LineEnds DEF RioInv, LinesInOrder, WholeLines, OneLine, ReadWhole

LEMMA RioInvInit == RioInit => RioInv
<1>1. RioInit => ReadWhole
  BY DEF RioInit, ReadWhole
<1> QED BY <1>1, TypeInit, OrderInit, OneLineInit DEF RioInv

LEMMA RioInvStep == RioInv /\ [RioNext]_rioVars => RioInv'
BY TypeStep, OrderStep, OneLineStep, ReadWholeStep DEF RioInv

(* Over every socket, however it cuts up what is written, rio_readlineb     *)
(* returns the lines that were given to rio_writen, in order and whole,     *)
(* unless one of them is longer than it can read.                           *)
THEOREM LinesAreKept == RioSpec => []LinesInOrder
<1>1. RioSpec => []RioInv
  BY RioInvInit, RioInvStep, PTL DEF RioSpec
<1> QED BY <1>1, RioInvImplies, PTL
=============================================================================
