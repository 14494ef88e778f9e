--------------------------- MODULE Session_proofs ---------------------------
(***************************************************************************)
(* Theorems about the sessions of assign5, for any clients, names, scripts *)
(* and characters, any sizes of the buffers, and however the network cuts  *)
(* up what is written.                                                     *)
(*                                                                         *)
(* An invariant about answers must say where each character is between two *)
(* ends.  Rio's inductive invariant makes what was said the concatenation  *)
(* of what was read, what is in the buffers, and what is not sent yet.     *)
(*                                                                         *)
(* A sender: of what one end says the other has read all but one line at   *)
(* most, and never both (Owes); that line is the request or the answer     *)
(* that cpc and wpc say is under way (Exchange).                           *)
(*                                                                         *)
(* A receiver: what its worker says is cut at its newlines into two        *)
(* answers and one delivery for each broadcast that left the queue (Cuts,  *)
(* Stage, Delivered), and the client is at one of the cuts (Printing).     *)
(***************************************************************************)
EXTENDS Session, Rio_proofs, FiniteSetTheorems, WellFoundedInduction

-----------------------------------------------------------------------------
(* Sequences *)

LEMMA SmallestOf ==
  ASSUME NEW T, T \subseteq Nat, T # {}
  PROVE  \E m \in T : \A i \in T : m <= i
<1>1. PICK m \in T : \A i \in T : ~(<<i, m>> \in OpToRel(<, Nat))
  BY NatLessThanWellFounded, WFMin
<1>2. \A i \in T : ~(i < m)
  BY <1>1 DEF OpToRel
<1> QED
  BY <1>2

LEMMA GreatestOf ==
  ASSUME NEW n \in Nat, NEW T, T \subseteq 1 .. n, T # {}
  PROVE  \E m \in T : \A i \in T : m >= i
<1> DEFINE Below == {n - i : i \in T}
<1>1. Below \subseteq Nat /\ Below # {}
  <2>1. \A i \in T : n - i \in Nat
    OBVIOUS
  <2> QED
    BY <2>1
<1>2. PICK b \in Below : \A j \in Below : b <= j
  <2> HIDE DEF Below
  <2> QED
    BY <1>1, SmallestOf
<1>3. PICK m \in T : b = n - m
  BY <1>2
<1>4. ASSUME NEW i \in T PROVE m >= i
  <2>1. b <= n - i
    BY <1>2
  <2> QED
    BY <1>3, <2>1
<1> QED
  BY <1>3, <1>4

(* A character, and a sequence of one. *)
LEMMA Single ==
  ASSUME NEW x \in Chars
  PROVE  <<x>> \in Seq(Chars) /\ Len(<<x>>) = 1 /\ <<x>>[1] = x
OBVIOUS

LEMMA Elements ==
  ASSUME NEW s \in Seq(Chars)
  PROVE  /\ Len(s) \in Nat /\ DOMAIN s = 1 .. Len(s)
         /\ \A i \in 1 .. Len(s) : s[i] \in Chars
BY LenProperties, ElementOfSeq

(* Both sequences of a concatenation. *)
LEMMA Concat ==
  ASSUME NEW a \in Seq(Chars), NEW b \in Seq(Chars)
  PROVE  a \o b \in Seq(Chars) /\ Parts(a \o b, a, b)
BY ConcatParts, ConcatProperties

LEMMA SameElements ==
  ASSUME NEW a \in Seq(Chars), NEW b \in Seq(Chars), Len(a) = Len(b),
         \A i \in 1 .. Len(a) : a[i] = b[i]
  PROVE  a = b
BY SeqEqual

LEMMA Cancel ==
  ASSUME NEW a \in Seq(Chars), NEW b \in Seq(Chars), NEW c \in Seq(Chars), a \o b = a \o c
  PROVE  b = c
BY ConcatSimplifications

LEMMA EmptyOnRight ==
  ASSUME NEW a \in Seq(Chars), NEW b \in Seq(Chars)
  PROVE  /\ a \o <<>> = a /\ <<>> \o a = a
         /\ a \o b = a => b = <<>>
         /\ a \o b = <<>> => a = <<>> /\ b = <<>>
BY ConcatEmptySeq, ConcatSimplifications

LEMMA Emptiness ==
  ASSUME NEW a \in Seq(Chars)
  PROVE  a = <<>> <=> Len(a) = 0
BY EmptySeq

LEMMA SubSeqIs ==
  ASSUME NEW s \in Seq(Chars), NEW m \in Nat, NEW n \in Nat, 1 <= m, m <= n + 1, n <= Len(s)
  PROVE  /\ SubSeq(s, m, n) \in Seq(Chars)
         /\ Len(SubSeq(s, m, n)) = n - m + 1
         /\ \A i \in 1 .. n - m + 1 : SubSeq(s, m, n)[i] = s[m + i - 1]
<1>1. Len(s) \in Nat /\ \A i \in m .. n : s[i] \in Chars
  BY Elements
<1>2. m \in 1 .. Len(s) + 1 /\ n \in m - 1 .. Len(s)
  BY <1>1
<1> QED
  BY <1>1, <1>2, SubSeqProperties

-----------------------------------------------------------------------------
(* Texts *)

LEMMA Characters ==
  /\ NL \in Chars /\ ":" \in Chars /\ ":" # NL
  /\ \A w \in Tags \cup Words : w \in Chars /\ w # NL /\ w # ":"
<1>1. \A w \in Tags \cup Words : w # ":"
  BY DEF Tags, Words
<1>2. \A w \in Tags \cup Words : w \in Chars \ White
  BY WordsAssumption
<1>3. ":" \in Chars \ White
  BY WordsAssumption
<1> QED
  BY <1>1, <1>2, <1>3, CharsAssumption, WhiteAssumption

(* A newline at most at the end. *)
Plain(s) == s \in Seq(Chars) /\ \A i \in 1 .. Len(s) - 1 : s[i] # NL

(* A text without colons. *)
Field(s) == s \in Seq(Chars) /\ \A i \in 1 .. Len(s) : s[i] # ":"

IsLine(line) == Plain(line) /\ EndsLine(line)

(* A text of one line, before its newline. *)
IsText(s) == s \in Seq(Chars) /\ \A i \in 1 .. Len(s) : s[i] # NL

LEMMA Texts ==
  ASSUME NEW a, IsText(a), NEW b, IsText(b)
  PROVE  IsText(a \o b)
<1>1. a \in Seq(Chars) /\ b \in Seq(Chars)
  BY DEF IsText
<1>2. a \o b \in Seq(Chars) /\ Parts(a \o b, a, b)
  BY <1>1, Concat
<1>3. Len(a) \in Nat /\ Len(b) \in Nat
  BY <1>1, Elements
<1>4. ASSUME NEW i \in 1 .. Len(a \o b)
      PROVE  (a \o b)[i] # NL
  <2>1. CASE i <= Len(a)
    <3>1. i \in 1 .. Len(a)
      BY <1>2, <1>3, <2>1 DEF Parts
    <3> QED
      BY <1>2, <3>1 DEF Parts, IsText
  <2>2. CASE i > Len(a)
    <3>1. i - Len(a) \in 1 .. Len(b) /\ Len(a) + (i - Len(a)) = i
      BY <1>2, <1>3, <2>2 DEF Parts
    <3>2. (a \o b)[Len(a) + (i - Len(a))] = b[i - Len(a)]
      BY <1>2, <3>1 DEF Parts
    <3> QED
      BY <3>1, <3>2 DEF IsText
  <2> QED
    BY <1>2, <1>3, <2>1, <2>2 DEF Parts
<1> QED
  BY <1>2, <1>4 DEF IsText

LEMMA WordIsText ==
  ASSUME NEW w \in Tags \cup Words \cup {":"}
  PROVE  <<w>> \in Seq(Chars) /\ IsText(<<w>>)
<1>1. w \in Chars /\ w # NL
  BY Characters
<1> QED
  BY <1>1, Single DEF IsText

LEMMA Lines ==
  ASSUME NEW a, IsText(a)
  PROVE  a \o <<NL>> \in Seq(Chars) /\ IsLine(a \o <<NL>>) /\ a \o <<NL>> # <<>>
<1>1. a \in Seq(Chars) /\ <<NL>> \in Seq(Chars) /\ Len(<<NL>>) = 1 /\ <<NL>>[1] = NL
  BY Single, CharsAssumption DEF IsText
<1>2. a \o <<NL>> \in Seq(Chars) /\ Parts(a \o <<NL>>, a, <<NL>>)
  BY <1>1, Concat
<1>3. Len(a) \in Nat
  BY <1>1, Elements
<1> DEFINE s == a \o <<NL>>
<1> HIDE DEF s
<1>4. Parts(s, a, <<NL>>) /\ s \in Seq(Chars)
  BY <1>2 DEF s
<1>5. Len(s) = Len(a) + 1 /\ s[Len(a) + 1] = NL
  <2>1. 1 \in 1 .. Len(<<NL>>)
    BY <1>1
  <2> QED
    BY <1>1, <1>4, <2>1 DEF Parts
<1>6. \A i \in 1 .. Len(s) - 1 : s[i] # NL
  <2>1. Len(s) - 1 = Len(a)
    BY <1>3, <1>5
  <2> QED
    BY <1>4, <2>1 DEF Parts, IsText
<1>7. s # <<>>
  BY <1>3, <1>4, <1>5, Emptiness
<1> QED
  BY <1>4, <1>5, <1>6, <1>7 DEF s, IsLine, Plain, EndsLine

LEMMA LineTyped ==
  ASSUME NEW line, IsLine(line)
  PROVE  line \in Seq(Chars) /\ line # <<>> /\ line[Len(line)] = NL /\ Len(line) \in Nat \ {0}
<1>1. line \in Seq(Chars) /\ line # <<>> /\ line[Len(line)] = NL
  BY DEF IsLine, Plain, EndsLine
<1> QED
  BY <1>1, EmptySeq

(* What begins as a line does, up to a newline, is that line. *)
LEMMA FrontOfLine ==
  ASSUME NEW line, IsLine(line), NEW front, IsLine(front), NEW rest \in Seq(Chars),
         front \o rest = line
  PROVE  front = line /\ rest = <<>>
<1>1. /\ front \in Seq(Chars) /\ Len(front) \in Nat \ {0} /\ front[Len(front)] = NL
      /\ line \in Seq(Chars) /\ Len(line) \in Nat
  BY LineTyped
<1>2. Parts(line, front, rest) /\ Len(rest) \in Nat
  BY <1>1, Concat, Elements
<1>3. line[Len(front)] = NL
  BY <1>1, <1>2 DEF Parts
<1>4. Len(rest) = 0
  <2> SUFFICES ASSUME Len(rest) # 0 PROVE FALSE
    OBVIOUS
  <2>1. Len(front) \in 1 .. Len(line) - 1
    BY <1>1, <1>2 DEF Parts
  <2> QED
    BY <1>3, <2>1 DEF IsLine, Plain
<1>5. rest = <<>>
  BY <1>4, Emptiness
<1> QED
  BY <1>1, <1>5, EmptyOnRight

-----------------------------------------------------------------------------
(* Tags, data and fields *)

LEMMA ColonsOf ==
  ASSUME NEW s \in Seq(Chars)
  PROVE  /\ Colons(s) \subseteq 1 .. Len(s) /\ Len(s) \in Nat
         /\ \A i \in 1 .. Len(s) : i \in Colons(s) <=> s[i] = ":"
         /\ Colons(s) # {} => /\ FirstColon(s) \in Colons(s)
                              /\ \A j \in Colons(s) : FirstColon(s) <= j
<1>1. Len(s) \in Nat /\ DOMAIN s = 1 .. Len(s)
  BY Elements
<1>2. Colons(s) \subseteq 1 .. Len(s) /\ \A i \in 1 .. Len(s) : i \in Colons(s) <=> s[i] = ":"
  BY <1>1 DEF Colons
<1>3. ASSUME Colons(s) # {}
      PROVE  FirstColon(s) \in Colons(s) /\ \A j \in Colons(s) : FirstColon(s) <= j
  <2>1. Colons(s) \subseteq Nat
    BY <1>1, <1>2
  <2>2. \E i \in Colons(s) : \A j \in Colons(s) : i <= j
    BY <1>3, <2>1, SmallestOf
  <2> QED
    BY <2>2 DEF FirstColon
<1> QED
  BY <1>1, <1>2, <1>3

LEMMA SplitTypes ==
  ASSUME NEW s \in Seq(Chars), Colons(s) # {}
  PROVE  /\ FirstColon(s) \in 1 .. Len(s) /\ s[FirstColon(s)] = ":"
         /\ TagOf(s) \in Seq(Chars) /\ Len(TagOf(s)) = FirstColon(s) - 1
         /\ \A i \in 1 .. FirstColon(s) - 1 : TagOf(s)[i] = s[i]
         /\ DataOf(s) \in Seq(Chars) /\ Len(DataOf(s)) = Len(s) - FirstColon(s)
         /\ \A i \in 1 .. Len(s) - FirstColon(s) : DataOf(s)[i] = s[FirstColon(s) + i]
<1> DEFINE f == FirstColon(s)
<1>1. f \in 1 .. Len(s) /\ s[f] = ":" /\ Len(s) \in Nat
  BY ColonsOf
<1> HIDE DEF f
<1>2. SubSeq(s, 1, f - 1) \in Seq(Chars) /\ Len(SubSeq(s, 1, f - 1)) = f - 1
      /\ \A i \in 1 .. f - 1 : SubSeq(s, 1, f - 1)[i] = s[i]
  <2>1. 1 \in Nat /\ f - 1 \in Nat /\ 1 <= f - 1 + 1 /\ f - 1 <= Len(s) /\ f - 1 - 1 + 1 = f - 1
    BY <1>1
  <2>2. /\ SubSeq(s, 1, f - 1) \in Seq(Chars)
        /\ Len(SubSeq(s, 1, f - 1)) = f - 1 - 1 + 1
        /\ \A i \in 1 .. f - 1 - 1 + 1 : SubSeq(s, 1, f - 1)[i] = s[1 + i - 1]
    BY <2>1, SubSeqIs
  <2>3. \A i \in 1 .. f - 1 : 1 + i - 1 = i
    BY <2>1
  <2> QED
    BY <2>1, <2>2, <2>3
<1>3. SubSeq(s, f + 1, Len(s)) \in Seq(Chars) /\ Len(SubSeq(s, f + 1, Len(s))) = Len(s) - f
      /\ \A i \in 1 .. Len(s) - f : SubSeq(s, f + 1, Len(s))[i] = s[f + i]
  <2>1. PICK m \in Nat : m = f + 1
    BY <1>1
  <2>2. 1 <= m /\ m <= Len(s) + 1 /\ Len(s) <= Len(s) /\ Len(s) - m + 1 = Len(s) - f
    BY <1>1, <2>1
  <2>3. /\ SubSeq(s, m, Len(s)) \in Seq(Chars)
        /\ Len(SubSeq(s, m, Len(s))) = Len(s) - m + 1
        /\ \A i \in 1 .. Len(s) - m + 1 : SubSeq(s, m, Len(s))[i] = s[m + i - 1]
    BY <1>1, <2>2, SubSeqIs
  <2>4. \A i \in 1 .. Len(s) - f : m + i - 1 = f + i
    BY <1>1, <2>1
  <2> QED
    BY <2>1, <2>2, <2>3, <2>4
<1>4. TagOf(s) = SubSeq(s, 1, f - 1) /\ DataOf(s) = SubSeq(s, f + 1, Len(s))
  BY DEF TagOf, DataOf, First, Rest, f
<1> QED
  BY <1>1, <1>2, <1>3, <1>4 DEF f

(* What is before the first colon, and what is behind it. *)
LEMMA Splits ==
  ASSUME NEW a, Field(a), NEW b \in Seq(Chars), NEW s, s = (a \o <<":">>) \o b
  PROVE  /\ s \in Seq(Chars) /\ Colons(s) # {} /\ FirstColon(s) = Len(a) + 1
         /\ TagOf(s) = a /\ DataOf(s) = b
<1>1. a \in Seq(Chars) /\ Len(a) \in Nat /\ Len(b) \in Nat
  BY Elements DEF Field
<1>2. <<":">> \in Seq(Chars) /\ Len(<<":">>) = 1 /\ <<":">>[1] = ":"
  BY Single, Characters
<1> DEFINE t == a \o <<":">>
<1>3. t \in Seq(Chars) /\ Parts(t, a, <<":">>)
  BY <1>1, <1>2, Concat
<1> HIDE DEF t
<1>4. s \in Seq(Chars) /\ Parts(s, t, b)
  <2>1. s = t \o b
    BY DEF t
  <2> QED
    BY <1>3, <2>1, Concat
<1>5. Len(t) = Len(a) + 1 /\ t[Len(a) + 1] = ":" /\ \A i \in 1 .. Len(a) : t[i] = a[i]
  <2>1. 1 \in 1 .. Len(<<":">>)
    BY <1>2
  <2> QED
    BY <1>2, <1>3, <2>1 DEF Parts
<1>6. /\ Len(s) = Len(a) + 1 + Len(b)
      /\ s[Len(a) + 1] = ":"
      /\ \A i \in 1 .. Len(a) : s[i] = a[i]
      /\ \A i \in 1 .. Len(b) : s[Len(a) + 1 + i] = b[i]
  <2>1. Len(s) = Len(a) + 1 + Len(b) /\ \A i \in 1 .. Len(b) : s[Len(a) + 1 + i] = b[i]
    BY <1>4, <1>5 DEF Parts
  <2>2. \A i \in 1 .. Len(a) + 1 : s[i] = t[i]
    BY <1>4, <1>5 DEF Parts
  <2>3. Len(a) + 1 \in 1 .. Len(a) + 1 /\ \A i \in 1 .. Len(a) : i \in 1 .. Len(a) + 1
    BY <1>1
  <2> QED
    BY <1>5, <2>1, <2>2, <2>3
<1>7. Len(a) + 1 \in Colons(s) /\ \A i \in 1 .. Len(a) : i \notin Colons(s)
  <2>1. Len(a) + 1 \in 1 .. Len(s) /\ \A i \in 1 .. Len(a) : i \in 1 .. Len(s)
    BY <1>1, <1>6
  <2>2. \A i \in 1 .. Len(a) : s[i] # ":"
    BY <1>6 DEF Field
  <2> QED
    BY <1>4, <1>6, <2>1, <2>2, ColonsOf
<1>8. FirstColon(s) = Len(a) + 1
  <2>1. FirstColon(s) \in Colons(s) /\ FirstColon(s) <= Len(a) + 1 /\ FirstColon(s) \in 1 .. Len(s)
    BY <1>4, <1>7, ColonsOf
  <2>2. FirstColon(s) \notin 1 .. Len(a)
    BY <1>7, <2>1
  <2> QED
    BY <1>1, <2>1, <2>2
<1>9. TagOf(s) = a
  <2>1. /\ TagOf(s) \in Seq(Chars) /\ Len(TagOf(s)) = FirstColon(s) - 1
        /\ \A i \in 1 .. FirstColon(s) - 1 : TagOf(s)[i] = s[i]
    BY <1>4, <1>7, SplitTypes
  <2>2. FirstColon(s) - 1 = Len(a)
    BY <1>1, <1>8
  <2>3. Len(TagOf(s)) = Len(a) /\ \A i \in 1 .. Len(a) : TagOf(s)[i] = a[i]
    BY <1>6, <2>1, <2>2
  <2> QED
    BY <1>1, <2>1, <2>3, SameElements
<1>10. DataOf(s) = b
  <2>1. /\ DataOf(s) \in Seq(Chars) /\ Len(DataOf(s)) = Len(s) - FirstColon(s)
        /\ \A i \in 1 .. Len(s) - FirstColon(s) : DataOf(s)[i] = s[FirstColon(s) + i]
    BY <1>4, <1>7, SplitTypes
  <2>2. Len(s) - FirstColon(s) = Len(b)
    BY <1>1, <1>6, <1>8
  <2>3. Len(DataOf(s)) = Len(b) /\ \A i \in 1 .. Len(b) : DataOf(s)[i] = b[i]
    BY <1>6, <1>8, <2>1, <2>2
  <2> QED
    BY <2>1, <2>3, SameElements
<1> QED
  BY <1>4, <1>7, <1>8, <1>9, <1>10

LEMMA WordIsField ==
  ASSUME NEW w \in Tags \cup Words
  PROVE  Field(<<w>>) /\ <<w>> \in Seq(Chars) /\ Len(<<w>>) = 1 /\ <<w>>[1] = w
<1>1. w \in Chars /\ w # ":"
  BY Characters
<1> QED
  BY <1>1, Single DEF Field

(* A tag, a colon and the data. *)
LEMMA Encodes ==
  ASSUME NEW tag \in Tags, NEW data \in Seq(Chars)
  PROVE  /\ Encoded(tag, data) \in Seq(Chars)
         /\ Valid(Encoded(tag, data))
         /\ TagOf(Encoded(tag, data)) = <<tag>>
         /\ DataOf(Encoded(tag, data)) = data \o <<NL>>
         /\ IsText(data) => IsLine(Encoded(tag, data))
<1> DEFINE s == Encoded(tag, data)
<1>1. <<tag, ":">> = <<tag>> \o <<":">>
  OBVIOUS
<1>2. /\ <<tag>> \in Seq(Chars) /\ Field(<<tag>>) /\ Len(<<tag>>) = 1 /\ <<tag>>[1] = tag
      /\ <<":">> \in Seq(Chars) /\ <<NL>> \in Seq(Chars)
  BY WordIsField, Single, Characters
<1>3. <<tag, ":">> \in Seq(Chars) /\ data \o <<NL>> \in Seq(Chars)
  BY <1>1, <1>2, Concat
<1>4. s = (<<tag>> \o <<":">>) \o (data \o <<NL>>)
  <2>1. Associate(<<tag, ":">>, data, <<NL>>)
    BY <1>2, <1>3, Associates
  <2> QED
    BY <1>1, <2>1 DEF Associate, Encoded
<1>5. /\ s \in Seq(Chars) /\ Colons(s) # {} /\ FirstColon(s) = 2
      /\ TagOf(s) = <<tag>> /\ DataOf(s) = data \o <<NL>>
  <2> HIDE DEF s
  <2> DEFINE a == <<tag>>
             b == data \o <<NL>>
  <2>1. Field(a) /\ b \in Seq(Chars) /\ s = (a \o <<":">>) \o b /\ Len(a) = 1
    BY <1>2, <1>3, <1>4
  <2> HIDE DEF a, b
  <2>2. /\ s \in Seq(Chars) /\ Colons(s) # {} /\ FirstColon(s) = Len(a) + 1
        /\ TagOf(s) = a /\ DataOf(s) = b
    BY <2>1, Splits
  <2>3. FirstColon(s) = 2
    BY <2>1, <2>2
  <2> QED
    BY <2>2, <2>3 DEF a, b
<1>6. s[1] = tag
  <2> HIDE DEF s
  <2>1. TagOf(s)[1] = s[1]
    BY <1>5, SplitTypes
  <2> QED
    BY <1>2, <1>5, <2>1
<1>7. Valid(s)
  BY <1>5, <1>6, LowercaseAssumption DEF Valid
<1>8. ASSUME IsText(data) PROVE IsLine(s)
  <2>1. IsText(<<tag>> \o <<":">>)
    BY WordIsText, Texts
  <2>2. IsText(<<tag, ":">> \o data)
    BY <1>1, <1>8, <2>1, Texts
  <2> QED
    BY <2>2, Lines DEF Encoded
<1> QED
  BY <1>5, <1>7, <1>8

LEMMA DataIsPlain ==
  ASSUME NEW line, Plain(line), Colons(line) # {}
  PROVE  Plain(DataOf(line))
<1>1. /\ FirstColon(line) \in 1 .. Len(line) /\ Len(line) \in Nat
      /\ DataOf(line) \in Seq(Chars) /\ Len(DataOf(line)) = Len(line) - FirstColon(line)
      /\ \A i \in 1 .. Len(line) - FirstColon(line) : DataOf(line)[i] = line[FirstColon(line) + i]
  BY SplitTypes, Elements DEF Plain
<1>2. ASSUME NEW i \in 1 .. Len(DataOf(line)) - 1
      PROVE  DataOf(line)[i] # NL
  <2>1. /\ i \in 1 .. Len(line) - FirstColon(line)
        /\ FirstColon(line) + i \in 1 .. Len(line) - 1
    BY <1>1
  <2>2. line[FirstColon(line) + i] # NL
    BY <2>1 DEF Plain
  <2> QED
    BY <1>1, <2>1, <2>2
<1> QED
  BY <1>1, <1>2 DEF Plain

(* One field: there is no colon. *)
LEMMA OneField ==
  ASSUME NEW s \in Seq(Chars), Fields(s) = 1
  PROVE  Field(s)
<1>1. Colons(s) \subseteq 1 .. Len(s) /\ Len(s) \in Nat
  BY ColonsOf
<1>2. IsFiniteSet(Colons(s))
  <2>1. IsFiniteSet(1 .. Len(s))
    BY <1>1, FS_Interval
  <2> QED
    BY <1>1, <2>1, FS_Subset
<1>3. Colons(s) = {}
  <2>1. Cardinality(Colons(s)) \in Nat
    BY <1>2, FS_CardinalityType
  <2>2. Cardinality(Colons(s)) = 0
    BY <2>1 DEF Fields
  <2> QED
    BY <1>2, <2>2, FS_EmptySet
<1> QED
  BY <1>3, ColonsOf DEF Field

(* Three fields: behind the first colon there is another. *)
LEMMA ThreeFields ==
  ASSUME NEW s \in Seq(Chars), Fields(s) = 3
  PROVE  /\ Colons(s) # {} /\ Colons(DataOf(s)) # {}
         /\ Speaker(s) \in Seq(Chars) /\ Spoken(s) \in Seq(Chars)
<1>1. Colons(s) \subseteq 1 .. Len(s) /\ Len(s) \in Nat
  BY ColonsOf
<1>2. IsFiniteSet(Colons(s)) /\ Cardinality(Colons(s)) = 2
  <2>1. IsFiniteSet(1 .. Len(s))
    BY <1>1, FS_Interval
  <2>2. IsFiniteSet(Colons(s))
    BY <1>1, <2>1, FS_Subset
  <2>3. Cardinality(Colons(s)) \in Nat
    BY <2>2, FS_CardinalityType
  <2> QED
    BY <2>2, <2>3 DEF Fields
<1>3. Colons(s) # {}
  BY <1>2, FS_EmptySet
<1>4. PICK j \in Colons(s) : j # FirstColon(s)
  <2> SUFFICES ASSUME \A j \in Colons(s) : j = FirstColon(s) PROVE FALSE
    OBVIOUS
  <2>1. Colons(s) = {FirstColon(s)}
    BY <1>3
  <2>2. Cardinality({FirstColon(s)}) = 1
    BY FS_Singleton
  <2> QED
    BY <1>2, <2>1, <2>2
<1>5. /\ FirstColon(s) \in 1 .. Len(s) /\ FirstColon(s) < j /\ j <= Len(s) /\ s[j] = ":"
      /\ j \in Nat
  <2>1. FirstColon(s) \in Colons(s) /\ FirstColon(s) <= j /\ s[j] = ":" /\ j \in 1 .. Len(s)
    BY <1>1, <1>3, <1>4, ColonsOf
  <2> QED
    BY <1>1, <1>4, <2>1
<1>6. DataOf(s) \in Seq(Chars) /\ Len(DataOf(s)) = Len(s) - FirstColon(s)
      /\ \A i \in 1 .. Len(s) - FirstColon(s) : DataOf(s)[i] = s[FirstColon(s) + i]
  BY <1>3, SplitTypes
<1>7. j - FirstColon(s) \in 1 .. Len(s) - FirstColon(s) /\ FirstColon(s) + (j - FirstColon(s)) = j
  BY <1>1, <1>5
<1>8. DataOf(s)[j - FirstColon(s)] = ":"
  BY <1>5, <1>6, <1>7
<1>9. Colons(DataOf(s)) # {}
  BY <1>6, <1>7, <1>8, ColonsOf
<1>10. TagOf(DataOf(s)) \in Seq(Chars) /\ DataOf(DataOf(s)) \in Seq(Chars)
  BY <1>6, <1>9, SplitTypes
<1> QED
  BY <1>3, <1>9, <1>10 DEF Speaker, Spoken

-----------------------------------------------------------------------------
(* trim *)

(* What trim leaves lies before any newline at the end. *)
LEMMA TrimPiece ==
  ASSUME NEW s \in Seq(Chars), Trim(s) # <<>>
  PROVE  \E m, n \in 1 .. Len(s) : /\ m <= n /\ Trim(s) = SubSeq(s, m, n)
                                   /\ s[n] \notin White
<1> DEFINE black == {i \in DOMAIN s : s[i] \notin White}
<1>1. Len(s) \in Nat /\ DOMAIN s = 1 .. Len(s)
  BY Elements
<1>2. black \subseteq 1 .. Len(s) /\ \A i \in black : s[i] \notin White
  BY <1>1
<1>3. Trim(s) = IF black = {} THEN <<>> ELSE SubSeq(s, Min(black), Max(black))
  BY DEF Trim
<1> HIDE DEF black
<1>4. black # {}
  BY <1>3
<1>5. Min(black) \in black /\ \A i \in black : Min(black) <= i
  <2>1. black \subseteq Nat
    BY <1>2
  <2>2. \E m \in black : \A i \in black : m <= i
    BY <1>4, <2>1, SmallestOf
  <2> QED
    BY <2>2 DEF Min
<1>6. Max(black) \in black
  <2>1. \E m \in black : \A i \in black : m >= i
    BY <1>1, <1>2, <1>4, GreatestOf
  <2> QED
    BY <2>1 DEF Max
<1>7. Min(black) \in 1 .. Len(s) /\ Max(black) \in 1 .. Len(s) /\ Min(black) <= Max(black)
      /\ s[Max(black)] \notin White
  BY <1>2, <1>5, <1>6
<1>8. Trim(s) = SubSeq(s, Min(black), Max(black))
  BY <1>3, <1>4
<1> QED
  BY <1>7, <1>8

LEMMA Trims ==
  ASSUME NEW s \in Seq(Chars)
  PROVE  /\ Trim(s) \in Seq(Chars)
         /\ Plain(s) => IsText(Trim(s))
         /\ Field(s) => Field(Trim(s))
<1>1. CASE Trim(s) = <<>>
  <2>1. <<>> \in Seq(Chars) /\ Len(<<>>) = 0
    BY EmptySeq
  <2> QED
    BY <1>1, <2>1 DEF IsText, Field
<1>2. CASE Trim(s) # <<>>
  <2>1. PICK m \in 1 .. Len(s), n \in 1 .. Len(s) :
          m <= n /\ Trim(s) = SubSeq(s, m, n) /\ s[n] \notin White
    BY <1>2, TrimPiece
  <2>2. Len(s) \in Nat /\ m \in Nat /\ n \in Nat /\ 1 <= m /\ m <= n + 1 /\ n <= Len(s)
    BY <2>1, Elements
  <2>3. /\ Trim(s) \in Seq(Chars) /\ Len(Trim(s)) = n - m + 1
        /\ \A i \in 1 .. n - m + 1 : Trim(s)[i] = s[m + i - 1]
    BY <2>1, <2>2, SubSeqIs
  <2>4. ASSUME NEW i \in 1 .. n - m + 1
        PROVE  m + i - 1 \in 1 .. n
    BY <2>2
  <2>5. ASSUME Plain(s), NEW i \in 1 .. n - m + 1
        PROVE  Trim(s)[i] # NL
    <3>1. m + i - 1 = Len(s) \/ m + i - 1 \in 1 .. Len(s) - 1
      BY <2>2, <2>4
    <3>2. CASE m + i - 1 = Len(s)
      <4>1. m + i - 1 = n
        BY <2>2, <2>4, <3>2
      <4> QED
        BY <2>1, <2>3, <4>1, WhiteAssumption
    <3>3. CASE m + i - 1 \in 1 .. Len(s) - 1
      BY <2>3, <2>5, <3>3 DEF Plain
    <3> QED
      BY <3>1, <3>2, <3>3
  <2>6. ASSUME Field(s), NEW i \in 1 .. n - m + 1
        PROVE  Trim(s)[i] # ":"
    <3>1. m + i - 1 \in 1 .. Len(s)
      BY <2>2, <2>4
    <3> QED
      BY <2>3, <2>6, <3>1 DEF Field
  <2> QED
    BY <2>3, <2>5, <2>6 DEF IsText, Field
<1> QED
  BY <1>1, <1>2

LEMMA Names ==
  ASSUME NEW data \in Seq(Chars)
  PROVE  /\ Name(data) \in Seq(Chars)
         /\ Plain(data) => IsLine(Name(data))
<1>1. Trim(data) \in Seq(Chars) /\ <<NL>> \in Seq(Chars)
  BY Trims, Single, CharsAssumption
<1>2. Name(data) = Trim(data) \o <<NL>>
  BY DEF Name
<1>3. Plain(data) => IsLine(Trim(data) \o <<NL>>)
  BY Trims, Lines
<1> QED
  BY <1>1, <1>2, <1>3, Concat

-----------------------------------------------------------------------------
(* A session over the streams *)

LEMMA EndsOf ==
  ASSUME NEW c \in Conns
  PROVE  /\ Client(c) \in Ends /\ Server(c) \in Ends
         /\ Peer(Client(c)) = Server(c) /\ Peer(Server(c)) = Client(c)
BY DEF Client, Server, Ends, Sides, Peer

LEMMA RolesOf ==
  /\ \A c \in Senders : c \in Conns /\ c \notin Receivers
  /\ \A c \in Receivers : c \in Conns /\ c \notin Senders
  /\ \A c \in Conns : c \in Senders \/ c \in Receivers
BY ClientsAssumption

(* A line that is received is what the call has got, or nothing. *)
LEMMA Received ==
  ASSUME RioInv, NEW e \in Ends, NEW line \in {<<>>, got[e]}
  PROVE  /\ line \in Seq(Chars) /\ Plain(line)
         /\ Valid(line) => /\ Colons(line) # {}
                           /\ DataOf(line) \in Seq(Chars) /\ Plain(DataOf(line))
<1>1. got[e] \in Seq(Chars) /\ Plain(got[e])
  <2>1. got[e] \in Seq(Chars)
    BY StreamTypes DEF RioInv
  <2> QED
    BY <2>1 DEF RioInv, OneLine, Plain
<1>2. <<>> \in Seq(Chars) /\ Plain(<<>>)
  BY EmptySeq DEF Plain
<1>3. line \in Seq(Chars) /\ Plain(line)
  BY <1>1, <1>2
<1>4. ASSUME Valid(line)
      PROVE  Colons(line) # {} /\ DataOf(line) \in Seq(Chars) /\ Plain(DataOf(line))
  <2>1. Colons(line) # {}
    BY <1>4 DEF Valid
  <2> QED
    BY <1>3, <2>1, SplitTypes, DataIsPlain
<1> QED
  BY <1>3, <1>4

(* What the programs send. *)
LEMMA Replies ==
  /\ \A word \in Words : Ok(word) \in Seq(Chars) /\ Err(word) \in Seq(Chars)
  /\ \A tag \in Tags, data \in Seq(Chars) : Encoded(tag, data) \in Seq(Chars)
<1>1. ASSUME NEW tag \in Tags, NEW data \in Seq(Chars)
      PROVE  Encoded(tag, data) \in Seq(Chars)
  BY Encodes
<1>2. ASSUME NEW word \in Words
      PROVE  Ok(word) \in Seq(Chars) /\ Err(word) \in Seq(Chars)
  <2>1. <<word>> \in Seq(Chars)
    BY WordIsField
  <2>2. "ok" \in Tags /\ "err" \in Tags
    BY DEF Tags
  <2> QED
    BY <1>1, <2>1, <2>2 DEF Ok, Err
<1> QED
  BY <1>1, <1>2

(* "ok:", a word and a name. *)
Greeting(word, data) == <<"ok", ":", word>> \o Name(data)

LEMMA Greetings ==
  ASSUME NEW word \in Words, NEW data \in Seq(Chars)
  PROVE  /\ Greeting(word, data) \in Seq(Chars)
         /\ Valid(Greeting(word, data))
         /\ DataOf(Greeting(word, data)) \in Seq(Chars)
         /\ DataOf(Greeting(word, data))[1] = word
         /\ Plain(data) => IsLine(Greeting(word, data))
<1> DEFINE s == Greeting(word, data)
           b == <<word>> \o Trim(data)
<1>1. /\ <<word>> \in Seq(Chars) /\ Trim(data) \in Seq(Chars) /\ <<NL>> \in Seq(Chars)
      /\ Len(<<word>>) = 1 /\ <<word>>[1] = word
  BY WordIsField, Trims, Single, CharsAssumption
<1>2. b \in Seq(Chars) /\ Parts(b, <<word>>, Trim(data))
  BY <1>1, Concat
<1>3. "ok" \in Tags /\ <<"ok", ":">> \in Seq(Chars)
  <2>1. "ok" \in Tags
    BY DEF Tags
  <2> QED
    BY <2>1, Characters
<1>4. s = Encoded("ok", b)
  <2>1. <<"ok", ":", word>> = <<"ok", ":">> \o <<word>>
    OBVIOUS
  <2>2. Associate(<<"ok", ":">>, <<word>>, Trim(data))
    BY <1>1, <1>3, Associates
  <2>3. <<"ok", ":", word>> \o Trim(data) = <<"ok", ":">> \o b
    BY <2>1, <2>2 DEF Associate
  <2>4. <<"ok", ":", word>> \in Seq(Chars)
    BY <1>1, <1>3, <2>1, Concat
  <2>5. Associate(<<"ok", ":", word>>, Trim(data), <<NL>>)
    BY <1>1, <2>4, Associates
  <2>6. <<"ok", ":", word>> \o (Trim(data) \o <<NL>>) = (<<"ok", ":">> \o b) \o <<NL>>
    BY <2>3, <2>5 DEF Associate
  <2> QED
    BY <2>6 DEF Encoded, Greeting, Name
<1>5. b[1] = word /\ Len(b) \in Nat /\ Len(b) > 0
  <2>1. Len(Trim(data)) \in Nat
    BY <1>1, Elements
  <2>2. Len(b) = 1 + Len(Trim(data))
    BY <1>1, <1>2 DEF Parts
  <2>3. b[1] = word
    BY <1>1, <1>2 DEF Parts
  <2> QED
    BY <2>1, <2>2, <2>3
<1> HIDE DEF b
<1>6. /\ s \in Seq(Chars) /\ Valid(s) /\ DataOf(s) = b \o <<NL>>
      /\ IsText(b) => IsLine(s)
  BY <1>2, <1>3, <1>4, Encodes
<1>7. b \o <<NL>> \in Seq(Chars) /\ (b \o <<NL>>)[1] = word
  <2>1. b \o <<NL>> \in Seq(Chars) /\ Parts(b \o <<NL>>, b, <<NL>>)
    BY <1>1, <1>2, Concat
  <2>2. 1 \in 1 .. Len(b)
    BY <1>5
  <2> QED
    BY <1>5, <2>1, <2>2 DEF Parts
<1>8. ASSUME Plain(data) PROVE IsText(b)
  <2>1. IsText(<<word>>) /\ IsText(Trim(data))
    BY <1>8, WordIsText, Trims
  <2> QED
    BY <2>1, Texts DEF b
<1> QED
  BY <1>6, <1>7, <1>8

-----------------------------------------------------------------------------
(* Every step is one of the streams', or leaves them alone. *)

LEMMA StreamSteps ==
  ASSUME NEW e \in Ends
  PROVE  /\ \A text \in Seq(Chars) : StartWrite(e, text) => RioNext
         /\ Write(e) \/ WriteLost(e) \/ Refill(e) \/ Take(e) \/ Close(e) => RioNext
         /\ \A line : Receive(e, line) => RioNext
BY DEF RioNext, Receive

LEMMA Typing ==
  ASSUME TypeOK, NEW c \in Conns
  PROVE  /\ RioTypeOK
         /\ reply[c] \in Seq(Chars) /\ user[c] \in Seq(Chars)
         /\ room[c] \in SUBSET Seq(Chars)
         /\ c \in Senders => /\ answer[c] \in Seq(Chars)
                             /\ script[c] \in Seq([tag : Tags, data : Seq(Chars)])
         /\ c \in Receivers => /\ queue[c] \in Seq(Seq(Chars))
                               /\ cast[c] \in Seq(Seq(Chars) \X Seq(Chars))
                               /\ printed[c] \in Seq(Seq(Chars) \X Seq(Chars))
BY DEF TypeOK

(* What the user of a sender types next. *)
LEMMA Typed ==
  ASSUME TypeOK, NEW c \in Senders, script[c] # <<>>
  PROVE  /\ Head(script[c]).tag \in Tags /\ Head(script[c]).data \in Seq(Chars)
         /\ Tail(script[c]) \in Seq([tag : Tags, data : Seq(Chars)])
<1>1. script[c] \in Seq([tag : Tags, data : Seq(Chars)])
  BY Typing, RolesOf
<1>2. Head(script[c]) \in [tag : Tags, data : Seq(Chars)]
      /\ Tail(script[c]) \in Seq([tag : Tags, data : Seq(Chars)])
  BY <1>1, HeadTailProperties
<1> QED
  BY <1>2

LEMMA ClientSends ==
  ASSUME NEW c \in Conns
  PROVE  /\ Encoded(LoginTag(c), Username[c]) \in Seq(Chars)
         /\ c \in Receivers => Encoded("join", RoomName[c]) \in Seq(Chars)
<1>1. LoginTag(c) \in Tags /\ "join" \in Tags
  BY DEF LoginTag, Tags
<1>2. Username[c] \in Seq(Chars) /\ (c \in Receivers => RoomName[c] \in Seq(Chars))
  BY NamesAssumption
<1> QED
  BY <1>1, <1>2, Replies

(* Only the client of a receiver joins by itself. *)
ReceiversJoin == \A c \in Conns : cpc[c] \in {"join", "joining", "listening"} => c \in Receivers

LEMMA RioStep ==
  ASSUME TypeOK, ReceiversJoin, [Next]_vars
  PROVE  [RioNext]_rioVars
<1>1. CASE UNCHANGED vars
  BY <1>1 DEF vars
<1>2. ASSUME NEW e \in Ends, Transfer(e) PROVE RioNext
  BY <1>2, StreamSteps DEF Transfer
<1>3. ASSUME NEW c \in Conns, ClientStep(c) PROVE [RioNext]_rioVars
  <2>1. Client(c) \in Ends
    BY EndsOf
  <2>2. CASE StartLogin(c)
    BY <2>1, <2>2, ClientSends, StreamSteps DEF StartLogin
  <2>3. CASE StartJoin(c)
    <3>1. c \in Receivers
      BY <2>3 DEF StartJoin, ClientGoto, ReceiversJoin
    <3> QED
      BY <2>1, <2>3, <3>1, ClientSends, StreamSteps DEF StartJoin
  <2>4. CASE EndLogin(c) \/ GetAnswer(c) \/ GetBye(c) \/ Listen(c)
    BY <2>1, <2>4, StreamSteps DEF EndLogin, GetAnswer, GetBye, Listen
  <2>5. CASE EndClient(c) \/ ClientWriteLost(c)
    BY <2>1, <2>5, StreamSteps DEF EndClient, ClientWriteLost
  <2> QED
    BY <1>3, <2>2, <2>3, <2>4, <2>5 DEF ClientStep
<1>4. ASSUME NEW c \in Conns, WorkerStep(c) PROVE [RioNext]_rioVars
  <2>1. Server(c) \in Ends
    BY EndsOf
  <2>2. CASE Reply(c)
    BY <2>1, <2>2, Typing, StreamSteps DEF Reply
  <2>3. CASE LoginRefused(c) \/ Login(c) \/ JoinRefused(c) \/ Join(c)
    BY <2>1, <2>3, StreamSteps DEF LoginRefused, Login, JoinRefused, Join, Serve
  <2>4. CASE Deliver(c) \/ Leave(c)
    BY <2>4 DEF Deliver, Leave
  <2>5. CASE ServeJoin(c) \/ ServeLeave(c) \/ ServeSendAll(c) \/ ServeQuit(c)
             \/ ServeRefused(c) \/ ServeNone(c)
    BY <2>1, <2>5, StreamSteps DEF ServeJoin, ServeLeave, ServeSendAll, ServeQuit,
         ServeRefused, ServeNone, Request, Serve
  <2>6. CASE EndWorker(c) \/ WorkerWriteLost(c)
    BY <2>1, <2>6, StreamSteps DEF EndWorker, WorkerWriteLost
  <2> QED
    BY <1>4, <2>2, <2>3, <2>4, <2>5, <2>6 DEF WorkerStep
<1>5. ASSUME NEW c \in Conns, KillClient(c) PROVE RioNext
  BY <1>5, EndsOf, StreamSteps DEF KillClient
<1>6. ASSUME NEW c \in Senders, Ask(c) PROVE RioNext
  <2>1. Client(c) \in Ends
    BY EndsOf, RolesOf
  <2>2. Encoded(Head(script[c]).tag, Head(script[c]).data) \in Seq(Chars)
    BY <1>6, Typed, Replies DEF Ask
  <2> QED
    BY <1>6, <2>1, <2>2, StreamSteps DEF Ask
<1> QED
  BY <1>1, <1>2, <1>3, <1>4, <1>5, <1>6 DEF Next, Runs

-----------------------------------------------------------------------------
(* Type correctness *)

ClientTypes ==
  /\ cpc \in [Conns -> {"start", "login", "prompt", "asking", "quitting", "join", "joining",
                        "listening", "close", "crash", "ended", "killed"}]
  /\ ask \in [Senders -> {<<>>} \cup {<<tag>> : tag \in Tags}]
  /\ answer \in [Senders -> Seq(Chars)]
  /\ script \in [Senders -> Seq([tag : Tags, data : Seq(Chars)])]
  /\ printed \in [Receivers -> Seq(Seq(Chars) \X Seq(Chars))]

WorkerTypes ==
  /\ wpc \in [Conns -> {"login", "receive", "join", "joined", "deliver", "leave", "close", "ended"}]
  /\ user \in [Conns -> Seq(Chars)]
  /\ \A c \in Conns : room[c] \in SUBSET Seq(Chars) /\ Cardinality(room[c]) <= 1
  /\ room = [c \in Conns |-> room[c]]
  /\ reply \in [Conns -> Seq(Chars)]
  /\ queue \in [Receivers -> Seq(Seq(Chars))]
  /\ cast \in [Receivers -> Seq(Seq(Chars) \X Seq(Chars))]

Types == RioInv /\ ClientTypes /\ WorkerTypes /\ ReceiversJoin

LEMMA TypesImply == Types => TypeOK
BY DEF Types, ClientTypes, WorkerTypes, TypeOK, RioInv

LEMMA TypesInit == Init => Types
<1> SUFFICES ASSUME Init PROVE Types
  OBVIOUS
<1>1. RioInv
  BY RioInvInit DEF Init
<1>2. \A s \in Scripts : s \in Seq([tag : Tags, data : Seq(Chars)])
  <2> DEFINE A == [tag : {"join", "leave", "sendall", "quit"}, data : Seq(Chars)]
             B == [tag : Tags, data : Seq(Chars)]
  <2>1. A \subseteq B
    BY DEF Tags
  <2> SUFFICES ASSUME NEW s \in Scripts PROVE s \in Seq(B)
    OBVIOUS
  <2>2. s \in Seq(A)
    BY ScriptsAssumption
  <2> HIDE DEF A, B
  <2> QED
    BY <2>1, <2>2, SeqMonotonic
<1>3. /\ <<>> \in Seq(Chars) /\ <<>> \in Seq(Seq(Chars)) /\ <<>> \in Seq(Seq(Chars) \X Seq(Chars))
  BY EmptySeq
<1>4. ClientTypes
  BY <1>2, <1>3 DEF Init, ClientTypes
<1>5. WorkerTypes
  <2>1. Cardinality({}) <= 1
    BY FS_EmptySet
  <2> QED
    BY <1>3, <2>1 DEF Init, WorkerTypes
<1>6. ReceiversJoin
  BY DEF Init, ReceiversJoin
<1> QED
  BY <1>1, <1>4, <1>5, <1>6 DEF Types

LEMMA ClientStepTypes ==
  ASSUME Types, NEW c \in Conns, ClientStep(c)
  PROVE  ClientTypes' /\ ReceiversJoin' /\ UNCHANGED workerVars
<1> USE DEF ClientTypes, ReceiversJoin, ClientGoto
<1>1. ClientTypes /\ ReceiversJoin /\ RioInv
  BY DEF Types
<1>2. Client(c) \in Ends
  BY EndsOf
<1>3. CASE StartLogin(c)
  BY <1>1, <1>3 DEF StartLogin
<1>4. CASE EndLogin(c)
  BY <1>1, <1>4, RolesOf DEF EndLogin
<1>5. CASE StartJoin(c)
  BY <1>1, <1>5 DEF StartJoin
<1>6. CASE GetAnswer(c)
  <2>1. PICK line \in {<<>>, got[Client(c)]} :
          /\ cpc[c] = "asking" /\ cpc' = [cpc EXCEPT ![c] = "prompt"]
          /\ answer' = [answer EXCEPT ![c] = IF line # <<>> /\ Valid(line) THEN DataOf(line) ELSE <<>>]
          /\ UNCHANGED <<ask, script, printed, workerVars>>
    BY <1>6 DEF GetAnswer
  <2>2. (IF line # <<>> /\ Valid(line) THEN DataOf(line) ELSE <<>>) \in Seq(Chars)
    BY <1>1, <1>2, Received, EmptySeq
  <2> QED
    BY <1>1, <2>1, <2>2
<1>7. CASE GetBye(c)
  BY <1>1, <1>7 DEF GetBye
<1>8. CASE Listen(c)
  <2>1. PICK line \in {<<>>, got[Client(c)]} :
          /\ cpc[c] = "listening"
          /\ cpc' = [cpc EXCEPT ![c] = IF line = <<>> \/ ~Valid(line) THEN "crash"
                                ELSE IF Fields(DataOf(line)) # 3 THEN "close" ELSE "listening"]
          /\ printed' = [printed EXCEPT ![c] =
               IF line = <<>> \/ ~Valid(line) \/ Fields(DataOf(line)) # 3 THEN @
               ELSE Append(@, <<Speaker(DataOf(line)), Spoken(DataOf(line))>>)]
          /\ UNCHANGED <<ask, answer, script, workerVars>>
    BY <1>8 DEF Listen
  <2>2. c \in Receivers
    BY <1>1, <2>1
  <2>3. printed' \in [Receivers -> Seq(Seq(Chars) \X Seq(Chars))]
    <3>1. CASE line = <<>> \/ ~Valid(line) \/ Fields(DataOf(line)) # 3
      BY <1>1, <2>1, <3>1
    <3>2. CASE ~(line = <<>> \/ ~Valid(line) \/ Fields(DataOf(line)) # 3)
      <4>1. Speaker(DataOf(line)) \in Seq(Chars) /\ Spoken(DataOf(line)) \in Seq(Chars)
        BY <1>1, <1>2, <3>2, Received, ThreeFields
      <4>2. printed[c] \in Seq(Seq(Chars) \X Seq(Chars))
        BY <1>1, <2>2
      <4>3. Append(printed[c], <<Speaker(DataOf(line)), Spoken(DataOf(line))>>)
              \in Seq(Seq(Chars) \X Seq(Chars))
        BY <4>1, <4>2, AppendProperties
      <4> QED
        BY <1>1, <2>1, <3>2, <4>3
    <3> QED
      BY <3>1, <3>2
  <2>4. cpc' \in [Conns -> {"start", "login", "prompt", "asking", "quitting", "join", "joining",
                            "listening", "close", "crash", "ended", "killed"}]
        /\ ReceiversJoin'
    BY <1>1, <2>1, <2>2
  <2> QED
    BY <1>1, <2>1, <2>3, <2>4
<1>9. CASE EndClient(c)
  BY <1>1, <1>9 DEF EndClient
<1>10. CASE ClientWriteLost(c)
  BY <1>1, <1>10 DEF ClientWriteLost
<1> QED
  BY <1>3, <1>4, <1>5, <1>6, <1>7, <1>8, <1>9, <1>10 DEF ClientStep

LEMMA UserTypes ==
  ASSUME Types, NEW c \in Conns, KillClient(c) \/ (c \in Senders /\ Ask(c))
  PROVE  ClientTypes' /\ ReceiversJoin' /\ UNCHANGED workerVars
<1> USE DEF ClientTypes, ReceiversJoin, ClientGoto
<1>1. ClientTypes /\ ReceiversJoin
  BY DEF Types
<1>2. CASE KillClient(c)
  BY <1>1, <1>2 DEF KillClient
<1>3. CASE c \in Senders /\ Ask(c)
  <2>1. /\ Head(script[c]).tag \in Tags
        /\ Tail(script[c]) \in Seq([tag : Tags, data : Seq(Chars)])
    BY <1>3, TypesImply, Typed DEF Ask
  <2> QED
    BY <1>1, <1>3, <2>1 DEF Ask
<1> QED
  BY <1>2, <1>3

(* Every worker stays at the points of its function, and says texts. *)
Told(c) == /\ wpc' = [wpc EXCEPT ![c] = wpc'[c]]
           /\ wpc'[c] \in {"login", "receive", "join", "joined", "deliver", "leave", "close", "ended"}
           /\ reply' = [reply EXCEPT ![c] = reply'[c]] /\ reply'[c] \in Seq(Chars)
           /\ UNCHANGED clientVars

LEMMA Tells ==
  ASSUME WorkerTypes, NEW c \in Conns, Told(c)
  PROVE  /\ wpc' \in [Conns -> {"login", "receive", "join", "joined", "deliver", "leave",
                                "close", "ended"}]
         /\ reply' \in [Conns -> Seq(Chars)]
BY DEF WorkerTypes, Told

LEMMA Serves ==
  ASSUME WorkerTypes, NEW c \in Conns, NEW from, NEW line, NEW text \in Seq(Chars),
         NEW to \in {"login", "receive", "join", "joined", "deliver", "leave", "close", "ended"},
         Serve(c, from, line, text, to)
  PROVE  Told(c) /\ wpc[c] = from /\ wpc'[c] = to /\ reply'[c] = text
         /\ Receive(Server(c), line)
BY DEF WorkerTypes, Told, Serve, WorkerGoto

(* The lines a worker reads. *)
LEMMA ServerReads ==
  ASSUME Types, NEW c \in Conns, NEW line \in {<<>>, got[Server(c)]}
  PROVE  /\ line \in Seq(Chars) /\ Plain(line)
         /\ Valid(line) => DataOf(line) \in Seq(Chars) /\ Plain(DataOf(line))
BY EndsOf, Received DEF Types

LEMMA Singleton == ASSUME NEW x PROVE Cardinality({x}) <= 1
BY FS_Singleton

LEMMA LoginTypes ==
  ASSUME Types, NEW c \in Conns, LoginRefused(c) \/ Login(c)
  PROVE  WorkerTypes' /\ UNCHANGED clientVars
<1>1. WorkerTypes
  BY DEF Types
<1>2. "invalid" \in Words /\ "logged" \in Words
  BY DEF Words
<1>3. CASE LoginRefused(c)
  <2>1. PICK line \in {<<>>, got[Server(c)]} :
          /\ Serve(c, "login", line, IF line # <<>> /\ ~Valid(line) THEN Err("invalid") ELSE <<>>, "close")
          /\ UNCHANGED <<user, room, queue, cast>>
    BY <1>3 DEF LoginRefused
  <2>2. (IF line # <<>> /\ ~Valid(line) THEN Err("invalid") ELSE <<>>) \in Seq(Chars)
    BY <1>2, Replies, EmptySeq
  <2>3. Told(c)
    BY <1>1, <2>1, <2>2, Serves
  <2> QED
    BY <1>1, <2>1, <2>3, Tells DEF WorkerTypes, Told
<1>4. CASE Login(c)
  <2> DEFINE line == got[Server(c)]
  <2>1. /\ Valid(line)
        /\ Serve(c, "login", line, <<"ok", ":", "logged">> \o Name(DataOf(line)),
                 IF HasTag(line, "slogin") THEN "receive" ELSE "join")
        /\ user' = [user EXCEPT ![c] = DataOf(line)]
        /\ UNCHANGED <<room, queue, cast>>
    BY <1>4 DEF Login
  <2>2. DataOf(line) \in Seq(Chars)
    BY <2>1, ServerReads
  <2>3. <<"ok", ":", "logged">> \o Name(DataOf(line)) \in Seq(Chars)
    BY <1>2, <2>2, Greetings DEF Greeting
  <2>4. Told(c)
    BY <1>1, <2>1, <2>3, Serves
  <2> QED
    BY <1>1, <2>1, <2>2, <2>4, Tells DEF WorkerTypes, Told
<1> QED
  BY <1>3, <1>4

LEMMA JoinTypes ==
  ASSUME Types, NEW c \in Conns, JoinRefused(c) \/ Join(c) \/ ServeJoin(c)
  PROVE  WorkerTypes' /\ UNCHANGED clientVars
<1>1. WorkerTypes
  BY DEF Types
<1>2. "refused" \in Words /\ "welcome" \in Words /\ "joined" \in Words
  BY DEF Words
<1>3. CASE JoinRefused(c)
  <2>1. PICK line \in {<<>>, got[Server(c)]} :
          /\ Serve(c, "join", line, Err("refused"), "close")
          /\ UNCHANGED <<user, room, queue, cast>>
    BY <1>3 DEF JoinRefused
  <2>2. Told(c)
    BY <1>1, <1>2, <2>1, Replies, Serves
  <2> QED
    BY <1>1, <2>1, <2>2, Tells DEF WorkerTypes, Told
<1> DEFINE line == got[Server(c)]
<1>4. CASE Join(c) \/ ServeJoin(c)
  <2>1. /\ Valid(line)
        /\ \/ Serve(c, "join", line, Ok("welcome"), "joined")
           \/ Serve(c, "receive", line, <<"ok", ":", "joined">> \o Name(DataOf(line)), "receive")
        /\ room' = [room EXCEPT ![c] = {DataOf(line)}]
        /\ UNCHANGED <<user, queue, cast>>
    BY <1>4 DEF Join, ServeJoin, Request
  <2>2. DataOf(line) \in Seq(Chars)
    BY <2>1, ServerReads
  <2>3. <<"ok", ":", "joined">> \o Name(DataOf(line)) \in Seq(Chars) /\ Ok("welcome") \in Seq(Chars)
    BY <1>2, <2>2, Greetings, Replies DEF Greeting
  <2>4. Told(c)
    BY <1>1, <2>1, <2>3, Serves
  <2>5. \A d \in Conns : room'[d] \in SUBSET Seq(Chars) /\ Cardinality(room'[d]) <= 1
    BY <1>1, <2>1, <2>2, Singleton DEF WorkerTypes
  <2>6. room' = [d \in Conns |-> room'[d]]
    BY <1>1, <2>1 DEF WorkerTypes
  <2> HIDE DEF line
  <2> QED
    BY <1>1, <2>1, <2>4, <2>5, <2>6, Tells DEF WorkerTypes, Told
<1> QED
  BY <1>3, <1>4

LEMMA AnswerTypes ==
  ASSUME Types, NEW c \in Conns,
         \/ ServeLeave(c) \/ ServeQuit(c) \/ ServeRefused(c) \/ ServeNone(c)
  PROVE  WorkerTypes' /\ UNCHANGED clientVars
<1>1. WorkerTypes
  BY DEF Types
<1>2. /\ Ok("left") \in Seq(Chars) /\ Err("noroom") \in Seq(Chars) /\ Ok("bye") \in Seq(Chars)
      /\ Err("badtag") \in Seq(Chars) /\ <<>> \in Seq(Chars)
  BY Replies, EmptySeq DEF Words
<1>3. Told(c) /\ UNCHANGED <<user, room, queue, cast>>
  <2>1. CASE ServeLeave(c)
    <3>1. (IF room[c] # {} THEN Ok("left") ELSE Err("noroom")) \in Seq(Chars)
      BY <1>2
    <3> QED
      BY <1>1, <2>1, <3>1, Serves DEF ServeLeave, Request
  <2>2. CASE ServeQuit(c)
    BY <1>1, <1>2, <2>2, Serves DEF ServeQuit, Request
  <2>3. CASE ServeRefused(c)
    BY <1>1, <1>2, <2>3, Serves DEF ServeRefused, Request
  <2>4. CASE ServeNone(c)
    BY <1>1, <1>2, <2>4, Serves DEF ServeNone
  <2> QED
    BY <2>1, <2>2, <2>3, <2>4
<1> QED
  BY <1>1, <1>3, Tells DEF WorkerTypes, Told

LEMMA QueueTypes ==
  ASSUME Types, NEW c \in Conns, Reply(c) \/ (c \in Receivers /\ Deliver(c)) \/ Leave(c)
  PROVE  WorkerTypes' /\ UNCHANGED clientVars
<1>1. WorkerTypes
  BY DEF Types
<1>2. <<>> \in Seq(Chars) /\ <<>> \in Seq(Seq(Chars))
  BY EmptySeq
<1>3. CASE Reply(c)
  BY <1>1, <1>2, <1>3 DEF Reply, WorkerTypes
<1>4. CASE c \in Receivers /\ Deliver(c)
  <2>1. queue[c] \in Seq(Seq(Chars)) /\ queue[c] # <<>>
    BY <1>1, <1>4 DEF WorkerTypes, Deliver
  <2>2. Head(queue[c]) \in Seq(Chars) /\ Tail(queue[c]) \in Seq(Seq(Chars))
    BY <2>1, HeadTailProperties
  <2>3. "delivery" \in Tags
    BY DEF Tags
  <2>4. Encoded("delivery", Head(queue[c])) \in Seq(Chars)
    BY <2>2, <2>3, Replies
  <2> QED
    BY <1>1, <1>4, <2>2, <2>4 DEF WorkerTypes, Deliver
<1>5. CASE Leave(c)
  <2>1. wpc' \in [Conns -> {"login", "receive", "join", "joined", "deliver", "leave", "close", "ended"}]
    BY <1>1, <1>5 DEF WorkerTypes, Leave, WorkerGoto
  <2>2. \A d \in Conns : room'[d] \in SUBSET Seq(Chars) /\ Cardinality(room'[d]) <= 1
    <3>1. Cardinality({}) <= 1
      BY FS_EmptySet
    <3> QED
      BY <1>1, <1>5, <3>1 DEF WorkerTypes, Leave
  <2>3. room' = [d \in Conns |-> room'[d]] /\ queue' \in [Receivers -> Seq(Seq(Chars))]
    BY <1>1, <1>2, <1>5 DEF WorkerTypes, Leave
  <2> QED
    BY <1>1, <1>5, <2>1, <2>2, <2>3 DEF WorkerTypes, Leave
<1> QED
  BY <1>3, <1>4, <1>5

(* The text of a delivery. *)
Text(name, who, data) == Trim(name) \o <<":">> \o Trim(who) \o <<":">> \o Trim(data)

LEMMA TextTypes ==
  ASSUME NEW name \in Seq(Chars), NEW who \in Seq(Chars), NEW data \in Seq(Chars)
  PROVE  Text(name, who, data) \in Seq(Chars)
<1>1. /\ Trim(name) \in Seq(Chars) /\ Trim(who) \in Seq(Chars) /\ Trim(data) \in Seq(Chars)
      /\ <<":">> \in Seq(Chars)
  BY Trims, Single, Characters
<1>2. Trim(name) \o <<":">> \in Seq(Chars)
  BY <1>1, Concat
<1>3. Trim(name) \o <<":">> \o Trim(who) \in Seq(Chars)
  BY <1>1, <1>2, Concat
<1>4. Trim(name) \o <<":">> \o Trim(who) \o <<":">> \in Seq(Chars)
  BY <1>1, <1>3, Concat
<1> QED
  BY <1>1, <1>4, Concat DEF Text

(* A broadcast: what everybody hears who is in the room. *)
LEMMA SendAllIs ==
  ASSUME Types, NEW c \in Conns, ServeSendAll(c)
  PROVE  LET line == got[Server(c)]
             text == Text(CHOOSE n \in room[c] : TRUE, user[c], DataOf(line))
             said == <<Trim(user[c]), Name(DataOf(line))>>
         IN /\ room[c] # {} /\ (CHOOSE n \in room[c] : TRUE) \in room[c]
            /\ Valid(line) /\ line # <<>> /\ HasTag(line, "sendall")
            /\ Receive(Server(c), line) /\ wpc[c] = "receive" /\ wpc'[c] = "receive"
            /\ Told(c) /\ reply'[c] = Ok("sent")
            /\ UNCHANGED <<user, room>>
            /\ text \in Seq(Chars) /\ said \in Seq(Chars) \X Seq(Chars)
            /\ queue' = [r \in Receivers |-> IF Hears(r, c) THEN Append(queue[r], text) ELSE queue[r]]
            /\ cast' = [r \in Receivers |-> IF Hears(r, c) THEN Append(cast[r], said) ELSE cast[r]]
<1> DEFINE line == got[Server(c)]
           name == CHOOSE n \in room[c] : TRUE
<1>1. WorkerTypes
  BY DEF Types
<1>2. /\ room[c] # {} /\ Request(c, line, "sendall", Ok("sent"), "receive")
      /\ queue' = [r \in Receivers |->
           IF Hears(r, c) THEN Append(queue[r], Text(name, user[c], DataOf(line))) ELSE queue[r]]
      /\ cast' = [r \in Receivers |->
           IF Hears(r, c) THEN Append(cast[r], <<Trim(user[c]), Name(DataOf(line))>>) ELSE cast[r]]
      /\ UNCHANGED <<user, room>>
  BY DEF ServeSendAll, Text
<1>3. name \in room[c] /\ name \in Seq(Chars) /\ user[c] \in Seq(Chars)
  <2>1. name \in room[c]
    BY <1>2
  <2> QED
    BY <1>1, <2>1 DEF WorkerTypes
<1>4. Ok("sent") \in Seq(Chars)
  BY Replies DEF Words
<1>5. /\ Told(c) /\ wpc[c] = "receive" /\ wpc'[c] = "receive" /\ reply'[c] = Ok("sent")
      /\ Receive(Server(c), line) /\ line # <<>> /\ Valid(line) /\ HasTag(line, "sendall")
  BY <1>1, <1>2, <1>4, Serves DEF Request
<1>6. DataOf(line) \in Seq(Chars)
  BY <1>5, ServerReads
<1>7. /\ Text(name, user[c], DataOf(line)) \in Seq(Chars)
      /\ Trim(user[c]) \in Seq(Chars) /\ Name(DataOf(line)) \in Seq(Chars)
  BY <1>3, <1>6, TextTypes, Trims, Names
<1> QED
  BY <1>2, <1>3, <1>5, <1>7

LEMMA SendAllTypes ==
  ASSUME Types, NEW c \in Conns, ServeSendAll(c)
  PROVE  WorkerTypes' /\ UNCHANGED clientVars
<1>1. WorkerTypes
  BY DEF Types
<1>2. PICK text \in Seq(Chars), said \in Seq(Chars) \X Seq(Chars) :
        /\ Told(c) /\ UNCHANGED <<user, room>>
        /\ queue' = [r \in Receivers |-> IF Hears(r, c) THEN Append(queue[r], text) ELSE queue[r]]
        /\ cast' = [r \in Receivers |-> IF Hears(r, c) THEN Append(cast[r], said) ELSE cast[r]]
  <2> DEFINE line == got[Server(c)]
             t == Text(CHOOSE n \in room[c] : TRUE, user[c], DataOf(line))
             s == <<Trim(user[c]), Name(DataOf(line))>>
  <2>1. /\ t \in Seq(Chars) /\ s \in Seq(Chars) \X Seq(Chars)
        /\ Told(c) /\ UNCHANGED <<user, room>>
        /\ queue' = [r \in Receivers |-> IF Hears(r, c) THEN Append(queue[r], t) ELSE queue[r]]
        /\ cast' = [r \in Receivers |-> IF Hears(r, c) THEN Append(cast[r], s) ELSE cast[r]]
    BY SendAllIs
  <2> HIDE DEF t, s
  <2> QED
    BY <2>1
<1>3. queue' \in [Receivers -> Seq(Seq(Chars))]
  <2>1. ASSUME NEW r \in Receivers
        PROVE  queue[r] \in Seq(Seq(Chars)) /\ Append(queue[r], text) \in Seq(Seq(Chars))
    <3>1. queue[r] \in Seq(Seq(Chars))
      BY <1>1 DEF WorkerTypes
    <3> QED
      BY <3>1, AppendProperties
  <2> QED
    BY <1>2, <2>1
<1>4. cast' \in [Receivers -> Seq(Seq(Chars) \X Seq(Chars))]
  <2>1. ASSUME NEW r \in Receivers
        PROVE  /\ cast[r] \in Seq(Seq(Chars) \X Seq(Chars))
               /\ Append(cast[r], said) \in Seq(Seq(Chars) \X Seq(Chars))
    <3>1. cast[r] \in Seq(Seq(Chars) \X Seq(Chars))
      BY <1>1 DEF WorkerTypes
    <3> QED
      BY <3>1, AppendProperties
  <2> QED
    BY <1>2, <2>1
<1> QED
  BY <1>1, <1>2, <1>3, <1>4, Tells DEF WorkerTypes, Told

LEMMA WorkerStepTypes ==
  ASSUME Types, NEW c \in Conns, WorkerStep(c)
  PROVE  WorkerTypes' /\ UNCHANGED clientVars
<1>1. CASE EndWorker(c) \/ WorkerWriteLost(c)
  <2>1. /\ wpc' \in [Conns -> {"login", "receive", "join", "joined", "deliver", "leave", "close", "ended"}]
        /\ UNCHANGED <<clientVars, user, room, reply, queue, cast>>
    BY <1>1 DEF Types, WorkerTypes, EndWorker, WorkerWriteLost, WorkerGoto
  <2> QED
    BY <2>1 DEF Types, WorkerTypes
<1> QED
  BY <1>1, LoginTypes, JoinTypes, AnswerTypes, QueueTypes, SendAllTypes DEF WorkerStep

LEMMA TypesStep == Types /\ [Next]_vars => Types'
<1> SUFFICES ASSUME Types, [Next]_vars PROVE Types'
  OBVIOUS
<1>1. RioInv'
  BY TypesImply, RioStep, RioInvStep DEF Types
<1>2. ClientTypes' /\ WorkerTypes' /\ ReceiversJoin'
  <2>1. CASE UNCHANGED <<clientVars, workerVars>>
    BY <2>1 DEF Types, ClientTypes, WorkerTypes, ReceiversJoin, clientVars, workerVars
  <2>2. ASSUME NEW c \in Conns,
               ClientStep(c) \/ KillClient(c) \/ (c \in Senders /\ Ask(c))
        PROVE  ClientTypes' /\ WorkerTypes' /\ ReceiversJoin'
    <3>1. ClientTypes' /\ ReceiversJoin' /\ UNCHANGED workerVars
      BY <2>2, ClientStepTypes, UserTypes
    <3> QED
      BY <3>1 DEF Types, WorkerTypes, workerVars
  <2>3. ASSUME NEW c \in Conns, WorkerStep(c)
        PROVE  ClientTypes' /\ WorkerTypes' /\ ReceiversJoin'
    <3>1. WorkerTypes' /\ UNCHANGED clientVars
      BY <2>3, WorkerStepTypes
    <3> QED
      BY <3>1 DEF Types, ClientTypes, ReceiversJoin, clientVars
  <2> QED
    BY <2>1, <2>2, <2>3, RolesOf DEF Next, Runs, Transfer, vars
<1> QED
  BY <1>1, <1>2 DEF Types

(* The programs hold what they are meant to hold, whatever is typed, however *)
(* the streams are cut, and whoever is killed.  That a sender's worker is in *)
(* one room at most is part of it.                                           *)
THEOREM TypeCorrect == Spec => []TypeOK
<1>1. Spec => []Types
  BY TypesInit, TypesStep, PTL DEF Spec
<1> QED
  BY <1>1, TypesImply, PTL

(* Lines are read as they were written between the programs, which use the *)
(* streams as Rio lets everybody use them.                                 *)
THEOREM StreamsKeepLines == Spec => []LinesInOrder
<1>1. Types => LinesInOrder
  BY RioInvImplies DEF Types
<1>2. Spec => []Types
  BY TypesInit, TypesStep, PTL DEF Spec
<1> QED
  BY <1>1, <1>2, PTL

-----------------------------------------------------------------------------
(* What a step of one connection leaves alone *)

StepAt(c) == \/ ClientStep(c) \/ WorkerStep(c) \/ KillClient(c)
             \/ c \in Senders /\ Ask(c)

(* What the client and the worker of d have said, read and closed. *)
Alone(d) == /\ sent'[Client(d)] = sent[Client(d)] /\ sent'[Server(d)] = sent[Server(d)]
            /\ read'[Client(d)] = read[Client(d)] /\ read'[Server(d)] = read[Server(d)]
            /\ unsent'[Server(d)] = unsent[Server(d)]
            /\ Client(d) \in closed' <=> Client(d) \in closed
            /\ Server(d) \in closed' <=> Server(d) \in closed

SameClient(d) == /\ cpc'[d] = cpc[d]
                 /\ d \in Senders => ask'[d] = ask[d] /\ answer'[d] = answer[d]
                 /\ d \in Receivers => printed'[d] = printed[d]

SameWorker(d) == wpc'[d] = wpc[d] /\ user'[d] = user[d] /\ room'[d] = room[d] /\ reply'[d] = reply[d]

LEMMA Different ==
  ASSUME NEW c \in Conns, NEW d \in Conns, d # c
  PROVE  /\ Client(c) # Client(d) /\ Client(c) # Server(d)
         /\ Server(c) # Client(d) /\ Server(c) # Server(d)
BY DEF Client, Server

LEMMA StreamsAlone ==
  ASSUME Types, NEW c \in Conns, NEW d \in Conns, d # c, NEW e \in {Client(c), Server(c)}
  PROVE  /\ \A text : StartWrite(e, text) => Alone(d)
         /\ WriteLost(e) => Alone(d)
         /\ Close(e) => Alone(d)
         /\ \A line : Receive(e, line) => Alone(d)
<1>1. /\ unsent \in [Ends -> Seq(Chars)] /\ sent \in [Ends -> Seq(Chars)]
      /\ read \in [Ends -> Seq(Chars)] /\ got \in [Ends -> Seq(Chars)]
  BY DEF Types, RioInv, RioTypeOK
<1>2. e \in Ends /\ Client(d) \in Ends /\ Server(d) \in Ends /\ e # Client(d) /\ e # Server(d)
  BY EndsOf, Different
<1>3. ASSUME NEW text, StartWrite(e, text) PROVE Alone(d)
  BY <1>1, <1>2, <1>3 DEF StartWrite, Alone
<1>4. ASSUME WriteLost(e) PROVE Alone(d)
  BY <1>1, <1>2, <1>4 DEF WriteLost, Alone
<1>5. ASSUME Close(e) PROVE Alone(d)
  BY <1>1, <1>2, <1>5 DEF Close, Alone, streams
<1>6. ASSUME NEW line, Receive(e, line) PROVE Alone(d)
  BY <1>1, <1>2, <1>6 DEF Receive, ReturnsLine, ReturnsNone, EndCall, Alone
<1> QED
  BY <1>3, <1>4, <1>5, <1>6

LEMMA ClientAlone ==
  ASSUME Types, NEW c \in Conns, NEW d \in Conns, d # c,
         ClientStep(c) \/ KillClient(c) \/ (c \in Senders /\ Ask(c))
  PROVE  Alone(d) /\ SameClient(d) /\ SameWorker(d)
<1> DEFINE e == Client(c)
<1>1. ClientTypes
  BY DEF Types
<1>2. e \in {Client(c), Server(c)}
  OBVIOUS
<1>3. Alone(d)
  <2>1. CASE StartLogin(c) \/ StartJoin(c)
    BY <2>1, StreamsAlone DEF StartLogin, StartJoin
  <2>2. CASE EndLogin(c) \/ GetAnswer(c) \/ GetBye(c) \/ Listen(c)
    BY <2>2, StreamsAlone DEF EndLogin, GetAnswer, GetBye, Listen
  <2>3. CASE EndClient(c) \/ ClientWriteLost(c) \/ KillClient(c)
    BY <2>3, StreamsAlone DEF EndClient, ClientWriteLost, KillClient
  <2>4. CASE c \in Senders /\ Ask(c)
    BY <2>4, StreamsAlone DEF Ask
  <2> QED
    BY <2>1, <2>2, <2>3, <2>4 DEF ClientStep
<1>4. UNCHANGED workerVars
  BY ClientStepTypes, UserTypes
<1>5. SameClient(d)
  <2> USE <1>1 DEF ClientTypes, SameClient, ClientGoto
  <2>1. CASE StartLogin(c) \/ StartJoin(c)
    BY <2>1 DEF StartLogin, StartJoin
  <2>2. CASE EndLogin(c)
    BY <2>2 DEF EndLogin
  <2>3. CASE GetAnswer(c)
    BY <2>3 DEF GetAnswer
  <2>4. CASE GetBye(c)
    BY <2>4 DEF GetBye
  <2>5. CASE Listen(c)
    BY <2>5 DEF Listen
  <2>6. CASE EndClient(c) \/ ClientWriteLost(c) \/ KillClient(c)
    BY <2>6 DEF EndClient, ClientWriteLost, KillClient
  <2>7. CASE c \in Senders /\ Ask(c)
    BY <2>7 DEF Ask
  <2> QED
    BY <2>1, <2>2, <2>3, <2>4, <2>5, <2>6, <2>7 DEF ClientStep
<1> QED
  BY <1>3, <1>4, <1>5 DEF SameWorker, workerVars

LEMMA WorkerAlone ==
  ASSUME Types, NEW c \in Conns, NEW d \in Conns, d # c, WorkerStep(c)
  PROVE  Alone(d) /\ SameClient(d) /\ SameWorker(d)
<1>1. WorkerTypes
  BY DEF Types
<1>2. Alone(d)
  <2>1. CASE Reply(c)
    BY <2>1, StreamsAlone DEF Reply
  <2>2. CASE LoginRefused(c) \/ Login(c) \/ JoinRefused(c) \/ Join(c)
    BY <2>2, StreamsAlone DEF LoginRefused, Login, JoinRefused, Join, Serve
  <2>3. CASE Deliver(c) \/ Leave(c)
    BY <2>3 DEF Deliver, Leave, Alone, rioVars, streams
  <2>4. CASE ServeJoin(c) \/ ServeLeave(c) \/ ServeSendAll(c) \/ ServeQuit(c)
             \/ ServeRefused(c) \/ ServeNone(c)
    BY <2>4, StreamsAlone DEF ServeJoin, ServeLeave, ServeSendAll, ServeQuit,
         ServeRefused, ServeNone, Request, Serve
  <2>5. CASE EndWorker(c) \/ WorkerWriteLost(c)
    BY <2>5, StreamsAlone DEF EndWorker, WorkerWriteLost
  <2> QED
    BY <2>1, <2>2, <2>3, <2>4, <2>5, Zenon DEF WorkerStep
<1>3. UNCHANGED clientVars
  BY WorkerStepTypes
<1>4. SameWorker(d)
  <2> USE <1>1 DEF WorkerTypes, SameWorker, Serve, WorkerGoto
  <2>1. CASE Reply(c) \/ Deliver(c)
    BY <2>1 DEF Reply, Deliver
  <2>2. CASE LoginRefused(c) \/ JoinRefused(c)
    BY <2>2 DEF LoginRefused, JoinRefused
  <2>3. CASE Login(c)
    BY <2>3 DEF Login
  <2>4. CASE Join(c)
    BY <2>4 DEF Join
  <2>5. CASE Leave(c)
    BY <2>5 DEF Leave
  <2>6. CASE ServeJoin(c)
    BY <2>6 DEF ServeJoin, Request
  <2>7. CASE ServeLeave(c) \/ ServeQuit(c) \/ ServeRefused(c) \/ ServeNone(c)
    BY <2>7 DEF ServeLeave, ServeQuit, ServeRefused, ServeNone, Request
  <2>8. CASE ServeSendAll(c)
    BY <2>8 DEF ServeSendAll, Request
  <2>9. CASE EndWorker(c) \/ WorkerWriteLost(c)
    BY <2>9 DEF EndWorker, WorkerWriteLost
  <2> QED
    BY <2>1, <2>2, <2>3, <2>4, <2>5, <2>6, <2>7, <2>8, <2>9, Zenon DEF WorkerStep
<1> QED
  BY <1>2, <1>3, <1>4 DEF SameClient, clientVars

LEMMA StepAlone ==
  ASSUME Types, NEW c \in Conns, NEW d \in Conns, d # c, StepAt(c)
  PROVE  Alone(d) /\ SameClient(d) /\ SameWorker(d)
BY ClientAlone, WorkerAlone DEF StepAt

(* The network changes nothing of what has been said, read and closed. *)
LEMMA TransferAlone ==
  ASSUME NEW e \in Ends, Transfer(e)
  PROVE  UNCHANGED <<sent, read, closed, clientVars, workerVars>>
BY DEF Transfer, Write, Refill, Take

LEMMA StepIs ==
  ASSUME Next
  PROVE  \/ \E e \in Ends : Transfer(e)
         \/ \E c \in Conns : StepAt(c)
BY RolesOf DEF Next, Runs, StepAt

-----------------------------------------------------------------------------
(* Who has closed a connection *)

ClientClosed(c) == Client(c) \in closed => cpc[c] \in {"ended", "killed"}
ServerClosed(c) == Server(c) \in closed =>
                     wpc[c] = "ended" /\ unsent[Server(c)] = <<>> /\ reply[c] = <<>>

ClosedInv == \A c \in Conns : ClientClosed(c) /\ ServerClosed(c)

LEMMA ClosedInit == Init => ClosedInv
BY DEF Init, RioInit, ClosedInv, ClientClosed, ServerClosed

LEMMA ClientClosedStep ==
  ASSUME Types, NEW c \in Conns, StepAt(c), ClientClosed(c)
  PROVE  ClientClosed(c)'
<1>1. ClientTypes
  BY DEF Types
<1> USE DEF ClientTypes, ClientClosed, ClientGoto
<1>2. CASE ClientStep(c)
  <2>1. CASE StartLogin(c) \/ StartJoin(c)
    BY <1>1, <2>1 DEF StartLogin, StartJoin, StartWrite
  <2>2. CASE EndLogin(c)
    BY <1>1, <2>2 DEF EndLogin, Receive, ReturnsLine, ReturnsNone, EndCall
  <2>3. CASE GetAnswer(c)
    BY <1>1, <2>3 DEF GetAnswer, Receive, ReturnsLine, ReturnsNone, EndCall
  <2>4. CASE GetBye(c)
    BY <1>1, <2>4 DEF GetBye, Receive, ReturnsLine, ReturnsNone, EndCall
  <2>5. CASE Listen(c)
    BY <1>1, <2>5 DEF Listen, Receive, ReturnsLine, ReturnsNone, EndCall
  <2>6. CASE EndClient(c)
    BY <1>1, <2>6 DEF EndClient
  <2>7. CASE ClientWriteLost(c)
    BY <1>1, <2>7 DEF ClientWriteLost, WriteLost
  <2> QED
    BY <1>2, <2>1, <2>2, <2>3, <2>4, <2>5, <2>6, <2>7 DEF ClientStep
<1>3. CASE KillClient(c)
  BY <1>1, <1>3 DEF KillClient
<1>4. CASE c \in Senders /\ Ask(c)
  BY <1>1, <1>4 DEF Ask, StartWrite
<1>5. CASE WorkerStep(c)
  <2>1. UNCHANGED cpc
    BY <1>5, WorkerStepTypes DEF clientVars
  <2>2. Client(c) \in closed' => Client(c) \in closed
    <3>1. CASE EndWorker(c)
      <4>1. closed' = closed \cup {Server(c)} /\ Client(c) # Server(c)
        BY <3>1 DEF EndWorker, Close, Client, Server
      <4> QED
        BY <4>1
    <3>2. CASE Reply(c) \/ Deliver(c) \/ Leave(c)
      BY <3>2 DEF Reply, Deliver, Leave, StartWrite, rioVars
    <3>3. CASE LoginRefused(c) \/ Login(c) \/ JoinRefused(c) \/ Join(c)
      BY <3>3 DEF LoginRefused, Login, JoinRefused, Join, Serve, Receive, ReturnsLine,
           ReturnsNone, EndCall
    <3>4. CASE ServeJoin(c) \/ ServeLeave(c) \/ ServeSendAll(c) \/ ServeQuit(c)
               \/ ServeRefused(c) \/ ServeNone(c)
      BY <3>4 DEF ServeJoin, ServeLeave, ServeSendAll, ServeQuit, ServeRefused, ServeNone,
           Request, Serve, Receive, ReturnsLine, ReturnsNone, EndCall
    <3>5. CASE WorkerWriteLost(c)
      BY <3>5 DEF WorkerWriteLost, WriteLost
    <3> QED
      BY <1>5, <3>1, <3>2, <3>3, <3>4, <3>5, Zenon DEF WorkerStep
  <2> QED
    BY <2>1, <2>2
<1> QED
  BY <1>2, <1>3, <1>4, <1>5 DEF StepAt

(* A worker that has ended does nothing any more. *)
LEMMA EndedRests ==
  ASSUME NEW c \in Conns, WorkerStep(c), wpc[c] = "ended", unsent[Server(c)] = <<>>,
         reply[c] = <<>>
  PROVE  FALSE
<1>1. ~Reply(c)
  BY DEF Reply
<1>2. ~LoginRefused(c) /\ ~Login(c) /\ ~JoinRefused(c) /\ ~Join(c)
  BY DEF LoginRefused, Login, JoinRefused, Join, Serve, WorkerGoto
<1>3. ~Deliver(c) /\ ~Leave(c) /\ ~EndWorker(c)
  BY DEF Deliver, Leave, EndWorker, WorkerGoto
<1>4. /\ ~ServeJoin(c) /\ ~ServeLeave(c) /\ ~ServeSendAll(c) /\ ~ServeQuit(c)
      /\ ~ServeRefused(c) /\ ~ServeNone(c)
  BY DEF ServeJoin, ServeLeave, ServeSendAll, ServeQuit, ServeRefused, ServeNone, Request,
         Serve, WorkerGoto
<1>5. ~WorkerWriteLost(c)
  BY DEF WorkerWriteLost, WriteLost
<1> QED
  BY <1>1, <1>2, <1>3, <1>4, <1>5, Zenon DEF WorkerStep

LEMMA ServerClosedStep ==
  ASSUME Types, NEW c \in Conns, StepAt(c), ServerClosed(c)
  PROVE  ServerClosed(c)'
<1>1. WorkerTypes /\ RioTypeOK
  BY DEF Types, RioInv
<1>2. CASE WorkerStep(c)
  <2>1. Server(c) \notin closed
    BY <1>2, EndedRests DEF ServerClosed
  <2>2. CASE EndWorker(c)
    BY <1>1, <2>2 DEF EndWorker, WorkerGoto, Close, Sent, ServerClosed, WorkerTypes, streams
  <2>3. CASE ~EndWorker(c)
    <3>1. closed' = closed
      <4>1. CASE Reply(c) \/ Deliver(c) \/ Leave(c)
        BY <4>1 DEF Reply, Deliver, Leave, StartWrite, rioVars
      <4>2. CASE LoginRefused(c) \/ Login(c) \/ JoinRefused(c) \/ Join(c)
        BY <4>2 DEF LoginRefused, Login, JoinRefused, Join, Serve, Receive, ReturnsLine,
             ReturnsNone, EndCall
      <4>3. CASE ServeJoin(c) \/ ServeLeave(c) \/ ServeSendAll(c) \/ ServeQuit(c)
                 \/ ServeRefused(c) \/ ServeNone(c)
        BY <4>3 DEF ServeJoin, ServeLeave, ServeSendAll, ServeQuit, ServeRefused, ServeNone,
             Request, Serve, Receive, ReturnsLine, ReturnsNone, EndCall
      <4>4. CASE WorkerWriteLost(c)
        BY <4>4 DEF WorkerWriteLost, WriteLost
      <4> QED
        BY <1>2, <2>3, <4>1, <4>2, <4>3, <4>4, Zenon DEF WorkerStep
    <3> QED
      BY <2>1, <3>1 DEF ServerClosed
  <2> QED
    BY <2>2, <2>3
<1>3. CASE ClientStep(c) \/ KillClient(c) \/ (c \in Senders /\ Ask(c))
  <2>1. UNCHANGED <<wpc, reply>>
    BY <1>3, ClientStepTypes, UserTypes DEF workerVars
  <2>2. unsent'[Server(c)] = unsent[Server(c)] /\ (Server(c) \in closed' => Server(c) \in closed)
    <3>1. Client(c) # Server(c) /\ Server(c) \in Ends
      BY EndsOf DEF Client, Server
    <3>2. CASE StartLogin(c) \/ StartJoin(c)
      BY <1>1, <3>1, <3>2 DEF StartLogin, StartJoin, StartWrite, RioTypeOK
    <3>3. CASE EndLogin(c) \/ GetAnswer(c) \/ GetBye(c) \/ Listen(c)
      BY <3>3 DEF EndLogin, GetAnswer, GetBye, Listen, Receive, ReturnsLine, ReturnsNone, EndCall
    <3>4. CASE EndClient(c) \/ KillClient(c)
      BY <3>1, <3>4 DEF EndClient, KillClient, Close, streams
    <3>5. CASE ClientWriteLost(c)
      BY <1>1, <3>1, <3>5 DEF ClientWriteLost, WriteLost, RioTypeOK
    <3>6. CASE c \in Senders /\ Ask(c)
      BY <1>1, <3>1, <3>6 DEF Ask, StartWrite, RioTypeOK
    <3> QED
      BY <1>3, <3>2, <3>3, <3>4, <3>5, <3>6, Zenon DEF ClientStep
  <2> QED
    BY <2>1, <2>2 DEF ServerClosed
<1> QED
  BY <1>2, <1>3 DEF StepAt

LEMMA ClosedStep ==
  ASSUME Types, ClosedInv, [Next]_vars
  PROVE  ClosedInv'
<1>1. CASE UNCHANGED vars
  BY <1>1 DEF ClosedInv, ClientClosed, ServerClosed, vars, rioVars, streams, clientVars, workerVars
<1>2. ASSUME NEW e \in Ends, Transfer(e) PROVE ClosedInv'
  <2>1. UNCHANGED <<closed, cpc, wpc, reply>>
    BY <1>2, TransferAlone DEF clientVars, workerVars
  <2>2. ASSUME NEW c \in Conns, Server(c) \in closed
        PROVE  unsent'[Server(c)] = unsent[Server(c)]
    <3>1. CASE e \notin closed /\ Write(e)
      <4>1. Server(c) # e /\ Server(c) \in Ends
        BY <2>2, <3>1, EndsOf
      <4> QED
        BY <3>1, <4>1 DEF Write, Types, RioInv, RioTypeOK
    <3>2. CASE Refill(e) \/ Take(e)
      BY <3>2 DEF Refill, Take
    <3> QED
      BY <1>2, <3>1, <3>2 DEF Transfer
  <2> QED
    BY <2>1, <2>2 DEF ClosedInv, ClientClosed, ServerClosed
<1>3. ASSUME NEW c \in Conns, StepAt(c) PROVE ClosedInv'
  <2>1. ClientClosed(c)' /\ ServerClosed(c)'
    BY <1>3, ClientClosedStep, ServerClosedStep DEF ClosedInv
  <2>2. ASSUME NEW d \in Conns, d # c
        PROVE  ClientClosed(d)' /\ ServerClosed(d)'
    BY <1>3, <2>2, StepAlone DEF Alone, SameClient, SameWorker, ClosedInv, ClientClosed, ServerClosed
  <2> QED
    BY <2>1, <2>2 DEF ClosedInv
<1> QED
  BY <1>1, <1>2, <1>3, StepIs

-----------------------------------------------------------------------------
(* What an end has not read yet *)

(* The sections of a stream, as one piece that is being read and the rest. *)
Regrouped(r, g, b, w, u, x) == /\ b \o w \o u \o x \in Seq(Chars)
                               /\ r \o g \o b \o w \o u \o x = r \o (g \o (b \o w \o u \o x))

LEMMA Regroup ==
  ASSUME NEW r \in Seq(Chars), NEW g \in Seq(Chars), NEW b \in Seq(Chars),
         NEW w \in Seq(Chars), NEW u \in Seq(Chars), NEW x \in Seq(Chars)
  PROVE  Regrouped(r, g, b, w, u, x)
<1> DEFINE b1 == b \o w
           b2 == b1 \o u
           b3 == b2 \o x
           r1 == r \o g
           r2 == r1 \o b
           r3 == r2 \o w
           r4 == r3 \o u
<1>1. b1 \in Seq(Chars)
  BY Concat
<1>2. b2 \in Seq(Chars)
  BY <1>1, Concat
<1>3. b3 \in Seq(Chars)
  BY <1>2, Concat
<1>4. r1 \in Seq(Chars)
  BY Concat
<1> HIDE DEF r1
<1>5. r3 = r1 \o b1
  <2>1. Associate(r1, b, w)
    BY <1>4, Associates
  <2> QED
    BY <2>1 DEF Associate
<1>6. (r1 \o b1) \o u = r1 \o b2
  <2> HIDE DEF b1
  <2>1. Associate(r1, b1, u)
    BY <1>1, <1>4, Associates
  <2> QED
    BY <2>1 DEF Associate
<1>7. (r1 \o b2) \o x = r1 \o b3
  <2> HIDE DEF b2
  <2>1. Associate(r1, b2, x)
    BY <1>2, <1>4, Associates
  <2> QED
    BY <2>1 DEF Associate
<1> USE DEF r1
<1>8. r1 \o b3 = r \o (g \o b3)
  <2> HIDE DEF b3
  <2>1. Associate(r, g, b3)
    BY <1>3, Associates
  <2> QED
    BY <2>1 DEF Associate
<1>9. r4 \o x = r \o (g \o b3)
  <2>1. r4 = (r1 \o b1) \o u
    BY <1>5
  <2> HIDE DEF r4, r3, r1, b3, b2, b1
  <2> QED
    BY <2>1, <1>6, <1>7, <1>8
<1> QED
  BY <1>3, <1>9 DEF Regrouped

(* Of what its peer has said, with extra to come, e has read all but t. *)
LEMMA Comes ==
  ASSUME Types, NEW e \in Ends, NEW extra \in Seq(Chars), NEW t \in Seq(Chars),
         sent[Peer(e)] \o extra = read[e] \o t
  PROVE  \E rest \in Seq(Chars) :
           /\ got[e] \o rest = t
           /\ rest = buf[e] \o wire[e] \o unsent[Peer(e)] \o extra
<1>1. /\ read[e] \in Seq(Chars) /\ got[e] \in Seq(Chars) /\ buf[e] \in Seq(Chars)
      /\ wire[e] \in Seq(Chars) /\ unsent[Peer(e)] \in Seq(Chars)
  BY StreamTypes, PeerOfEnd DEF Types, RioInv
<1>2. read[e] \o got[e] \o buf[e] \o wire[e] \o unsent[Peer(e)] = sent[Peer(e)]
  BY DEF Types, RioInv, InOrder
<1> DEFINE rest == buf[e] \o wire[e] \o unsent[Peer(e)] \o extra
<1>3. /\ rest \in Seq(Chars)
      /\ read[e] \o got[e] \o buf[e] \o wire[e] \o unsent[Peer(e)] \o extra
           = read[e] \o (got[e] \o rest)
  <2>1. Regrouped(read[e], got[e], buf[e], wire[e], unsent[Peer(e)], extra)
    BY <1>1, Regroup
  <2> QED
    BY <2>1 DEF Regrouped
<1>4. rest = buf[e] \o wire[e] \o unsent[Peer(e)] \o extra
  OBVIOUS
<1> HIDE DEF rest
<1>5. got[e] \o rest \in Seq(Chars)
  BY <1>1, <1>3, Concat
<1>6. read[e] \o (got[e] \o rest) = read[e] \o t
  BY <1>2, <1>3
<1>7. got[e] \o rest = t
  BY <1>1, <1>5, <1>6, Cancel
<1> QED
  BY <1>3, <1>4, <1>7

(* Nothing is left to read: nothing is under way. *)
LEMMA NothingComes ==
  ASSUME Types, NEW e \in Ends, NEW extra \in Seq(Chars),
         sent[Peer(e)] \o extra = read[e]
  PROVE  /\ got[e] = <<>> /\ buf[e] = <<>> /\ wire[e] = <<>> /\ unsent[Peer(e)] = <<>>
         /\ extra = <<>>
<1>1. /\ read[e] \in Seq(Chars) /\ got[e] \in Seq(Chars) /\ buf[e] \in Seq(Chars)
      /\ wire[e] \in Seq(Chars) /\ unsent[Peer(e)] \in Seq(Chars) /\ <<>> \in Seq(Chars)
  BY StreamTypes, PeerOfEnd, EmptySeq DEF Types, RioInv
<1>2. PICK rest \in Seq(Chars) : /\ got[e] \o rest = <<>>
                                 /\ rest = buf[e] \o wire[e] \o unsent[Peer(e)] \o extra
  <2>1. sent[Peer(e)] \o extra = read[e] \o <<>>
    BY <1>1, EmptyOnRight
  <2> QED
    BY <1>1, <2>1, Comes
<1>3. got[e] = <<>> /\ rest = <<>>
  BY <1>1, <1>2, EmptyOnRight
<1>4. buf[e] \o wire[e] \in Seq(Chars) /\ buf[e] \o wire[e] \o unsent[Peer(e)] \in Seq(Chars)
  BY <1>1, Concat
<1>5. buf[e] \o wire[e] \o unsent[Peer(e)] = <<>> /\ extra = <<>>
  <2> DEFINE held == buf[e] \o wire[e] \o unsent[Peer(e)]
  <2>1. held \in Seq(Chars) /\ held \o extra = <<>>
    BY <1>2, <1>3, <1>4
  <2> HIDE DEF held
  <2>2. held = <<>> /\ extra = <<>>
    BY <2>1, EmptyOnRight
  <2> QED
    BY <2>2 DEF held
<1>6. buf[e] \o wire[e] = <<>> /\ unsent[Peer(e)] = <<>>
  BY <1>1, <1>4, <1>5, EmptyOnRight
<1> QED
  BY <1>1, <1>3, <1>5, <1>6, EmptyOnRight

(* While the lines fit, an end that has one line to read, or none, reads    *)
(* that line.  Nothing is received only from a peer that has closed.        *)
Remains(e, extra, t) == /\ extra \in Seq(Chars)
                        /\ sent[Peer(e)] \o extra = read[e] \o t
                        /\ Peer(e) \in closed => unsent[Peer(e)] = <<>> /\ extra = <<>>

IsRead(e, extra, t, line) ==
  /\ line = <<>> => Peer(e) \in closed
  /\ line # <<>> => line = t /\ read'[e] = sent[Peer(e)] \o extra /\ UNCHANGED sent

LEMMA Reads ==
  ASSUME Types, NEW e \in Ends, NEW extra, NEW t, t = <<>> \/ IsLine(t),
         Remains(e, extra, t), Fits(sent[Peer(e)]),
         NEW line, Receive(e, line)
  PROVE  IsRead(e, extra, t, line)
<1>1. /\ read[e] \in Seq(Chars) /\ got[e] \in Seq(Chars) /\ read \in [Ends -> Seq(Chars)]
      /\ t \in Seq(Chars) /\ <<>> \in Seq(Chars) /\ extra \in Seq(Chars)
  BY StreamTypes, EmptySeq DEF Types, RioInv, IsLine, Plain, RioTypeOK, Remains
<1>2. CASE ReturnsNone(e) /\ line = <<>>
  BY <1>2 DEF ReturnsNone, AtEOF, IsRead
<1>3. CASE ReturnsLine(e) /\ line = got[e]
  <2>1. PICK rest \in Seq(Chars) : /\ got[e] \o rest = t
                                   /\ rest = buf[e] \o wire[e] \o unsent[Peer(e)] \o extra
    BY <1>1, Comes DEF Remains
  <2>2. got[e] # <<>>
    <3>1. CASE HasLine(e)
      <4>1. Len(got[e]) > 0
        BY <1>1, <3>1, LimitIsPositive, LenProperties, Emptiness DEF HasLine, EndsLine
      <4> QED
        BY <1>1, <4>1, Emptiness
    <3>2. CASE ~HasLine(e)
      BY <1>3, <3>2 DEF ReturnsLine
    <3> QED
      BY <3>1, <3>2
  <2>3. IsLine(t)
    BY <1>1, <2>1, <2>2, EmptyOnRight
  <2>4. got[e] = t
    <3>1. CASE HasLine(e)
      <4>1. IsLine(got[e])
        BY <1>1, <3>1, LineEnds DEF Types, RioInv, OneLine, IsLine, Plain
      <4> QED
        BY <2>1, <2>3, <4>1, FrontOfLine
    <3>2. CASE ~HasLine(e)
      <4>1. Peer(e) \in closed /\ wire[e] = <<>> /\ buf[e] = <<>>
        BY <1>3, <3>2 DEF ReturnsLine, AtEOF
      <4>2. rest = <<>>
        BY <1>1, <2>1, <4>1, EmptyOnRight DEF Remains
      <4> QED
        BY <1>1, <2>1, <4>2, EmptyOnRight
    <3> QED
      BY <3>1, <3>2
  <2>5. read'[e] = read[e] \o got[e] /\ UNCHANGED sent
    BY <1>1, <1>3 DEF ReturnsLine, EndCall
  <2> QED
    BY <1>3, <2>2, <2>4, <2>5 DEF IsRead, Remains
<1> QED
  BY <1>2, <1>3 DEF Receive

(* Whatever fits was fitting before. *)
LEMMA FitsEarlier ==
  ASSUME Types, [Next]_vars, NEW e \in Ends, Fits(sent'[e])
  PROVE  Fits(sent[e])
<1>1. RioTypeOK /\ sent \in [Ends -> Seq(Chars)]
  BY DEF Types, RioInv, RioTypeOK
<1>2. [RioNext]_rioVars
  BY TypesImply, RioStep DEF Types
<1>3. CASE \E f \in Ends, text \in Seq(Chars) : StartWrite(f, text)
  <2>1. PICK f \in Ends, text \in Seq(Chars) : sent' = [sent EXCEPT ![f] = @ \o text]
    BY <1>3 DEF StartWrite
  <2>2. sent'[e] = sent[e] \o text \/ sent'[e] = sent[e]
    BY <1>1, <2>1
  <2> QED
    BY <1>1, <2>2, FitsBefore
<1>4. CASE UNCHANGED sent
  BY <1>4
<1> QED
  BY <1>2, <1>3, <1>4 DEF RioNext, Write, WriteLost, Refill, Take, ReturnsLine, ReturnsNone,
     EndCall, Close, rioVars, streams

-----------------------------------------------------------------------------
(* What users may type *)

Requests == {q \in [tag : {"join", "leave", "sendall", "quit"}, data : Seq(Chars)] :
               NoNewline(q.data)}

ScriptInv == \A c \in Senders : script[c] \in Seq(Requests)

LEMMA ScriptInit == Init => ScriptInv
<1> SUFFICES ASSUME Init, NEW c \in Senders PROVE script[c] \in Seq(Requests)
  BY DEF ScriptInv
<1> DEFINE R == [tag : {"join", "leave", "sendall", "quit"}, data : Seq(Chars)]
<1>1. script[c] \in Scripts
  BY DEF Init
<1>2. script[c] \in Seq(R) /\ \A i \in DOMAIN script[c] : NoNewline(script[c][i].data)
  BY <1>1, ScriptsAssumption
<1>3. /\ Len(script[c]) \in Nat /\ DOMAIN script[c] = 1 .. Len(script[c])
      /\ script[c] = [i \in 1 .. Len(script[c]) |-> script[c][i]]
      /\ \A i \in 1 .. Len(script[c]) : script[c][i] \in R
  <2> HIDE DEF R
  <2> QED
    BY <1>2, LenProperties, ElementOfSeq
<1>4. \A i \in 1 .. Len(script[c]) : script[c][i] \in Requests
  BY <1>2, <1>3 DEF Requests
<1>5. script[c] \in [1 .. Len(script[c]) -> Requests]
  BY <1>3, <1>4
<1> QED
  BY <1>3, <1>5, SeqDef

LEMMA ScriptStep ==
  ASSUME Types, ScriptInv, [Next]_vars
  PROVE  ScriptInv'
<1>1. CASE UNCHANGED script
  BY <1>1 DEF ScriptInv
<1>2. ASSUME NEW c \in Senders, Ask(c) PROVE ScriptInv'
  <2>1. script[c] \in Seq(Requests) /\ script[c] # <<>> /\ script' = [script EXCEPT ![c] = Tail(@)]
    BY <1>2 DEF ScriptInv, Ask
  <2>2. Tail(script[c]) \in Seq(Requests)
    BY <2>1, HeadTailProperties
  <2>3. script \in [Senders -> Seq([tag : Tags, data : Seq(Chars)])]
    BY DEF Types, ClientTypes
  <2> QED
    BY <2>1, <2>2, <2>3 DEF ScriptInv
<1>3. ASSUME NEW c \in Conns, ClientStep(c) \/ KillClient(c) PROVE UNCHANGED script
  BY <1>3, Zenon DEF ClientStep, StartLogin, EndLogin, StartJoin, GetAnswer, GetBye, Listen, EndClient,
     ClientWriteLost, KillClient
<1>4. ASSUME NEW c \in Conns, WorkerStep(c) PROVE UNCHANGED script
  BY <1>4, WorkerStepTypes DEF clientVars
<1>5. ASSUME NEW e \in Ends, Transfer(e) PROVE UNCHANGED script
  BY <1>5 DEF Transfer, clientVars
<1> QED
  BY <1>1, <1>2, <1>3, <1>4, <1>5 DEF Next, Runs, vars, clientVars

-----------------------------------------------------------------------------
(* Requests and answers *)

IsRequest(line, tag) == IsLine(line) /\ Valid(line) /\ TagOf(line) = <<tag>>

IsAnswer(line, tag) == /\ IsLine(line) /\ Valid(line)
                       /\ DataOf(line)[1] \in Answers[tag]

LEMMA Requesting ==
  ASSUME NEW tag \in Tags, NEW data \in Seq(Chars), NoNewline(data)
  PROVE  IsRequest(Encoded(tag, data), tag) /\ Encoded(tag, data) \in Seq(Chars)
<1>1. IsText(data)
  BY Elements DEF IsText, NoNewline
<1> QED
  BY <1>1, Encodes DEF IsRequest

LEMMA OneTag ==
  ASSUME NEW line, NEW tag, NEW other, IsRequest(line, tag), HasTag(line, other)
  PROVE  other = tag
BY DEF IsRequest, HasTag

(* "ok:" or "err:" and a word. *)
LEMMA Answering ==
  ASSUME NEW word \in Words
  PROVE  /\ IsLine(Ok(word)) /\ Valid(Ok(word)) /\ DataOf(Ok(word))[1] = word
         /\ IsLine(Err(word)) /\ Valid(Err(word)) /\ DataOf(Err(word))[1] = word
<1>1. <<word>> \in Seq(Chars) /\ IsText(<<word>>) /\ Len(<<word>>) = 1 /\ <<word>>[1] = word
  BY WordIsText, WordIsField
<1>2. (<<word>> \o <<NL>>)[1] = word
  <2>1. <<NL>> \in Seq(Chars)
    BY Characters, Single
  <2>2. Parts(<<word>> \o <<NL>>, <<word>>, <<NL>>)
    BY <1>1, <2>1, Concat
  <2> QED
    BY <1>1, <2>2 DEF Parts
<1>3. ASSUME NEW tag \in {"ok", "err"}
      PROVE  /\ IsLine(Encoded(tag, <<word>>)) /\ Valid(Encoded(tag, <<word>>))
             /\ DataOf(Encoded(tag, <<word>>))[1] = word
  <2>1. tag \in Tags
    BY DEF Tags
  <2> QED
    BY <1>1, <1>2, <2>1, Encodes
<1> QED
  BY <1>3 DEF Ok, Err

-----------------------------------------------------------------------------
(* A sender's client and its worker: what is on its way between them *)

Engaged == {"start", "login", "prompt", "asking"}

(* The worker still has to read t, and the client u. *)
Owes(c, t, u) == /\ sent[Client(c)] = read[Server(c)] \o t
                 /\ sent[Server(c)] \o reply[c] = read[Client(c)] \o u

(* One line at most, and in which direction; and what it is. *)
Exchange(cp, wp, ak, an, t, u) ==
  \/ /\ cp = "start" /\ wp = "login" /\ ak = <<>>
     /\ t = <<>> /\ u = <<>>
  \/ /\ cp = "login" /\ ak = <<>>
     /\ \/ wp = "login" /\ IsRequest(t, "slogin") /\ u = <<>>
        \/ wp = "receive" /\ t = <<>> /\ IsLine(u)
        \/ wp \in {"close", "ended"} /\ t = <<>> /\ u = <<>>
  \/ /\ cp = "prompt" /\ wp = "receive"
     /\ t = <<>> /\ u = <<>>
     /\ ak # <<>> => an[1] \in Answers[ak[1]]
  \/ /\ cp = "asking" /\ wp = "receive"
     /\ ak[1] \in {"join", "leave", "sendall"}
     /\ \/ IsRequest(t, ak[1]) /\ u = <<>>
        \/ t = <<>> /\ IsAnswer(u, ak[1])

InStep(c) ==
  cpc[c] \in Engaged /\ Fits(sent[Client(c)]) /\ Fits(sent[Server(c)]) =>
    \E t, u \in Seq(Chars) :
      Owes(c, t, u) /\ Exchange(cpc[c], wpc[c], ask[c], answer[c], t, u)

LEMMA SessionTypes ==
  ASSUME Types, NEW c \in Conns
  PROVE  /\ sent[Client(c)] \in Seq(Chars) /\ sent[Server(c)] \in Seq(Chars)
         /\ read[Client(c)] \in Seq(Chars) /\ read[Server(c)] \in Seq(Chars)
         /\ reply[c] \in Seq(Chars) /\ <<>> \in Seq(Chars)
         /\ sent \in [Ends -> Seq(Chars)] /\ read \in [Ends -> Seq(Chars)]
         /\ reply \in [Conns -> Seq(Chars)]
BY EndsOf, EmptySeq DEF Types, RioInv, RioTypeOK, WorkerTypes

LEMMA ClientSays ==
  ASSUME Types, NEW c \in Conns, NEW text \in Seq(Chars), NEW u, Owes(c, <<>>, u),
         StartWrite(Client(c), text), UNCHANGED reply
  PROVE  Owes(c, text, u)'
<1>1. Client(c) \in Ends /\ Server(c) \in Ends /\ Client(c) # Server(c)
  BY EndsOf DEF Client, Server
<1>2. sent[Client(c)] = read[Server(c)]
  BY SessionTypes, EmptyOnRight DEF Owes
<1>3. sent'[Client(c)] = sent[Client(c)] \o text /\ sent'[Server(c)] = sent[Server(c)]
      /\ read' = read
  BY <1>1, SessionTypes DEF StartWrite
<1> QED
  BY <1>2, <1>3 DEF Owes

LEMMA ClientReads ==
  ASSUME Types, ClosedInv, NEW c \in Conns, NEW t, NEW u, u = <<>> \/ IsLine(u),
         Owes(c, t, u), Fits(sent[Server(c)]),
         NEW line, Receive(Client(c), line), UNCHANGED reply
  PROVE  /\ line = <<>> => Server(c) \in closed
         /\ line # <<>> => line = u /\ Owes(c, t, <<>>)'
<1>1. Client(c) \in Ends /\ Peer(Client(c)) = Server(c) /\ Client(c) # Server(c)
  BY EndsOf DEF Client, Server
<1>2. Server(c) \in closed => unsent[Server(c)] = <<>> /\ reply[c] = <<>>
  BY DEF ClosedInv, ServerClosed
<1>3. /\ line = <<>> => Server(c) \in closed
      /\ line # <<>> => /\ line = u
                        /\ read'[Client(c)] = sent[Server(c)] \o reply[c]
                        /\ UNCHANGED sent
  <2>1. Remains(Client(c), reply[c], u)
    BY <1>1, <1>2, SessionTypes DEF Owes, Remains
  <2>2. IsRead(Client(c), reply[c], u, line)
    BY <1>1, <2>1, Reads
  <2> QED
    BY <1>1, <2>2 DEF IsRead
<1>4. read'[Server(c)] = read[Server(c)]
  BY <1>1, EndsOf, SessionTypes DEF Receive, ReturnsLine, ReturnsNone, EndCall
<1>5. ASSUME line # <<>> PROVE Owes(c, t, <<>>)'
  <2>1. sent[Server(c)] \o reply[c] \in Seq(Chars)
    BY SessionTypes, Concat
  <2>2. read'[Client(c)] = read'[Client(c)] \o <<>>
    BY <1>3, <1>5, <2>1, EmptyOnRight
  <2> QED
    BY <1>3, <1>4, <1>5, <2>2 DEF Owes
<1> QED
  BY <1>3, <1>5

LEMMA WorkerReads ==
  ASSUME Types, ClosedInv, NEW c \in Conns, cpc[c] \in Engaged, NEW t, NEW u,
         t = <<>> \/ IsLine(t), Owes(c, t, u), Fits(sent[Client(c)]),
         NEW line, Receive(Server(c), line)
  PROVE  /\ line # <<>> /\ line = t
         /\ \A text \in Seq(Chars) : u = <<>> /\ reply'[c] = text => Owes(c, <<>>, text)'
<1>1. Server(c) \in Ends /\ Peer(Server(c)) = Client(c) /\ Client(c) # Server(c)
  BY EndsOf DEF Client, Server
<1>2. Client(c) \notin closed
  BY DEF ClosedInv, ClientClosed, Engaged
<1>3. sent[Client(c)] \o <<>> = sent[Client(c)]
  BY SessionTypes, EmptyOnRight
<1>4. /\ line = <<>> => Client(c) \in closed
      /\ line # <<>> => /\ line = t
                        /\ read'[Server(c)] = sent[Client(c)] \o <<>>
                        /\ UNCHANGED sent
  <2>1. Remains(Server(c), <<>>, t)
    BY <1>1, <1>2, <1>3, SessionTypes DEF Owes, Remains
  <2>2. IsRead(Server(c), <<>>, t, line)
    BY <1>1, <2>1, Reads
  <2> QED
    BY <1>1, <2>2 DEF IsRead
<1>5. line # <<>> /\ line = t /\ read'[Server(c)] = sent[Client(c)] /\ UNCHANGED sent
  BY <1>2, <1>3, <1>4
<1>6. read'[Client(c)] = read[Client(c)] /\ reply[c] = <<>>
  BY <1>1, EndsOf, SessionTypes DEF Receive, Receives, ReturnsLine, ReturnsNone, EndCall, Server
<1>7. ASSUME NEW text \in Seq(Chars), u = <<>>, reply'[c] = text
      PROVE  Owes(c, <<>>, text)'
  <2>1. sent[Server(c)] = read[Client(c)]
    BY <1>6, <1>7, SessionTypes, EmptyOnRight DEF Owes
  <2> QED
    BY <1>3, <1>5, <1>6, <1>7, <2>1 DEF Owes
<1> QED
  BY <1>5, <1>7

(* The next answer is sent as it was decided on. *)
LEMMA Replying ==
  ASSUME Types, NEW c \in Conns, Reply(c), NEW t, NEW u, Owes(c, t, u)
  PROVE  Owes(c, t, u)'
<1>1. Client(c) \in Ends /\ Server(c) \in Ends /\ Client(c) # Server(c)
  BY EndsOf DEF Client, Server
<1>2. /\ sent'[Server(c)] = sent[Server(c)] \o reply[c] /\ sent'[Client(c)] = sent[Client(c)]
      /\ read' = read /\ reply'[c] = <<>>
  BY <1>1, SessionTypes DEF Reply, StartWrite
<1>3. sent[Server(c)] \o reply[c] \in Seq(Chars)
  BY SessionTypes, Concat
<1>4. sent'[Server(c)] \o <<>> = sent[Server(c)] \o reply[c]
  BY <1>2, <1>3, EmptyOnRight
<1> QED
  BY <1>2, <1>4 DEF Owes

(* A worker of a sender that reads: its client waits for what it answers. *)
LEMMA WorkerIsAsked ==
  ASSUME Types, ClosedInv, NEW c \in Conns, cpc[c] \in Engaged, NEW t, NEW u,
         Fits(sent[Client(c)]), Owes(c, t, u),
         Exchange(cpc[c], wpc[c], ask[c], answer[c], t, u),
         NEW line, Receive(Server(c), line)
  PROVE  /\ line # <<>> /\ line = t /\ u = <<>>
         /\ \/ wpc[c] = "login" /\ cpc[c] = "login" /\ ask[c] = <<>> /\ IsRequest(line, "slogin")
            \/ wpc[c] = "receive" /\ cpc[c] = "asking" /\ IsRequest(line, ask[c][1])
               /\ ask[c][1] \in {"join", "leave", "sendall"}
         /\ \A text \in Seq(Chars) : reply'[c] = text => Owes(c, <<>>, text)'
<1>1. t = <<>> \/ IsLine(t)
  BY DEF Exchange, IsRequest
<1>2. line # <<>> /\ line = t
  BY <1>1, WorkerReads
<1>3. u = <<>>
  BY <1>2 DEF Exchange
<1>4. \/ wpc[c] = "login" /\ cpc[c] = "login" /\ ask[c] = <<>> /\ IsRequest(line, "slogin")
      \/ wpc[c] = "receive" /\ cpc[c] = "asking" /\ IsRequest(line, ask[c][1])
         /\ ask[c][1] \in {"join", "leave", "sendall"}
  BY <1>2 DEF Exchange
<1>5. \A text \in Seq(Chars) : reply'[c] = text => Owes(c, <<>>, text)'
  BY <1>1, <1>3, WorkerReads
<1> QED
  BY <1>2, <1>3, <1>4, <1>5

(* Read, and answered with text: the worker goes on at to. *)
LEMMA ServesInStep ==
  ASSUME Types, ClosedInv, NEW c \in Conns, cpc[c] \in Engaged, NEW t, NEW u,
         Fits(sent[Client(c)]), Owes(c, t, u),
         Exchange(cpc[c], wpc[c], ask[c], answer[c], t, u),
         NEW from, NEW line, NEW text \in Seq(Chars),
         NEW to \in {"receive", "close", "join", "joined"}, Serve(c, from, line, text, to),
         Exchange(cpc[c], to, ask[c], answer[c], <<>>, text)
  PROVE  \E t2, u2 \in Seq(Chars) :
           Owes(c, t2, u2)' /\ Exchange(cpc[c], wpc'[c], ask[c], answer[c], t2, u2)
<1>1. WorkerTypes
  BY DEF Types
<1>2. wpc'[c] = to /\ reply'[c] = text /\ Receive(Server(c), line)
  BY <1>1, Serves
<1>3. Owes(c, <<>>, text)'
  BY <1>2, WorkerIsAsked
<1> QED
  BY <1>2, <1>3, EmptySeq

LEMMA LoginInStep ==
  ASSUME Types, ClosedInv, NEW c \in Conns, cpc[c] \in Engaged, NEW t, NEW u,
         Fits(sent[Client(c)]), Owes(c, t, u),
         Exchange(cpc[c], wpc[c], ask[c], answer[c], t, u),
         LoginRefused(c) \/ Login(c)
  PROVE  \E t2, u2 \in Seq(Chars) :
           Owes(c, t2, u2)' /\ Exchange(cpc[c], wpc'[c], ask[c], answer[c], t2, u2)
<1>1. CASE LoginRefused(c)
  <2>1. PICK line :
          /\ Serve(c, "login", line, IF line # <<>> /\ ~Valid(line) THEN Err("invalid") ELSE <<>>, "close")
    BY <1>1 DEF LoginRefused
  <2>2. Receive(Server(c), line) /\ wpc[c] = "login"
    BY <2>1 DEF Serve, WorkerGoto
  <2>3. Valid(line) /\ cpc[c] = "login" /\ ask[c] = <<>>
    BY <2>2, WorkerIsAsked DEF IsRequest
  <2>4. Serve(c, "login", line, <<>>, "close")
    BY <2>1, <2>3
  <2>5. Exchange(cpc[c], "close", ask[c], answer[c], <<>>, <<>>)
    BY <2>3 DEF Exchange
  <2> QED
    BY <2>4, <2>5, ServesInStep, EmptySeq
<1>2. CASE Login(c)
  <2>1. PICK line : /\ line = got[Server(c)] /\ line # <<>> /\ Valid(line)
                    /\ Serve(c, "login", line, Greeting("logged", DataOf(line)),
                             IF HasTag(line, "slogin") THEN "receive" ELSE "join")
    BY <1>2 DEF Login, Greeting
  <2>2. Receive(Server(c), line) /\ wpc[c] = "login"
    BY <2>1 DEF Serve, WorkerGoto
  <2>3. IsRequest(line, "slogin") /\ cpc[c] = "login" /\ ask[c] = <<>>
    BY <2>2, WorkerIsAsked
  <2>4. DataOf(line) \in Seq(Chars) /\ Plain(DataOf(line)) /\ "logged" \in Words
    BY <2>1, ServerReads DEF Words
  <2>5. PICK text \in Seq(Chars) : text = Greeting("logged", DataOf(line)) /\ IsLine(text)
    BY <2>4, Greetings
  <2>6. Serve(c, "login", line, text, "receive")
    BY <2>1, <2>3, <2>5 DEF IsRequest, HasTag
  <2>7. Exchange(cpc[c], "receive", ask[c], answer[c], <<>>, text)
    BY <2>3, <2>5 DEF Exchange
  <2> QED
    BY <2>6, <2>7, ServesInStep
<1> QED
  BY <1>1, <1>2

(* What the worker of a sender answers to what it was asked. *)
LEMMA RequestInStep ==
  ASSUME Types, ClosedInv, NEW c \in Conns, cpc[c] \in Engaged, NEW t, NEW u,
         Fits(sent[Client(c)]), Owes(c, t, u),
         Exchange(cpc[c], wpc[c], ask[c], answer[c], t, u),
         NEW line, NEW tag \in {"join", "leave", "sendall"}, NEW text, IsAnswer(text, tag),
         Request(c, line, tag, text, "receive")
  PROVE  \E t2, u2 \in Seq(Chars) :
           Owes(c, t2, u2)' /\ Exchange(cpc[c], wpc'[c], ask[c], answer[c], t2, u2)
<1>1. Serve(c, "receive", line, text, "receive") /\ HasTag(line, tag)
  BY DEF Request
<1>2. Receive(Server(c), line) /\ wpc[c] = "receive"
  BY <1>1 DEF Serve, WorkerGoto
<1>3. cpc[c] = "asking" /\ IsRequest(line, ask[c][1])
  BY <1>2, WorkerIsAsked
<1>4. ask[c][1] = tag
  BY <1>1, <1>3, OneTag
<1>5. Exchange(cpc[c], "receive", ask[c], answer[c], <<>>, text)
  BY <1>3, <1>4 DEF Exchange
<1>6. text \in Seq(Chars)
  BY DEF IsAnswer, IsLine, Plain
<1> QED
  BY <1>1, <1>5, <1>6, ServesInStep

LEMMA WorkerInStep ==
  ASSUME Types, ClosedInv, NEW c \in Senders, cpc[c] \in Engaged,
         NEW t \in Seq(Chars), NEW u \in Seq(Chars),
         Fits(sent[Client(c)]), Owes(c, t, u),
         Exchange(cpc[c], wpc[c], ask[c], answer[c], t, u), WorkerStep(c)
  PROVE  \E t2, u2 \in Seq(Chars) :
           Owes(c, t2, u2)' /\ Exchange(cpc[c], wpc'[c], ask[c], answer[c], t2, u2)
<1>1. c \in Conns /\ c \notin Receivers /\ WorkerTypes
  BY RolesOf DEF Types
<1>2. CASE Reply(c)
  BY <1>1, <1>2, Replying DEF Reply
<1>3. CASE LoginRefused(c) \/ Login(c)
  BY <1>1, <1>3, LoginInStep
<1>4. ~JoinRefused(c) /\ ~Join(c) /\ ~Leave(c)
  BY DEF Exchange, JoinRefused, Join, Leave, Serve, WorkerGoto
<1>5. CASE ServeJoin(c)
  <2>1. PICK line : /\ line = got[Server(c)] /\ Valid(line)
                    /\ Request(c, line, "join", Greeting("joined", DataOf(line)), "receive")
    BY <1>5 DEF ServeJoin, Greeting, Request
  <2>2. DataOf(line) \in Seq(Chars) /\ Plain(DataOf(line)) /\ "joined" \in Words
    BY <1>1, <2>1, ServerReads DEF Words
  <2>3. PICK text : text = Greeting("joined", DataOf(line)) /\ IsAnswer(text, "join")
    BY <2>2, Greetings DEF IsAnswer, Answers
  <2> QED
    BY <1>1, <2>1, <2>3, RequestInStep
<1>6. CASE ServeLeave(c)
  <2>1. IsAnswer(Ok("left"), "leave") /\ IsAnswer(Err("noroom"), "leave")
    BY Answering DEF IsAnswer, Answers, Words
  <2>2. PICK line, text : IsAnswer(text, "leave") /\ Request(c, line, "leave", text, "receive")
    BY <1>6, <2>1 DEF ServeLeave
  <2> QED
    BY <1>1, <2>2, RequestInStep
<1>7. CASE ServeSendAll(c)
  <2>1. IsAnswer(Ok("sent"), "sendall")
    BY Answering DEF IsAnswer, Answers, Words
  <2>2. PICK line, text : IsAnswer(text, "sendall") /\ Request(c, line, "sendall", text, "receive")
    BY <1>7, <2>1 DEF ServeSendAll
  <2> QED
    BY <1>1, <2>2, RequestInStep
<1>8. ASSUME NEW line, Receive(Server(c), line), wpc[c] = "receive"
      PROVE  /\ line # <<>> /\ Valid(line)
             /\ \E tag \in {"join", "leave", "sendall"} : IsRequest(line, tag)
  BY <1>1, <1>8, WorkerIsAsked DEF IsRequest
<1>9. ~ServeQuit(c)
  <2> SUFFICES ASSUME ServeQuit(c) PROVE FALSE
    OBVIOUS
  <2>1. PICK line : HasTag(line, "quit") /\ Receive(Server(c), line) /\ wpc[c] = "receive"
    BY DEF ServeQuit, Request, Serve, WorkerGoto
  <2> QED
    BY <1>8, <2>1, OneTag
<1>10. CASE ServeRefused(c)
  <2>1. CASE \E line : Request(c, line, "sendall", Err("noroom"), "receive")
    <3>1. IsAnswer(Err("noroom"), "sendall")
      BY Answering DEF IsAnswer, Answers, Words
    <3>2. PICK line, text : IsAnswer(text, "sendall") /\ Request(c, line, "sendall", text, "receive")
      BY <2>1, <3>1
    <3> QED
      BY <1>1, <3>2, RequestInStep
  <2>2. CASE \E line : /\ Serve(c, "receive", line, Err("badtag"), "receive")
                       /\ \A tag \in {"join", "leave", "sendall", "quit"} : ~HasTag(line, tag)
    <3>1. PICK line : /\ Receive(Server(c), line) /\ wpc[c] = "receive"
                      /\ \A tag \in {"join", "leave", "sendall", "quit"} : ~HasTag(line, tag)
      BY <2>2 DEF Serve, WorkerGoto
    <3>2. PICK tag \in {"join", "leave", "sendall"} : IsRequest(line, tag)
      BY <1>8, <3>1
    <3> QED
      BY <3>1, <3>2 DEF IsRequest, HasTag
  <2> QED
    BY <1>10, <2>1, <2>2 DEF ServeRefused
<1>11. ~ServeNone(c)
  <2> SUFFICES ASSUME ServeNone(c) PROVE FALSE
    OBVIOUS
  <2>1. PICK line : Receive(Server(c), line) /\ wpc[c] = "receive" /\ (line # <<>> => ~Valid(line))
    BY DEF ServeNone, Serve, WorkerGoto
  <2> QED
    BY <1>8, <2>1
<1>12. CASE EndWorker(c)
  <2>1. /\ wpc[c] = "close" /\ wpc'[c] = "ended"
        /\ UNCHANGED <<sent, read, reply>>
    BY <1>1, <1>12 DEF EndWorker, WorkerGoto, Close, WorkerTypes
  <2>2. Exchange(cpc[c], "ended", ask[c], answer[c], t, u)
    BY <2>1 DEF Exchange
  <2> QED
    BY <2>1, <2>2 DEF Owes
<1>13. ~WorkerWriteLost(c)
  BY <1>1, EndsOf DEF WorkerWriteLost, WriteLost, ClosedInv, ClientClosed, Engaged
<1> QED
  BY <1>1, <1>2, <1>3, <1>4, <1>5, <1>6, <1>7, <1>9, <1>10, <1>11, <1>12, <1>13, Zenon DEF WorkerStep

LEMMA ClientInStep ==
  ASSUME Types, ClosedInv, ScriptInv, NEW c \in Senders, cpc[c] \in Engaged, cpc'[c] \in Engaged,
         NEW t \in Seq(Chars), NEW u \in Seq(Chars),
         Fits(sent[Server(c)]), Owes(c, t, u),
         Exchange(cpc[c], wpc[c], ask[c], answer[c], t, u),
         ClientStep(c) \/ KillClient(c) \/ Ask(c)
  PROVE  \E t2, u2 \in Seq(Chars) :
           Owes(c, t2, u2)' /\ Exchange(cpc'[c], wpc[c], ask'[c], answer'[c], t2, u2)
<1>1. c \in Conns /\ c \notin Receivers /\ ClientTypes /\ <<>> \in Seq(Chars)
  BY RolesOf, EmptySeq DEF Types
<1>2. u = <<>> \/ IsLine(u)
  BY DEF Exchange, IsAnswer
<1>3. CASE StartLogin(c)
  <2>1. NoNewline(Username[c]) /\ Username[c] \in Seq(Chars) /\ LoginTag(c) = "slogin"
    BY <1>1, NamesAssumption DEF LoginTag
  <2>2. PICK text \in Seq(Chars) : text = Encoded("slogin", Username[c]) /\ IsRequest(text, "slogin")
    BY <2>1, Requesting DEF Tags
  <2>3. /\ cpc[c] = "start" /\ cpc'[c] = "login" /\ StartWrite(Client(c), text)
        /\ UNCHANGED <<ask, answer, reply>>
    BY <1>1, <1>3, <2>1, <2>2 DEF StartLogin, ClientGoto, workerVars, ClientTypes
  <2>4. t = <<>> /\ u = <<>> /\ wpc[c] = "login" /\ ask[c] = <<>>
    BY <2>3 DEF Exchange
  <2>5. Owes(c, text, <<>>)'
    BY <1>1, <2>3, <2>4, ClientSays
  <2>6. Exchange("login", wpc[c], ask[c], answer[c], text, <<>>)
    BY <2>2, <2>4 DEF Exchange
  <2> QED
    BY <1>1, <2>3, <2>5, <2>6
<1>4. CASE EndLogin(c)
  <2>1. PICK line : /\ Receive(Client(c), line) /\ cpc[c] \in {"login", "joining"}
                    /\ cpc'[c] = IF ~Accepted(line) THEN "close"
                                 ELSE IF cpc[c] = "joining" THEN "listening"
                                 ELSE IF c \in Senders THEN "prompt" ELSE "join"
                    /\ UNCHANGED <<ask, answer, reply>>
    BY <1>1, <1>4 DEF EndLogin, workerVars, ClientTypes
  <2>2. cpc[c] = "login" /\ cpc'[c] = "prompt" /\ line # <<>>
    BY <2>1 DEF Engaged, Accepted
  <2>3. line = u /\ Owes(c, t, <<>>)'
    BY <1>1, <1>2, <2>1, <2>2, ClientReads
  <2>4. t = <<>> /\ wpc[c] = "receive" /\ ask[c] = <<>>
    BY <2>2, <2>3 DEF Exchange
  <2>5. Exchange("prompt", wpc[c], ask[c], answer[c], <<>>, <<>>)
    BY <2>4 DEF Exchange
  <2> QED
    BY <1>1, <2>1, <2>2, <2>3, <2>4, <2>5
<1>5. CASE GetAnswer(c)
  <2>1. PICK line : /\ Receive(Client(c), line) /\ cpc[c] = "asking" /\ cpc'[c] = "prompt"
                    /\ answer'[c] = IF line # <<>> /\ Valid(line) THEN DataOf(line) ELSE <<>>
                    /\ UNCHANGED <<ask, reply>>
    BY <1>1, <1>5 DEF GetAnswer, ClientGoto, workerVars, ClientTypes
  <2>2. wpc[c] = "receive"
    BY <2>1 DEF Exchange
  <2>3. line # <<>> /\ line = u /\ Owes(c, t, <<>>)'
    BY <1>1, <1>2, <2>1, <2>2, ClientReads DEF ClosedInv, ServerClosed
  <2>4. t = <<>> /\ IsAnswer(u, ask[c][1])
    BY <2>1, <2>3 DEF Exchange
  <2>5. answer'[c][1] \in Answers[ask[c][1]]
    BY <2>1, <2>3, <2>4 DEF IsAnswer
  <2>6. Exchange("prompt", wpc[c], ask[c], answer'[c], <<>>, <<>>)
    BY <2>2, <2>5 DEF Exchange
  <2> QED
    BY <1>1, <2>1, <2>3, <2>4, <2>6
<1>6. CASE Ask(c)
  <2>1. script[c] \in Seq(Requests) /\ script[c] # <<>>
    BY <1>6 DEF Ask, ScriptInv
  <2>2. PICK q \in Requests : q = Head(script[c])
    BY <2>1, HeadTailProperties
  <2>3. /\ cpc[c] = "prompt" /\ StartWrite(Client(c), Encoded(q.tag, q.data))
        /\ ask'[c] = <<q.tag>> /\ cpc'[c] = IF q.tag = "quit" THEN "quitting" ELSE "asking"
        /\ UNCHANGED <<answer, reply>>
    BY <1>1, <1>6, <2>2 DEF Ask, ClientGoto, workerVars, ClientTypes
  <2>4. cpc'[c] = "asking" /\ q.tag \in {"join", "leave", "sendall"} /\ q.data \in Seq(Chars)
        /\ NoNewline(q.data) /\ q.tag \in Tags
    BY <2>2, <2>3 DEF Engaged, Requests, Tags
  <2>5. PICK text \in Seq(Chars) : text = Encoded(q.tag, q.data) /\ IsRequest(text, q.tag)
    BY <2>4, Requesting
  <2>6. t = <<>> /\ u = <<>> /\ wpc[c] = "receive"
    BY <2>3 DEF Exchange
  <2>7. Owes(c, text, <<>>)'
    BY <1>1, <2>3, <2>5, <2>6, ClientSays
  <2>8. Exchange("asking", wpc[c], ask'[c], answer[c], text, <<>>)
    BY <2>3, <2>4, <2>5, <2>6 DEF Exchange
  <2> QED
    BY <1>1, <2>3, <2>4, <2>7, <2>8
<1>7. CASE ClientWriteLost(c)
  <2>1. UNCHANGED <<sent, read, reply, ask, answer>> /\ (cpc'[c] = cpc[c] \/ cpc'[c] = "crash")
    BY <1>1, <1>7 DEF ClientWriteLost, WriteLost, workerVars, ClientTypes
  <2> QED
    BY <2>1 DEF Engaged, Owes
<1>8. ~StartJoin(c) /\ ~GetBye(c) /\ ~Listen(c) /\ ~EndClient(c)
  BY DEF Engaged, StartJoin, GetBye, Listen, EndClient, ClientGoto
<1>9. ~KillClient(c)
  BY <1>1 DEF Engaged, KillClient, ClientTypes
<1> QED
  BY <1>3, <1>4, <1>5, <1>6, <1>7, <1>8, <1>9 DEF ClientStep

SessionInv == Types /\ ClosedInv /\ ScriptInv /\ \A c \in Senders : InStep(c)

LEMMA InStepInit == Init => \A c \in Senders : InStep(c)
<1> SUFFICES ASSUME Init, NEW c \in Senders PROVE InStep(c)
  OBVIOUS
<1>1. c \in Conns /\ Client(c) \in Ends /\ Server(c) \in Ends
  BY RolesOf, EndsOf
<1>2. /\ sent[Client(c)] = <<>> /\ sent[Server(c)] = <<>> /\ read[Client(c)] = <<>>
      /\ read[Server(c)] = <<>> /\ reply[c] = <<>> /\ <<>> \in Seq(Chars)
  BY <1>1, EmptySeq DEF Init, RioInit
<1>3. Owes(c, <<>>, <<>>)
  BY <1>2 DEF Owes
<1>4. Exchange(cpc[c], wpc[c], ask[c], answer[c], <<>>, <<>>)
  BY <1>1 DEF Init, Exchange
<1> QED
  BY <1>2, <1>3, <1>4 DEF InStep

LEMMA InStepStep ==
  ASSUME SessionInv, [Next]_vars, NEW c \in Senders
  PROVE  InStep(c)'
<1>1. /\ Types /\ ClosedInv /\ ScriptInv /\ InStep(c)
      /\ c \in Conns /\ Client(c) \in Ends /\ Server(c) \in Ends
  BY RolesOf, EndsOf DEF SessionInv
<1> SUFFICES ASSUME cpc'[c] \in Engaged, Fits(sent'[Client(c)]), Fits(sent'[Server(c)])
             PROVE  \E t2, u2 \in Seq(Chars) :
                      Owes(c, t2, u2)' /\ Exchange(cpc'[c], wpc'[c], ask'[c], answer'[c], t2, u2)
  BY DEF InStep
<1>2. Fits(sent[Client(c)]) /\ Fits(sent[Server(c)])
  BY <1>1, FitsEarlier
<1>3. CASE cpc[c] \in Engaged
  <2>1. PICK t \in Seq(Chars), u \in Seq(Chars) :
          Owes(c, t, u) /\ Exchange(cpc[c], wpc[c], ask[c], answer[c], t, u)
    BY <1>1, <1>2, <1>3 DEF InStep
  <2>2. ASSUME /\ sent'[Client(c)] = sent[Client(c)] /\ sent'[Server(c)] = sent[Server(c)]
               /\ read'[Client(c)] = read[Client(c)] /\ read'[Server(c)] = read[Server(c)]
               /\ SameWorker(c) /\ cpc'[c] = cpc[c] /\ ask'[c] = ask[c] /\ answer'[c] = answer[c]
        PROVE  \E t2, u2 \in Seq(Chars) :
                 Owes(c, t2, u2)' /\ Exchange(cpc'[c], wpc'[c], ask'[c], answer'[c], t2, u2)
    BY <2>1, <2>2 DEF Owes, SameWorker
  <2>3. CASE UNCHANGED vars
    BY <2>2, <2>3 DEF vars, rioVars, clientVars, workerVars, SameWorker
  <2>4. ASSUME NEW e \in Ends, Transfer(e)
        PROVE  \E t2, u2 \in Seq(Chars) :
                 Owes(c, t2, u2)' /\ Exchange(cpc'[c], wpc'[c], ask'[c], answer'[c], t2, u2)
    BY <2>2, <2>4, TransferAlone DEF clientVars, workerVars, SameWorker
  <2>5. ASSUME NEW d \in Conns, d # c, StepAt(d)
        PROVE  \E t2, u2 \in Seq(Chars) :
                 Owes(c, t2, u2)' /\ Exchange(cpc'[c], wpc'[c], ask'[c], answer'[c], t2, u2)
    BY <1>1, <2>2, <2>5, StepAlone DEF Alone, SameClient
  <2>6. CASE ClientStep(c) \/ KillClient(c) \/ Ask(c)
    <3>1. UNCHANGED wpc
      BY <1>1, <2>6, ClientStepTypes, UserTypes DEF workerVars
    <3> QED
      BY <1>1, <1>2, <1>3, <2>1, <2>6, <3>1, ClientInStep
  <2>7. CASE WorkerStep(c)
    <3>1. UNCHANGED <<cpc, ask, answer>>
      BY <1>1, <2>7, WorkerStepTypes DEF clientVars
    <3> QED
      BY <1>1, <1>2, <1>3, <2>1, <2>7, <3>1, WorkerInStep
  <2> QED
    BY <2>3, <2>4, <2>5, <2>6, <2>7, StepIs DEF StepAt
<1>4. CASE cpc[c] \notin Engaged
  <2>1. cpc'[c] = cpc[c] \/ cpc'[c] \notin Engaged
    <3>1. CASE UNCHANGED cpc
      BY <3>1
    <3>2. ASSUME NEW d \in Conns, d # c, StepAt(d) PROVE cpc'[c] = cpc[c]
      BY <1>1, <3>2, StepAlone DEF SameClient
    <3>3. CASE WorkerStep(c)
      BY <1>1, <3>3, WorkerStepTypes DEF clientVars
    <3>4. CASE ClientStep(c) \/ KillClient(c) \/ Ask(c)
      <4> USE <1>1, <1>4, RolesOf DEF Engaged, ClientGoto, Types, ClientTypes
      <4>1. ~StartLogin(c) /\ ~GetAnswer(c) /\ ~Ask(c)
        BY DEF StartLogin, GetAnswer, Ask
      <4>2. ~EndLogin(c) /\ ~StartJoin(c) /\ ~Listen(c)
        BY DEF EndLogin, StartJoin, Listen, ReceiversJoin
      <4>3. CASE GetBye(c)
        BY <4>3 DEF GetBye
      <4>4. CASE EndClient(c) \/ ClientWriteLost(c) \/ KillClient(c)
        BY <4>4 DEF EndClient, ClientWriteLost, KillClient
      <4> QED
        BY <3>4, <4>1, <4>2, <4>3, <4>4 DEF ClientStep
    <3>5. ASSUME NEW e \in Ends, Transfer(e) PROVE UNCHANGED cpc
      BY <3>5, TransferAlone DEF clientVars
    <3> QED
      BY <3>1, <3>2, <3>3, <3>4, <3>5, StepIs DEF StepAt, vars, clientVars
  <2> QED
    BY <1>4, <2>1
<1> QED
  BY <1>3, <1>4

LEMMA SessionInvIsInvariant == Spec => []SessionInv
<1>1. Init => SessionInv
  BY TypesInit, ClosedInit, ScriptInit, InStepInit DEF SessionInv
<1>2. SessionInv /\ [Next]_vars => SessionInv'
  <2> SUFFICES ASSUME SessionInv, [Next]_vars PROVE SessionInv'
    OBVIOUS
  <2>1. Types' /\ ClosedInv' /\ ScriptInv'
    BY TypesStep, ClosedStep, ScriptStep DEF SessionInv
  <2>2. ASSUME NEW c \in Senders PROVE InStep(c)'
    BY InStepStep
  <2> QED
    BY <2>1, <2>2 DEF SessionInv
<1> QED
  BY <1>1, <1>2, PTL DEF Spec

(* However the streams cut up the lines, and whatever its user typed: when  *)
(* the client of a sender asks again, the last answer it read was the       *)
(* answer to its last request, and nothing is on its way in either          *)
(* direction, as long as no line was too long.                              *)
THEOREM AnswersMatchRequests == Spec => []RepliesInStep
<1>1. SessionInv => RepliesInStep
  <2> SUFFICES ASSUME SessionInv, NEW c \in Senders, cpc[c] = "prompt",
                      Fits(sent[Client(c)]), Fits(sent[Server(c)])
               PROVE  /\ Silent(Client(c)) /\ Silent(Server(c))
                      /\ wpc[c] = "receive" /\ reply[c] = <<>>
                      /\ ask[c] # <<>> => answer[c][1] \in Answers[ask[c][1]]
    BY DEF RepliesInStep
  <2>1. Types /\ InStep(c) /\ c \in Conns
    BY RolesOf DEF SessionInv
  <2>2. PICK t, u \in Seq(Chars) :
          Owes(c, t, u) /\ Exchange(cpc[c], wpc[c], ask[c], answer[c], t, u)
    BY <2>1 DEF InStep, Engaged
  <2>3. /\ t = <<>> /\ u = <<>> /\ wpc[c] = "receive"
        /\ ask[c] # <<>> => answer[c][1] \in Answers[ask[c][1]]
    BY <2>2 DEF Exchange
  <2>4. /\ sent[Client(c)] \o <<>> = read[Server(c)]
        /\ sent[Server(c)] \o reply[c] = read[Client(c)]
    BY <2>1, <2>2, <2>3, SessionTypes, EmptyOnRight DEF Owes
  <2>5. /\ got[Server(c)] = <<>> /\ buf[Server(c)] = <<>> /\ wire[Server(c)] = <<>>
        /\ unsent[Client(c)] = <<>>
    <3>1. Server(c) \in Ends /\ Peer(Server(c)) = Client(c)
      BY <2>1, EndsOf
    <3> QED
      BY <2>1, <2>4, <3>1, SessionTypes, NothingComes
  <2>6. /\ got[Client(c)] = <<>> /\ buf[Client(c)] = <<>> /\ wire[Client(c)] = <<>>
        /\ unsent[Server(c)] = <<>> /\ reply[c] = <<>>
    <3>1. Client(c) \in Ends /\ Peer(Client(c)) = Server(c)
      BY <2>1, EndsOf
    <3> QED
      BY <2>1, <2>4, <3>1, SessionTypes, NothingComes
  <2> QED
    BY <2>3, <2>5, <2>6 DEF Silent
<1> QED
  BY <1>1, SessionInvIsInvariant, PTL

-----------------------------------------------------------------------------
(* Receivers, and the names of users and rooms *)

IsName(s) == Plain(s) /\ Field(s)

(* The worker of a receiver is never at the loop for senders, and only while *)
(* it is in its room somebody can reach its queue.                           *)
Role(c) ==
  /\ wpc[c] # "receive"
  /\ wpc[c] = "login" => read[Server(c)] = <<>>
  /\ room[c] # {} => wpc[c] \in {"joined", "deliver", "leave"}
  /\ \A n \in room[c] : IsName(n)
  /\ sent[Client(c)] # <<>> => sent[Client(c)][1] = "rlogin"
  /\ cpc[c] \in {"login", "join", "joining", "listening"} => sent[Client(c)] # <<>>

RoleInv == /\ \A c \in Receivers : Role(c)
           /\ \A c \in Conns : IsName(user[c])

LEMMA RoleInit == Init => RoleInv
<1> SUFFICES ASSUME Init PROVE RoleInv
  OBVIOUS
<1>1. \A c \in Conns : IsName(user[c])
  <2>1. PICK s \in Seq(Chars) : s = <<>> /\ Len(s) = 0
    BY EmptySeq
  <2>2. IsName(s)
    BY <2>1 DEF IsName, Plain, Field
  <2>3. \A c \in Conns : user[c] = s
    BY <2>1, Zenon DEF Init
  <2> QED
    BY <2>2, <2>3, Zenon
<1>2. ASSUME NEW c \in Receivers PROVE Role(c)
  BY RolesOf, EndsOf DEF Init, RioInit, Role
<1> QED
  BY <1>1, <1>2 DEF RoleInv

(* The first character of a message is its tag. *)
LEMMA TagFirst ==
  ASSUME NEW line \in Seq(Chars), NEW tag, Valid(line), HasTag(line, tag)
  PROVE  line # <<>> /\ line[1] = tag
<1>1. /\ FirstColon(line) \in 1 .. Len(line) /\ Len(line) \in Nat
      /\ Len(TagOf(line)) = FirstColon(line) - 1
      /\ \A i \in 1 .. FirstColon(line) - 1 : TagOf(line)[i] = line[i]
  BY SplitTypes, LenProperties DEF Valid
<1>2. TagOf(line) = <<tag>> /\ Len(<<tag>>) = 1 /\ <<tag>>[1] = tag
  BY DEF HasTag
<1>3. FirstColon(line) - 1 = 1
  BY <1>1, <1>2
<1>4. line[1] = tag
  BY <1>1, <1>2, <1>3
<1> QED
  BY <1>1, <1>4, Emptiness

LEMMA ReceiverLogsIn ==
  ASSUME Types, NEW c \in Receivers, Role(c), Login(c)
  PROVE  wpc'[c] = "join"
<1>1. c \in Conns /\ WorkerTypes /\ Server(c) \in Ends /\ Peer(Server(c)) = Client(c)
  BY RolesOf, EndsOf DEF Types
<1>2. /\ wpc[c] = "login" /\ Valid(got[Server(c)]) /\ got[Server(c)] # <<>>
      /\ wpc'[c] = IF HasTag(got[Server(c)], "slogin") THEN "receive" ELSE "join"
  BY <1>1 DEF Login, Serve, WorkerGoto, WorkerTypes
<1>3. got[Server(c)] \in Seq(Chars) /\ read[Server(c)] = <<>> /\ Len(<<>>) = 0
  BY <1>1, <1>2, StreamTypes, EmptySeq DEF Types, RioInv, Role
<1>4. Len(got[Server(c)]) \in Nat /\ Len(got[Server(c)]) >= 1
  BY <1>2, <1>3, LenProperties, Emptiness
<1>5. /\ Len(sent[Client(c)]) >= Len(got[Server(c)])
      /\ \A i \in 1 .. Len(got[Server(c)]) : sent[Client(c)][0 + i] = got[Server(c)][i]
  <2>1. /\ Len(sent[Peer(Server(c))]) >= Len(read[Server(c)]) + Len(got[Server(c)])
        /\ \A i \in 1 .. Len(got[Server(c)]) :
             sent[Peer(Server(c))][Len(read[Server(c)]) + i] = got[Server(c)][i]
    BY <1>1, Window DEF Types, RioInv
  <2> QED
    BY <1>1, <1>3, <1>4, <2>1
<1>6. sent[Client(c)] # <<>> /\ sent[Client(c)][1] = got[Server(c)][1]
  <2>1. Len(sent[Client(c)]) # 0
    BY <1>4, <1>5, <1>1, SessionTypes, LenProperties
  <2>2. 1 \in 1 .. Len(got[Server(c)]) /\ 0 + 1 = 1
    BY <1>4
  <2> QED
    BY <1>1, <1>5, <2>1, <2>2, SessionTypes, Emptiness
<1>7. ~HasTag(got[Server(c)], "slogin")
  BY <1>2, <1>3, <1>6, TagFirst DEF Role
<1> QED
  BY <1>2, <1>7

(* What a field names. *)
LEMMA FieldIsName ==
  ASSUME Types, NEW c \in Conns, NEW line, line = got[Server(c)], Valid(line),
         Fields(DataOf(line)) = 1
  PROVE  IsName(DataOf(line))
BY ServerReads, OneField DEF IsName

LEMMA NamesStep ==
  ASSUME Types, RoleInv, [Next]_vars, NEW c \in Conns
  PROVE  IsName(user'[c])
<1>1. WorkerTypes /\ IsName(user[c])
  BY DEF Types, RoleInv
<1>2. CASE UNCHANGED user
  BY <1>1, <1>2
<1>3. ASSUME NEW d \in Conns, Login(d) PROVE IsName(user'[c])
  <2>1. IsName(DataOf(got[Server(d)])) /\ user' = [user EXCEPT ![d] = DataOf(got[Server(d)])]
    BY <1>3, FieldIsName DEF Login, LoginValid
  <2> QED
    BY <1>1, <2>1 DEF WorkerTypes
<1>4. ASSUME NEW d \in Conns, WorkerStep(d) PROVE UNCHANGED user \/ Login(d)
  BY <1>4, Zenon DEF WorkerStep, Reply, LoginRefused, JoinRefused, Join, Deliver, Leave,
     ServeJoin, ServeLeave, ServeSendAll, ServeQuit, ServeRefused, ServeNone, EndWorker,
     WorkerWriteLost
<1>5. ASSUME NEW d \in Conns, ClientStep(d) \/ KillClient(d) \/ (d \in Senders /\ Ask(d))
      PROVE  UNCHANGED user
  BY <1>5, ClientStepTypes, UserTypes DEF workerVars
<1>6. ASSUME NEW e \in Ends, Transfer(e) PROVE UNCHANGED user
  BY <1>6, TransferAlone DEF workerVars
<1>7. CASE UNCHANGED vars
  BY <1>2, <1>7 DEF vars, workerVars
<1> QED
  BY <1>2, <1>3, <1>4, <1>5, <1>6, <1>7, StepIs DEF StepAt

LEMMA RoleOfClient ==
  ASSUME Types, NEW c \in Receivers, Role(c), ClientStep(c) \/ KillClient(c)
  PROVE  Role(c)'
<1>1. c \in Conns /\ c \notin Senders /\ ClientTypes /\ Client(c) \in Ends /\ Server(c) \in Ends
      /\ Client(c) # Server(c)
  BY RolesOf, EndsOf DEF Types, Client, Server
<1>2. UNCHANGED <<wpc, room>>
  BY <1>1, ClientStepTypes, UserTypes DEF workerVars
<1>3. \/ /\ sent'[Client(c)] = sent[Client(c)] /\ read'[Server(c)] = read[Server(c)]
         /\ cpc'[c] \in {"login", "join", "joining", "listening"} =>
              cpc[c] \in {"login", "join", "joining", "listening"}
      \/ /\ read' = read
         /\ sent'[Client(c)] # <<>> /\ sent'[Client(c)][1] = "rlogin"
  <2>1. CASE StartLogin(c)
    <3>1. PICK text \in Seq(Chars) : /\ text = Encoded("rlogin", Username[c])
                                     /\ StartWrite(Client(c), text)
      BY <1>1, <2>1, ClientSends DEF StartLogin, LoginTag
    <3>2. Valid(text) /\ HasTag(text, "rlogin")
      BY <1>1, <3>1, Encodes, NamesAssumption DEF Tags, HasTag
    <3>3. text # <<>> /\ text[1] = "rlogin"
      BY <3>2, TagFirst
    <3>4. sent'[Client(c)] = sent[Client(c)] \o text /\ read' = read
      BY <1>1, <3>1, SessionTypes DEF StartWrite
    <3>5. Parts(sent[Client(c)] \o text, sent[Client(c)], text)
      BY <1>1, SessionTypes, Concat
    <3>6. CASE sent[Client(c)] = <<>>
      BY <1>1, <3>3, <3>4, <3>6, EmptyOnRight
    <3>7. CASE sent[Client(c)] # <<>>
      <4>1. Len(sent[Client(c)]) \in Nat /\ Len(sent[Client(c)]) # 0 /\ sent[Client(c)][1] = "rlogin"
        BY <1>1, <3>7, SessionTypes, Emptiness, LenProperties DEF Role
      <4>2. sent'[Client(c)][1] = "rlogin"
        BY <3>4, <3>5, <4>1 DEF Parts
      <4>3. sent'[Client(c)] # <<>>
        BY <1>1, <3>3, <3>4, SessionTypes, EmptyOnRight
      <4> QED
        BY <3>4, <4>2, <4>3
    <3> QED
      BY <3>6, <3>7
  <2>2. CASE StartJoin(c)
    <3>1. PICK text \in Seq(Chars) : StartWrite(Client(c), text)
      BY <1>1, <2>2, ClientSends DEF StartJoin
    <3>2. sent'[Client(c)] = sent[Client(c)] \o text /\ read' = read
      BY <1>1, <3>1, SessionTypes DEF StartWrite
    <3>3. Parts(sent[Client(c)] \o text, sent[Client(c)], text)
      BY <1>1, SessionTypes, Concat
    <3>4. Len(sent[Client(c)]) \in Nat /\ Len(sent[Client(c)]) # 0 /\ sent[Client(c)][1] = "rlogin"
      BY <1>1, <2>2, SessionTypes, Emptiness, LenProperties DEF Role, StartJoin, ClientGoto
    <3>5. sent'[Client(c)][1] = "rlogin"
      BY <3>2, <3>3, <3>4 DEF Parts
    <3>6. sent'[Client(c)] # <<>>
      BY <1>1, <3>2, <3>4, SessionTypes, EmptyOnRight, Emptiness
    <3> QED
      BY <3>2, <3>5, <3>6
  <2>3. CASE EndLogin(c) \/ GetAnswer(c) \/ GetBye(c) \/ Listen(c)
    <3>1. PICK line : Receive(Client(c), line)
      BY <2>3 DEF EndLogin, GetAnswer, GetBye, Listen
    <3>2. sent' = sent /\ read'[Server(c)] = read[Server(c)]
      BY <1>1, <3>1, SessionTypes DEF Receive, ReturnsLine, ReturnsNone, EndCall
    <3>3. cpc'[c] \in {"login", "join", "joining", "listening"} =>
            cpc[c] \in {"login", "join", "joining", "listening"}
      <4> USE <1>1 DEF ClientGoto, ClientTypes
      <4>1. CASE EndLogin(c)
        BY <4>1 DEF EndLogin
      <4>2. CASE GetAnswer(c)
        BY <4>2 DEF GetAnswer
      <4>3. CASE GetBye(c)
        BY <4>3 DEF GetBye
      <4>4. CASE Listen(c)
        BY <4>4 DEF Listen
      <4> QED
        BY <2>3, <4>1, <4>2, <4>3, <4>4
    <3> QED
      BY <3>2, <3>3
  <2>4. CASE EndClient(c) \/ ClientWriteLost(c) \/ KillClient(c)
    BY <1>1, <2>4 DEF EndClient, ClientWriteLost, KillClient, Close, WriteLost, ClientTypes
  <2> QED
    BY <2>1, <2>2, <2>3, <2>4, Zenon DEF ClientStep
<1> QED
  BY <1>2, <1>3 DEF Role

LEMMA RoleOfWorker ==
  ASSUME Types, NEW c \in Receivers, Role(c), WorkerStep(c)
  PROVE  Role(c)'
<1>1. c \in Conns /\ WorkerTypes /\ Client(c) \in Ends /\ Server(c) \in Ends
      /\ Client(c) # Server(c) /\ sent \in [Ends -> Seq(Chars)]
  BY RolesOf, EndsOf DEF Types, RioInv, RioTypeOK, Client, Server
<1>2. UNCHANGED cpc
  BY <1>1, WorkerStepTypes DEF clientVars
<1>3. sent'[Client(c)] = sent[Client(c)]
  <2>1. CASE Reply(c)
    BY <1>1, <2>1 DEF Reply, StartWrite
  <2>2. CASE \E line : Receive(Server(c), line)
    BY <1>1, <2>2 DEF Receive, ReturnsLine, ReturnsNone, EndCall
  <2>3. CASE LoginRefused(c) \/ Login(c) \/ JoinRefused(c) \/ Join(c)
    BY <2>2, <2>3 DEF LoginRefused, Login, JoinRefused, Join, Serve
  <2>4. CASE ServeJoin(c) \/ ServeLeave(c) \/ ServeSendAll(c) \/ ServeQuit(c)
             \/ ServeRefused(c) \/ ServeNone(c)
    BY <2>2, <2>4 DEF ServeJoin, ServeLeave, ServeSendAll, ServeQuit, ServeRefused, ServeNone,
         Request, Serve
  <2>5. CASE Deliver(c) \/ Leave(c) \/ EndWorker(c) \/ WorkerWriteLost(c)
    BY <2>5 DEF Deliver, Leave, EndWorker, WorkerWriteLost, Close, WriteLost, rioVars
  <2> QED
    BY <2>1, <2>3, <2>4, <2>5, Zenon DEF WorkerStep
<1>4. /\ \/ wpc'[c] # "receive" /\ wpc'[c] # "login"
         \/ wpc'[c] = wpc[c] /\ read' = read
      /\ room'[c] # {} => wpc'[c] \in {"joined", "deliver", "leave"}
      /\ \A n \in room'[c] : IsName(n)
  <2> USE <1>1 DEF WorkerTypes, Role, Serve, WorkerGoto
  <2>1. CASE Reply(c) \/ WorkerWriteLost(c)
    BY <2>1 DEF Reply, StartWrite, WorkerWriteLost, WriteLost
  <2>2. CASE LoginRefused(c) \/ JoinRefused(c)
    BY <2>2 DEF LoginRefused, JoinRefused
  <2>3. CASE Login(c)
    <3>1. wpc'[c] = "join"
      BY <2>3, ReceiverLogsIn
    <3> QED
      BY <2>3, <3>1 DEF Login
  <2>4. CASE Join(c)
    <3>1. IsName(DataOf(got[Server(c)]))
      BY <2>4, FieldIsName DEF Join, JoinValid
    <3> QED
      BY <2>4, <3>1 DEF Join
  <2>5. CASE Deliver(c)
    BY <2>5 DEF Deliver
  <2>6. CASE Leave(c)
    BY <2>6 DEF Leave
  <2>7. CASE EndWorker(c)
    BY <2>7 DEF EndWorker
  <2>8. /\ ~ServeJoin(c) /\ ~ServeLeave(c) /\ ~ServeSendAll(c) /\ ~ServeQuit(c)
        /\ ~ServeRefused(c) /\ ~ServeNone(c)
    BY DEF ServeJoin, ServeLeave, ServeSendAll, ServeQuit, ServeRefused, ServeNone, Request
  <2> QED
    BY <2>1, <2>2, <2>3, <2>4, <2>5, <2>6, <2>7, <2>8, Zenon DEF WorkerStep
<1> QED
  BY <1>2, <1>3, <1>4 DEF Role

LEMMA RoleStep ==
  ASSUME Types, RoleInv, [Next]_vars
  PROVE  RoleInv'
<1>1. ASSUME NEW c \in Receivers PROVE Role(c)'
  <2>1. c \in Conns /\ c \notin Senders /\ Role(c)
    BY RolesOf DEF RoleInv
  <2>2. ASSUME NEW d \in Conns, d # c, StepAt(d) PROVE Role(c)'
    BY <2>1, <2>2, StepAlone DEF Alone, SameClient, SameWorker, Role
  <2>3. CASE StepAt(c)
    BY <2>1, <2>3, RoleOfClient, RoleOfWorker DEF StepAt
  <2>4. ASSUME UNCHANGED <<sent, read, cpc, wpc, room>> PROVE Role(c)'
    BY <2>1, <2>4 DEF Role
  <2>5. ASSUME NEW e \in Ends, Transfer(e) PROVE Role(c)'
    BY <2>4, <2>5, TransferAlone DEF clientVars, workerVars
  <2>6. CASE UNCHANGED vars
    BY <2>4, <2>6 DEF vars, rioVars, clientVars, workerVars
  <2> QED
    BY <2>2, <2>3, <2>5, <2>6, StepIs
<1> QED
  BY <1>1, NamesStep DEF RoleInv

-----------------------------------------------------------------------------
(* What a delivery says *)

(* What the receiver makes of a line that it takes for a delivery. *)
Delivers(line, p) == p = <<Speaker(DataOf(line)), Spoken(DataOf(line))>>

(* A text in a queue is going to deliver p. *)
Stands(text, p) == IsText(text) /\ Delivers(Encoded("delivery", text), p)

LEMMA TextStands ==
  ASSUME NEW name, IsName(name), NEW who, IsName(who), NEW data, Plain(data)
  PROVE  Stands(Text(name, who, data), <<Trim(who), Name(data)>>)
<1> DEFINE n == Trim(name)
           w == Trim(who)
           d == Trim(data)
           colon == <<":">>
           t1 == n \o colon
           t2 == t1 \o w
           t3 == t2 \o colon
           t == t3 \o d
           q == w \o colon
           dn == d \o <<NL>>
<1>1. name \in Seq(Chars) /\ who \in Seq(Chars) /\ data \in Seq(Chars)
  BY DEF IsName, Plain
<1>2. /\ IsText(n) /\ IsText(w) /\ IsText(d) /\ Field(n) /\ Field(w)
      /\ n \in Seq(Chars) /\ w \in Seq(Chars) /\ d \in Seq(Chars)
  BY <1>1, Trims DEF IsName
<1>3. IsText(colon) /\ colon \in Seq(Chars) /\ <<NL>> \in Seq(Chars)
  BY WordIsText, Characters, Single
<1>4. t = Text(name, who, data) /\ dn = Name(data)
  BY DEF Text, Name
<1> HIDE DEF n, w, d, colon
<1>5. IsText(t1) /\ t1 \in Seq(Chars) /\ q \in Seq(Chars) /\ dn \in Seq(Chars)
  BY <1>2, <1>3, Texts, Concat
<1> HIDE DEF t1, q, dn
<1>6. IsText(t2) /\ t2 \in Seq(Chars)
  BY <1>2, <1>5, Texts, Concat
<1> HIDE DEF t2
<1>7. IsText(t3) /\ t3 \in Seq(Chars)
  BY <1>3, <1>6, Texts, Concat
<1> HIDE DEF t3
<1>8. IsText(t) /\ t \in Seq(Chars)
  BY <1>2, <1>7, Texts, Concat
<1> HIDE DEF t
<1>9. t3 = t1 \o q
  <2>1. Associate(t1, w, colon)
    BY <1>2, <1>3, <1>5, Associates
  <2> QED
    BY <2>1 DEF Associate, t3, t2, q
<1>10. t = t1 \o (q \o d)
  <2>1. Associate(t1, q, d)
    BY <1>2, <1>5, Associates
  <2> QED
    BY <1>9, <2>1 DEF Associate, t
<1>11. q \o d \in Seq(Chars) /\ q \o dn \in Seq(Chars)
  BY <1>2, <1>5, Concat
<1>12. (q \o d) \o <<NL>> = q \o dn
  <2>1. Associate(q, d, <<NL>>)
    BY <1>2, <1>3, <1>5, Associates
  <2> QED
    BY <2>1 DEF Associate, dn
<1>13. t \o <<NL>> = t1 \o (q \o dn)
  <2>1. (t1 \o (q \o d)) \o <<NL>> = t1 \o ((q \o d) \o <<NL>>)
    <3> DEFINE qd == q \o d
    <3>1. qd \in Seq(Chars)
      BY <1>11
    <3> HIDE DEF qd
    <3>2. Associate(t1, qd, <<NL>>)
      BY <1>3, <1>5, <3>1, Associates
    <3> QED
      BY <3>2 DEF Associate, qd
  <2> QED
    BY <1>10, <1>12, <2>1
<1>14. DataOf(t \o <<NL>>) = q \o dn
  <2> DEFINE s == t \o <<NL>>
             b == q \o dn
  <2>1. s = (n \o <<":">>) \o b
    BY <1>13 DEF t1, colon
  <2>2. b \in Seq(Chars)
    BY <1>11
  <2> HIDE DEF s, b
  <2>3. DataOf(s) = b
    BY <1>2, <2>1, <2>2, Splits
  <2> QED
    BY <2>3 DEF s, b
<1>15. TagOf(q \o dn) = w /\ DataOf(q \o dn) = dn
  <2> DEFINE s == q \o dn
  <2>1. s = (w \o <<":">>) \o dn
    BY DEF q, colon
  <2> HIDE DEF s
  <2>2. TagOf(s) = w /\ DataOf(s) = dn
    BY <1>2, <1>5, <2>1, Splits
  <2> QED
    BY <2>2 DEF s
<1>16. DataOf(Encoded("delivery", t)) = t \o <<NL>>
  BY <1>8, Encodes DEF Tags
<1>17. Delivers(Encoded("delivery", t), <<w, dn>>)
  BY <1>14, <1>15, <1>16 DEF Delivers, Speaker, Spoken
<1> QED
  BY <1>4, <1>8, <1>17 DEF Stands, w

-----------------------------------------------------------------------------
(* What is said, cut into lines *)

(* s is m lines, and line i ends at at[i]. *)
Cuts(s, m, at) == /\ m \in Nat /\ at \in [0 .. m -> Nat]
                  /\ at[0] = 0 /\ at[m] = Len(s)
                  /\ \A i, j \in 0 .. m : i < j => at[i] < at[j]
                  /\ \A i \in 1 .. m : s[at[i]] = NL
                  /\ \A i \in 1 .. m : \A j \in at[i - 1] + 1 .. at[i] - 1 : s[j] # NL

Piece(s, at, i) == SubSeq(s, at[i - 1] + 1, at[i])

LEMMA CutsAre ==
  ASSUME NEW s \in Seq(Chars), NEW m, NEW at, Cuts(s, m, at), NEW i \in 1 .. m
  PROVE  /\ at[i - 1] \in Nat /\ at[i] \in Nat /\ at[i - 1] < at[i] /\ at[i] <= Len(s)
         /\ Piece(s, at, i) \in Seq(Chars) /\ Len(Piece(s, at, i)) = at[i] - at[i - 1]
         /\ \A j \in 1 .. at[i] - at[i - 1] : Piece(s, at, i)[j] = s[at[i - 1] + j]
<1>1. /\ at[i - 1] \in Nat /\ at[i] \in Nat /\ at[i - 1] < at[i] /\ at[i] <= Len(s)
  BY DEF Cuts
<1>2. PICK f \in Nat : f = at[i - 1] + 1
  BY <1>1
<1>3. PICK n \in Nat : n = at[i]
  BY <1>1
<1>4. /\ SubSeq(s, f, n) \in Seq(Chars)
      /\ Len(SubSeq(s, f, n)) = n - f + 1
      /\ \A j \in 1 .. n - f + 1 : SubSeq(s, f, n)[j] = s[f + j - 1]
  <2>1. 1 <= f /\ f <= n + 1 /\ n <= Len(s)
    BY <1>1, <1>2, <1>3
  <2> QED
    BY <2>1, SubSeqIs
<1>5. Piece(s, at, i) = SubSeq(s, f, n)
  BY <1>2, <1>3 DEF Piece
<1>6. n - f + 1 = at[i] - at[i - 1]
  BY <1>1, <1>2, <1>3
<1>7. \A j \in 1 .. at[i] - at[i - 1] : f + j - 1 = at[i - 1] + j
  BY <1>1, <1>2
<1> QED
  BY <1>1, <1>4, <1>5, <1>6, <1>7

(* One more line leaves the others as they are. *)
LEMMA OneMoreLine ==
  ASSUME NEW s \in Seq(Chars), NEW m, NEW at, Cuts(s, m, at), NEW line, IsLine(line)
  PROVE  \E more : /\ Cuts(s \o line, m + 1, more)
                   /\ \A i \in 0 .. m : more[i] = at[i]
                   /\ \A i \in 1 .. m : Piece(s \o line, more, i) = Piece(s, at, i)
                   /\ Piece(s \o line, more, m + 1) = line
<1>1. /\ line \in Seq(Chars) /\ Len(line) \in Nat \ {0} /\ line[Len(line)] = NL
      /\ \A i \in 1 .. Len(line) - 1 : line[i] # NL
  BY LineTyped DEF IsLine, Plain
<1> DEFINE long == s \o line
           more == [i \in 0 .. m + 1 |-> IF i = m + 1 THEN Len(s) + Len(line) ELSE at[i]]
<1>2. long \in Seq(Chars) /\ Parts(long, s, line) /\ Len(s) \in Nat
  BY <1>1, Concat, LenProperties
<1> HIDE DEF long
<1>3. /\ m \in Nat /\ at \in [0 .. m -> Nat] /\ at[0] = 0 /\ at[m] = Len(s)
      /\ \A i, j \in 0 .. m : i < j => at[i] < at[j]
  BY DEF Cuts
<1>4. more \in [0 .. m + 1 -> Nat] /\ more[m + 1] = Len(s) + Len(line)
      /\ \A i \in 0 .. m : more[i] = at[i]
  BY <1>1, <1>2, <1>3
<1> HIDE DEF more
<1>5. \A i \in 0 .. m : at[i] \in Nat /\ at[i] <= Len(s)
  <2> TAKE i \in 0 .. m
  <2>1. i = m \/ at[i] < at[m]
    BY <1>3
  <2> QED
    BY <1>2, <1>3, <2>1
<1>6. \A i, j \in 0 .. m + 1 : i < j => more[i] < more[j]
  <2> SUFFICES ASSUME NEW i \in 0 .. m + 1, NEW j \in 0 .. m + 1, i < j
               PROVE  more[i] < more[j]
    OBVIOUS
  <2>1. CASE j = m + 1
    BY <1>1, <1>2, <1>3, <1>4, <1>5, <2>1
  <2>2. CASE j # m + 1
    BY <1>3, <1>4, <2>2
  <2> QED
    BY <2>1, <2>2
<1>7. ASSUME NEW i \in 1 .. m + 1
      PROVE  long[more[i]] = NL /\ \A j \in more[i - 1] + 1 .. more[i] - 1 : long[j] # NL
  <2>1. CASE i = m + 1
    <3>1. more[i] = Len(s) + Len(line) /\ more[i - 1] = Len(s)
      BY <1>3, <1>4, <2>1
    <3>2. long[Len(s) + Len(line)] = NL
      <4>1. Len(line) \in 1 .. Len(line)
        BY <1>1
      <4>2. long[Len(s) + Len(line)] = line[Len(line)]
        BY <1>2, <4>1 DEF Parts
      <4> QED
        BY <1>1, <4>2
    <3>3. ASSUME NEW j \in Len(s) + 1 .. Len(s) + Len(line) - 1
          PROVE  long[j] # NL
      <4>1. j - Len(s) \in 1 .. Len(line) - 1 /\ j - Len(s) \in 1 .. Len(line)
            /\ Len(s) + (j - Len(s)) = j
        BY <1>1, <1>2, <3>3
      <4>2. long[j] = line[j - Len(s)]
        BY <1>2, <4>1 DEF Parts
      <4> QED
        BY <1>1, <4>1, <4>2
    <3> QED
      BY <3>1, <3>2, <3>3
  <2>2. CASE i # m + 1
    <3>1. i \in 1 .. m /\ i - 1 \in 0 .. m /\ i \in 0 .. m
      BY <1>3, <2>2
    <3>2. more[i] = at[i] /\ more[i - 1] = at[i - 1] /\ at[i] \in 1 .. Len(s) /\ at[i - 1] \in Nat
      BY <1>3, <1>4, <1>5, <3>1
    <3>3. s[at[i]] = NL /\ \A j \in at[i - 1] + 1 .. at[i] - 1 : s[j] # NL
      BY <3>1 DEF Cuts
    <3>4. \A j \in 1 .. Len(s) : long[j] = s[j]
      BY <1>2 DEF Parts
    <3>5. \A j \in at[i - 1] + 1 .. at[i] - 1 : j \in 1 .. Len(s)
      BY <1>2, <3>2
    <3> QED
      BY <3>2, <3>3, <3>4, <3>5
  <2> QED
    BY <2>1, <2>2
<1>8. Cuts(long, m + 1, more)
  <2>1. m + 1 \in Nat /\ Len(long) = Len(s) + Len(line)
    BY <1>2, <1>3 DEF Parts
  <2> QED
    BY <1>3, <1>4, <1>6, <1>7, <2>1 DEF Cuts
<1>9. ASSUME NEW i \in 1 .. m PROVE Piece(long, more, i) = Piece(s, at, i)
  <2>1. i \in 1 .. m + 1 /\ i \in 0 .. m /\ i - 1 \in 0 .. m
    BY <1>3
  <2>2. more[i] = at[i] /\ more[i - 1] = at[i - 1]
    BY <1>4, <2>1
  <2>3. /\ at[i - 1] \in Nat /\ at[i] \in Nat /\ at[i - 1] < at[i] /\ at[i] <= Len(s)
        /\ Piece(s, at, i) \in Seq(Chars) /\ Len(Piece(s, at, i)) = at[i] - at[i - 1]
        /\ \A j \in 1 .. at[i] - at[i - 1] : Piece(s, at, i)[j] = s[at[i - 1] + j]
    BY CutsAre
  <2>4. /\ Piece(long, more, i) \in Seq(Chars) /\ Len(Piece(long, more, i)) = at[i] - at[i - 1]
        /\ \A j \in 1 .. at[i] - at[i - 1] : Piece(long, more, i)[j] = long[at[i - 1] + j]
    BY <1>2, <1>8, <2>1, <2>2, CutsAre
  <2>5. \A j \in 1 .. at[i] - at[i - 1] : long[at[i - 1] + j] = s[at[i - 1] + j]
    <3>1. \A j \in 1 .. at[i] - at[i - 1] : at[i - 1] + j \in 1 .. Len(s)
      BY <1>2, <2>3
    <3> QED
      BY <1>2, <3>1 DEF Parts
  <2> QED
    BY <2>3, <2>4, <2>5, SameElements
<1>10. Piece(long, more, m + 1) = line
  <2>1. m + 1 \in 1 .. m + 1 /\ (m + 1) - 1 = m /\ m \in 0 .. m
    BY <1>3
  <2>2. more[m + 1] - more[m] = Len(line) /\ more[m] = Len(s)
    BY <1>1, <1>2, <1>3, <1>4, <2>1
  <2>3. /\ Piece(long, more, m + 1) \in Seq(Chars) /\ Len(Piece(long, more, m + 1)) = Len(line)
        /\ \A j \in 1 .. Len(line) : Piece(long, more, m + 1)[j] = long[Len(s) + j]
    <3> DEFINE n == m + 1
    <3>0. Cuts(long, n, more)
      BY <1>8
    <3>1. PICK k \in 1 .. n : k = m + 1 /\ k - 1 = m
      BY <2>1
    <3> HIDE DEF n
    <3>2. /\ Piece(long, more, k) \in Seq(Chars) /\ Len(Piece(long, more, k)) = more[k] - more[k - 1]
          /\ \A j \in 1 .. more[k] - more[k - 1] : Piece(long, more, k)[j] = long[more[k - 1] + j]
      BY <1>2, <3>0, CutsAre
    <3>3. more[k] - more[k - 1] = Len(line) /\ more[k - 1] = Len(s)
      BY <2>2, <3>1
    <3>4. \A j \in 1 .. Len(line) : Piece(long, more, k)[j] = long[Len(s) + j]
      BY <3>2, <3>3
    <3> QED
      BY <3>1, <3>2, <3>3, <3>4
  <2> QED
    BY <1>1, <1>2, <2>3, SameElements DEF Parts
<1> QED
  BY <1>4, <1>8, <1>9, <1>10 DEF long

(* While the lines fit, an end that has read the first k of them reads the *)
(* next one.                                                               *)
Saying(e, extra, s) == /\ extra \in Seq(Chars) /\ s \in Seq(Chars)
                       /\ s = sent[Peer(e)] \o extra
                       /\ Peer(e) \in closed => unsent[Peer(e)] = <<>> /\ extra = <<>>

LEMMA ReadsPiece ==
  ASSUME Types, NEW e \in Ends, NEW s, NEW extra, Saying(e, extra, s), NEW m, NEW at, Cuts(s, m, at), NEW k \in 0 .. m, Len(read[e]) = at[k],
         Fits(sent[Peer(e)]), NEW line, line # <<>>, Receive(e, line)
  PROVE  k < m /\ line = Piece(s, at, k + 1) /\ Len(read'[e]) = at[k + 1]
<1>1. /\ read[e] \in Seq(Chars) /\ got[e] \in Seq(Chars) /\ read \in [Ends -> Seq(Chars)]
      /\ Peer(e) \in Ends /\ sent[Peer(e)] \in Seq(Chars)
      /\ buf[e] \in Seq(Chars) /\ wire[e] \in Seq(Chars)
      /\ s \in Seq(Chars) /\ extra \in Seq(Chars)
  BY PeerOfEnd, StreamTypes DEF Types, RioInv, RioTypeOK, Saying
<1>2. line = got[e] /\ ReturnsLine(e)
  BY DEF Receive
<1>3. /\ Len(got[e]) \in Nat \ {0} /\ Len(read[e]) \in Nat /\ Len(sent[Peer(e)]) \in Nat
      /\ Len(extra) \in Nat /\ Len(s) \in Nat
  BY <1>1, <1>2, Emptiness, LenProperties
<1>4. /\ m \in Nat /\ at \in [0 .. m -> Nat] /\ at[m] = Len(s)
      /\ \A i, j \in 0 .. m : i < j => at[i] < at[j]
  BY DEF Cuts
<1>5. /\ Len(s) >= Len(read[e]) + Len(got[e])
      /\ \A i \in 1 .. Len(got[e]) : s[at[k] + i] = got[e][i]
  <2>1. /\ Len(sent[Peer(e)]) >= Len(read[e]) + Len(got[e])
        /\ \A i \in 1 .. Len(got[e]) : sent[Peer(e)][Len(read[e]) + i] = got[e][i]
    BY Window DEF Types, RioInv
  <2>2. Parts(s, sent[Peer(e)], extra)
    BY <1>1, Concat DEF Saying
  <2>3. \A i \in 1 .. Len(got[e]) : Len(read[e]) + i \in 1 .. Len(sent[Peer(e)])
    BY <1>3, <2>1
  <2>4. \A i \in 1 .. Len(got[e]) : s[Len(read[e]) + i] = got[e][i]
    BY <2>1, <2>2, <2>3 DEF Parts
  <2> QED
    BY <1>3, <2>1, <2>2, <2>4 DEF Parts
<1>6. k < m
  BY <1>3, <1>4, <1>5
<1>7. PICK n \in 1 .. m : n = k + 1 /\ n - 1 = k
  BY <1>4, <1>6
<1>8. /\ at[k] \in Nat /\ at[n] \in Nat /\ at[k] < at[n] /\ at[n] <= Len(s)
      /\ Piece(s, at, n) \in Seq(Chars) /\ Len(Piece(s, at, n)) = at[n] - at[k]
      /\ \A j \in 1 .. at[n] - at[k] : Piece(s, at, n)[j] = s[at[k] + j]
  <2>1. /\ at[n - 1] \in Nat /\ at[n] \in Nat /\ at[n - 1] < at[n] /\ at[n] <= Len(s)
        /\ Piece(s, at, n) \in Seq(Chars) /\ Len(Piece(s, at, n)) = at[n] - at[n - 1]
        /\ \A j \in 1 .. at[n] - at[n - 1] : Piece(s, at, n)[j] = s[at[n - 1] + j]
    BY <1>1, CutsAre
  <2> QED
    BY <1>7, <2>1
<1>9. s[at[n]] = NL /\ \A j \in at[k] + 1 .. at[n] - 1 : s[j] # NL
  BY <1>7 DEF Cuts
<1>10. \A i \in 1 .. Len(got[e]) - 1 : got[e][i] # NL
  BY DEF Types, RioInv, OneLine
<1>11. Len(got[e]) <= at[n] - at[k]
  <2> SUFFICES ASSUME Len(got[e]) > at[n] - at[k] PROVE FALSE
    BY <1>3, <1>8
  <2>1. at[n] - at[k] \in 1 .. Len(got[e]) - 1 /\ at[n] - at[k] \in 1 .. Len(got[e])
        /\ at[k] + (at[n] - at[k]) = at[n]
    <3>1. /\ at[k] \in Nat /\ at[n] \in Nat /\ at[k] < at[n] /\ Len(got[e]) \in Nat
          /\ Len(got[e]) > at[n] - at[k]
      BY <1>3, <1>8
    <3> QED
      BY ONLY <3>1
  <2>2. got[e][at[n] - at[k]] = NL
    BY <1>5, <1>9, <2>1
  <2> QED
    BY <1>10, <2>1, <2>2
<1>12. Len(got[e]) >= at[n] - at[k]
  <2>1. CASE HasLine(e)
    <3> SUFFICES ASSUME Len(got[e]) < at[n] - at[k] PROVE FALSE
      BY <1>3, <1>8
    <3>1. got[e][Len(got[e])] = NL
      BY <2>1, LineEnds DEF Types, RioInv, EndsLine
    <3>2. Len(got[e]) \in 1 .. Len(got[e]) /\ at[k] + Len(got[e]) \in at[k] + 1 .. at[n] - 1
      BY <1>3, <1>8
    <3>3. s[at[k] + Len(got[e])] = NL
      BY <1>5, <3>1, <3>2
    <3> QED
      BY <1>9, <3>2, <3>3
  <2>2. CASE ~HasLine(e)
    <3>1. /\ buf[e] = <<>> /\ wire[e] = <<>> /\ unsent[Peer(e)] = <<>> /\ extra = <<>>
      BY <1>2, <2>2 DEF ReturnsLine, AtEOF, Saying
    <3>2. read[e] \o got[e] \o <<>> \o <<>> \o <<>> = sent[Peer(e)]
      BY <3>1 DEF Types, RioInv, InOrder
    <3>3. read[e] \o got[e] \in Seq(Chars)
      BY <1>1, Concat
    <3>4. read[e] \o got[e] = s
      BY <1>1, <3>1, <3>2, <3>3, EmptyOnRight DEF Saying
    <3>5. Len(s) = Len(read[e]) + Len(got[e])
      BY <1>1, <3>4, Concat DEF Parts
    <3> QED
      BY <1>3, <1>8, <3>5
  <2> QED
    BY <2>1, <2>2
<1>13. Len(got[e]) = at[n] - at[k]
  BY <1>3, <1>8, <1>11, <1>12
<1>14. line = Piece(s, at, n)
  <2>1. \A i \in 1 .. Len(got[e]) : got[e][i] = Piece(s, at, n)[i]
    BY <1>5, <1>8, <1>13
  <2> QED
    BY <1>1, <1>2, <1>8, <1>13, <2>1, SameElements
<1>15. Len(read'[e]) = at[n]
  <2>1. read'[e] = read[e] \o got[e]
    BY <1>1, <1>2 DEF ReturnsLine, EndCall
  <2>2. Len(read[e] \o got[e]) = Len(read[e]) + Len(got[e])
    BY <1>1, Concat DEF Parts
  <2> QED
    BY <1>3, <1>8, <1>13, <2>1, <2>2
<1> QED
  BY <1>6, <1>7, <1>14, <1>15

-----------------------------------------------------------------------------
(* A receiver: what was broadcast to it, said to it, and printed *)

Said(r) == sent[Server(r)] \o reply[r]

(* A receiver's worker answers to the login and to the join, and delivers.  *)
(* What it has not delivered yet is in the queue.                           *)
Stage(wp, m, ca, qu) ==
  /\ wp = "login" => m = 0
  /\ wp = "join" => m = 1
  /\ wp \in {"login", "join"} => ca = <<>> /\ qu = <<>>
  /\ wp \in {"joined", "deliver", "leave"} =>
       /\ m >= 2 /\ Len(ca) = m - 2 + Len(qu)
       /\ \A j \in 1 .. Len(qu) : Stands(qu[j], ca[m - 2 + j])

Delivered(s, m, at, ca) ==
  \A i \in 3 .. m : i - 2 <= Len(ca) /\ Delivers(Piece(s, at, i), ca[i - 2])

(* The client has read n characters, whole lines, and printed a delivery    *)
(* for each line after the two answers.                                     *)
Printing(cp, n, m, at, pr, ca) ==
  /\ Len(pr) <= Len(ca) /\ \A i \in 1 .. Len(pr) : pr[i] = ca[i]
  /\ cp \in {"start", "login", "join", "joining"} => pr = <<>>
  /\ cp \in {"start", "login"} => n = 0
  /\ cp \in {"join", "joining"} => m >= 1 /\ n = at[1]
  /\ cp = "listening" => m >= 2 + Len(pr) /\ n = at[2 + Len(pr)]

Track(r, m, at) ==
  /\ Cuts(Said(r), m, at)
  /\ Stage(wpc[r], m, cast[r], queue[r])
  /\ Delivered(Said(r), m, at, cast[r])
  /\ Fits(sent[Server(r)]) => Printing(cpc[r], Len(read[Client(r)]), m, at, printed[r], cast[r])

Flow(r) == \E m, at : Track(r, m, at)

LEMMA ReceiverTypes ==
  ASSUME Types, NEW r \in Receivers
  PROVE  /\ r \in Conns /\ Client(r) \in Ends /\ Server(r) \in Ends
         /\ Peer(Client(r)) = Server(r)
         /\ queue[r] \in Seq(Seq(Chars)) /\ cast[r] \in Seq(Seq(Chars) \X Seq(Chars))
         /\ printed[r] \in Seq(Seq(Chars) \X Seq(Chars))
         /\ reply[r] \in Seq(Chars) /\ sent[Server(r)] \in Seq(Chars) /\ Said(r) \in Seq(Chars)
<1>1. r \in Conns
  BY RolesOf
<1>2. reply[r] \in Seq(Chars) /\ sent[Server(r)] \in Seq(Chars)
  BY <1>1, SessionTypes
<1>3. Said(r) \in Seq(Chars)
  BY <1>2, Concat DEF Said
<1> QED
  BY <1>1, <1>2, <1>3, EndsOf DEF Types, ClientTypes, WorkerTypes

(* Nothing more is said. *)
LEMMA Unsaid ==
  ASSUME NEW r \in Receivers, NEW m, NEW at, Track(r, m, at), Said(r)' = Said(r),
         Fits(sent'[Server(r)]) => Fits(sent[Server(r)]), cast'[r] = cast[r],
         Stage(wpc'[r], m, cast[r], queue'[r]),
         Fits(sent[Server(r)]) =>
           Printing(cpc'[r], Len(read'[Client(r)]), m, at, printed'[r], cast[r])
  PROVE  Flow(r)'
<1>1. Track(r, m, at)'
  BY DEF Track
<1> QED
  BY <1>1 DEF Flow

(* The worker says one more line. *)
LEMMA SaysLine ==
  ASSUME Types, NEW r \in Receivers, NEW m, NEW at, Track(r, m, at), NEW text, IsLine(text),
         Said(r)' = Said(r) \o text,
         Fits(sent'[Server(r)]) => Fits(sent[Server(r)]),
         UNCHANGED <<cpc, printed>>, cast'[r] = cast[r], read'[Client(r)] = read[Client(r)],
         Stage(wpc'[r], m + 1, cast[r], queue'[r]),
         m >= 2 => m - 1 <= Len(cast[r]) /\ Delivers(text, cast[r][m - 1])
  PROVE  Flow(r)'
<1>1. Cuts(Said(r), m, at) /\ Said(r) \in Seq(Chars) /\ m \in Nat
  BY ReceiverTypes DEF Track, Cuts
<1>2. PICK more : /\ Cuts(Said(r) \o text, m + 1, more)
                  /\ \A i \in 0 .. m : more[i] = at[i]
                  /\ \A i \in 1 .. m : Piece(Said(r) \o text, more, i) = Piece(Said(r), at, i)
                  /\ Piece(Said(r) \o text, more, m + 1) = text
  BY <1>1, OneMoreLine
<1>3. Delivered(Said(r) \o text, m + 1, more, cast[r])
  <2> SUFFICES ASSUME NEW i \in 3 .. m + 1
               PROVE  /\ i - 2 <= Len(cast[r])
                      /\ Delivers(Piece(Said(r) \o text, more, i), cast[r][i - 2])
    BY DEF Delivered
  <2>1. CASE i = m + 1
    <3>1. m >= 2 /\ i - 2 = m - 1
      BY <1>1, <2>1
    <3> QED
      BY <1>2, <2>1, <3>1
  <2>2. CASE i # m + 1
    <3>1. i \in 3 .. m /\ i \in 1 .. m
      BY <1>1, <2>2
    <3> QED
      BY <1>2, <3>1 DEF Track, Delivered
  <2> QED
    BY <2>1, <2>2
<1>4. ASSUME Fits(sent'[Server(r)])
      PROVE  Printing(cpc[r], Len(read[Client(r)]), m + 1, more, printed[r], cast[r])
  <2>1. Printing(cpc[r], Len(read[Client(r)]), m, at, printed[r], cast[r])
    BY <1>4 DEF Track
  <2>2. Len(printed[r]) \in Nat
    BY ReceiverTypes, LenProperties
  <2>3. cpc[r] \in {"join", "joining"} =>
          m + 1 >= 1 /\ Len(read[Client(r)]) = more[1]
    BY <1>1, <1>2, <2>1 DEF Printing
  <2>4. cpc[r] = "listening" =>
          m + 1 >= 2 + Len(printed[r]) /\ Len(read[Client(r)]) = more[2 + Len(printed[r])]
    BY <1>1, <1>2, <2>1, <2>2 DEF Printing
  <2> QED
    BY <2>1, <2>3, <2>4 DEF Printing
<1>5. Track(r, m + 1, more)'
  BY <1>2, <1>3, <1>4 DEF Track
<1> QED
  BY <1>5 DEF Flow

(* A text is put in the queue. *)
LEMMA HearsText ==
  ASSUME Types, NEW r \in Receivers, Flow(r), NEW text \in Seq(Chars),
         NEW p \in Seq(Chars) \X Seq(Chars), Stands(text, p),
         wpc[r] \in {"joined", "deliver", "leave"}, wpc'[r] = wpc[r],
         Said(r)' = Said(r), sent'[Server(r)] = sent[Server(r)],
         cpc'[r] = cpc[r], printed'[r] = printed[r], read'[Client(r)] = read[Client(r)],
         cast'[r] = Append(cast[r], p), queue'[r] = Append(queue[r], text)
  PROVE  Flow(r)'
<1>1. PICK m, at : Track(r, m, at)
  BY DEF Flow
<1>2. m \in Nat
  BY <1>1 DEF Track, Cuts
<1>3. /\ cast[r] \in Seq(Seq(Chars) \X Seq(Chars)) /\ queue[r] \in Seq(Seq(Chars))
      /\ printed[r] \in Seq(Seq(Chars) \X Seq(Chars))
  BY ReceiverTypes
<1>4. /\ Len(cast[r]) \in Nat /\ Len(queue[r]) \in Nat /\ Len(printed[r]) \in Nat
      /\ Len(cast'[r]) = Len(cast[r]) + 1 /\ cast'[r][Len(cast[r]) + 1] = p
      /\ \A i \in 1 .. Len(cast[r]) : cast'[r][i] = cast[r][i]
      /\ Len(queue'[r]) = Len(queue[r]) + 1 /\ queue'[r][Len(queue[r]) + 1] = text
      /\ \A i \in 1 .. Len(queue[r]) : queue'[r][i] = queue[r][i]
  BY <1>3, AppendProperties, LenProperties
<1>5. /\ m >= 2 /\ Len(cast[r]) = m - 2 + Len(queue[r])
      /\ \A j \in 1 .. Len(queue[r]) : Stands(queue[r][j], cast[r][m - 2 + j])
  BY <1>1 DEF Track, Stage
<1>6. Stage(wpc[r], m, cast'[r], queue'[r])
  <2>1. Len(cast'[r]) = m - 2 + Len(queue'[r])
    BY <1>2, <1>4, <1>5
  <2>2. ASSUME NEW j \in 1 .. Len(queue'[r])
        PROVE  Stands(queue'[r][j], cast'[r][m - 2 + j])
    <3>1. CASE j = Len(queue[r]) + 1
      <4>1. m - 2 + j = Len(cast[r]) + 1
        BY <1>2, <1>4, <1>5, <3>1
      <4> QED
        BY <1>4, <3>1, <4>1
    <3>2. CASE j # Len(queue[r]) + 1
      <4>1. j \in 1 .. Len(queue[r]) /\ m - 2 + j \in 1 .. Len(cast[r])
        BY <1>2, <1>4, <1>5, <3>2
      <4> QED
        BY <1>4, <1>5, <4>1
    <3> QED
      BY <3>1, <3>2
  <2> QED
    BY <1>5, <2>1, <2>2 DEF Stage
<1>7. Delivered(Said(r), m, at, cast'[r])
  <2> SUFFICES ASSUME NEW i \in 3 .. m
               PROVE  i - 2 <= Len(cast'[r]) /\ Delivers(Piece(Said(r), at, i), cast'[r][i - 2])
    BY DEF Delivered
  <2>1. i - 2 <= Len(cast[r]) /\ Delivers(Piece(Said(r), at, i), cast[r][i - 2])
    BY <1>1 DEF Track, Delivered
  <2>2. i - 2 \in 1 .. Len(cast[r]) /\ i - 2 <= Len(cast'[r])
    BY <1>2, <1>4, <2>1
  <2> QED
    BY <1>4, <2>1, <2>2
<1>8. ASSUME Fits(sent[Server(r)])
      PROVE  Printing(cpc[r], Len(read[Client(r)]), m, at, printed[r], cast'[r])
  <2>1. Printing(cpc[r], Len(read[Client(r)]), m, at, printed[r], cast[r])
    BY <1>1, <1>8 DEF Track
  <2>2. Len(printed[r]) <= Len(cast'[r])
    BY <1>4, <2>1 DEF Printing
  <2>3. \A i \in 1 .. Len(printed[r]) : printed[r][i] = cast'[r][i]
    BY <1>4, <2>1 DEF Printing
  <2> QED
    BY <2>1, <2>2, <2>3 DEF Printing
<1>9. Track(r, m, at)'
  BY <1>1, <1>6, <1>7, <1>8 DEF Track
<1> QED
  BY <1>9 DEF Flow

(* What a worker that serves says. *)
LEMMA ServesSaid ==
  ASSUME Types, NEW r \in Receivers, NEW from, NEW line, NEW text \in Seq(Chars), NEW to,
         Serve(r, from, line, text, to)
  PROVE  /\ Said(r)' = Said(r) \o text /\ wpc[r] = from /\ wpc'[r] = to
         /\ UNCHANGED <<cpc, printed, sent>> /\ read'[Client(r)] = read[Client(r)]
<1>1. /\ r \in Conns /\ Client(r) \in Ends /\ Server(r) \in Ends /\ Client(r) # Server(r)
      /\ reply[r] \in Seq(Chars) /\ sent[Server(r)] \in Seq(Chars)
      /\ reply \in [Conns -> Seq(Chars)] /\ read \in [Ends -> Seq(Chars)]
  BY ReceiverTypes, EndsOf, SessionTypes DEF Client, Server
<1>2. /\ reply[r] = <<>> /\ reply'[r] = text /\ wpc[r] = from /\ wpc'[r] = to
      /\ UNCHANGED clientVars
  BY <1>1 DEF Serve, WorkerGoto, Receive, Receives, Server, Types, WorkerTypes
<1>3. UNCHANGED sent /\ read'[Client(r)] = read[Client(r)]
  BY <1>1 DEF Serve, Receive, ReturnsLine, ReturnsNone, EndCall
<1>4. Said(r) = sent[Server(r)]
  BY <1>1, <1>2, EmptyOnRight DEF Said
<1> QED
  BY <1>2, <1>3, <1>4 DEF Said, clientVars

LEMMA FlowLogin ==
  ASSUME Types, NEW r \in Receivers, Role(r), Flow(r), LoginRefused(r) \/ Login(r)
  PROVE  Flow(r)'
<1>1. PICK m, at : Track(r, m, at)
  BY DEF Flow
<1>2. UNCHANGED <<queue, cast>> /\ wpc[r] = "login"
  BY DEF LoginRefused, Login, Serve, WorkerGoto
<1>3. m = 0 /\ cast[r] = <<>> /\ queue[r] = <<>>
  BY <1>1, <1>2 DEF Track, Stage
<1>4. CASE LoginRefused(r)
  <2>1. PICK line : /\ Serve(r, "login", line, IF line # <<>> /\ ~Valid(line) THEN Err("invalid") ELSE <<>>, "close")
    BY <1>4 DEF LoginRefused
  <2>2. PICK text \in Seq(Chars) : /\ IsLine(text) \/ text = <<>>
                                   /\ Serve(r, "login", line, text, "close")
    <3>1. IsLine(Err("invalid")) /\ Err("invalid") \in Seq(Chars) /\ <<>> \in Seq(Chars)
      BY Answering, EmptySeq DEF Words, IsLine, Plain
    <3> QED
      BY <2>1, <3>1
  <2>3. /\ Said(r)' = Said(r) \o text /\ wpc'[r] = "close"
        /\ UNCHANGED <<cpc, printed, sent>> /\ read'[Client(r)] = read[Client(r)]
    BY <2>2, ServesSaid
  <2>4. Stage("close", m, cast[r], queue[r]) /\ Stage("close", m + 1, cast[r], queue[r])
    BY DEF Stage
  <2>5. CASE IsLine(text)
    BY <1>1, <1>2, <1>3, <2>3, <2>4, <2>5, SaysLine
  <2>6. CASE text = <<>>
    <3>1. Said(r)' = Said(r)
      BY <2>3, <2>6, ReceiverTypes, EmptyOnRight
    <3> QED
      BY <1>1, <1>2, <2>3, <2>4, <3>1, Unsaid DEF Track
  <2> QED
    BY <2>2, <2>5, <2>6
<1>5. CASE Login(r)
  <2>1. PICK line : /\ line = got[Server(r)] /\ Valid(line)
                    /\ Serve(r, "login", line, Greeting("logged", DataOf(line)),
                             IF HasTag(line, "slogin") THEN "receive" ELSE "join")
    BY <1>5 DEF Login, Greeting
  <2>2. DataOf(line) \in Seq(Chars) /\ Plain(DataOf(line)) /\ "logged" \in Words /\ r \in Conns
    BY <2>1, ServerReads, RolesOf DEF Words
  <2>3. PICK text \in Seq(Chars) : text = Greeting("logged", DataOf(line)) /\ IsLine(text)
    BY <2>2, Greetings
  <2>4. /\ Said(r)' = Said(r) \o text
        /\ UNCHANGED <<cpc, printed, sent>> /\ read'[Client(r)] = read[Client(r)]
    <3>1. PICK to : Serve(r, "login", line, text, to)
      BY <2>1, <2>3
    <3> QED
      BY <3>1, ServesSaid
  <2>5. wpc'[r] = "join"
    BY <1>5, ReceiverLogsIn
  <2>6. Stage("join", m + 1, cast[r], queue[r])
    BY <1>3 DEF Stage
  <2> QED
    BY <1>1, <1>2, <1>3, <2>3, <2>4, <2>5, <2>6, SaysLine
<1> QED
  BY <1>4, <1>5

LEMMA FlowJoin ==
  ASSUME Types, NEW r \in Receivers, Flow(r), JoinRefused(r) \/ Join(r)
  PROVE  Flow(r)'
<1>1. PICK m, at : Track(r, m, at)
  BY DEF Flow
<1>2. UNCHANGED <<queue, cast>> /\ wpc[r] = "join"
  BY DEF JoinRefused, Join, Serve, WorkerGoto
<1>3. m = 1 /\ cast[r] = <<>> /\ queue[r] = <<>> /\ Len(<<>>) = 0
  BY <1>1, <1>2 DEF Track, Stage
<1>4. PICK text \in Seq(Chars), to \in {"joined", "close"} :
        IsLine(text) /\ \E line : Serve(r, "join", line, text, to)
  <2>1. /\ IsLine(Err("refused")) /\ Err("refused") \in Seq(Chars)
        /\ IsLine(Ok("welcome")) /\ Ok("welcome") \in Seq(Chars)
    BY Answering DEF Words, IsLine, Plain
  <2>2. \/ \E line : Serve(r, "join", line, Err("refused"), "close")
        \/ \E line : Serve(r, "join", line, Ok("welcome"), "joined")
    BY DEF JoinRefused, Join
  <2> QED
    BY <2>1, <2>2
<1>5. /\ Said(r)' = Said(r) \o text /\ wpc'[r] = to
      /\ UNCHANGED <<cpc, printed, sent>> /\ read'[Client(r)] = read[Client(r)]
  BY <1>4, ServesSaid
<1>6. Stage(to, m + 1, cast[r], queue[r])
  BY <1>3 DEF Stage
<1>7. /\ Stage(wpc'[r], m + 1, cast[r], queue'[r]) /\ ~(m >= 2) /\ IsLine(text)
      /\ cast'[r] = cast[r] /\ (Fits(sent'[Server(r)]) => Fits(sent[Server(r)]))
  BY <1>2, <1>3, <1>4, <1>5, <1>6
<1> QED
  BY <1>1, <1>5, <1>7, SaysLine

LEMMA FlowDeliver ==
  ASSUME Types, NEW r \in Receivers, Flow(r), Deliver(r)
  PROVE  Flow(r)'
<1>1. PICK m, at : Track(r, m, at)
  BY DEF Flow
<1>2. /\ r \in Conns /\ queue[r] \in Seq(Seq(Chars)) /\ reply[r] \in Seq(Chars)
      /\ sent[Server(r)] \in Seq(Chars) /\ cast[r] \in Seq(Seq(Chars) \X Seq(Chars))
      /\ m \in Nat
  BY <1>1, ReceiverTypes DEF Track, Cuts
<1>3. /\ wpc[r] \in {"joined", "deliver"} /\ wpc'[r] = "deliver"
      /\ queue[r] # <<>> /\ queue'[r] = Tail(queue[r])
      /\ reply[r] = <<>> /\ reply'[r] = Encoded("delivery", Head(queue[r]))
      /\ UNCHANGED <<sent, read, cpc, printed, cast>>
  BY <1>2 DEF Deliver, rioVars, clientVars, Types, WorkerTypes
<1>4. /\ m >= 2 /\ Len(cast[r]) = m - 2 + Len(queue[r])
      /\ \A j \in 1 .. Len(queue[r]) : Stands(queue[r][j], cast[r][m - 2 + j])
  BY <1>1, <1>3 DEF Track, Stage
<1>5. /\ Len(queue[r]) \in Nat /\ Len(queue[r]) >= 1 /\ Head(queue[r]) = queue[r][1]
      /\ Head(queue[r]) \in Seq(Chars)
      /\ Len(queue'[r]) = Len(queue[r]) - 1
      /\ \A j \in 1 .. Len(queue[r]) - 1 : queue'[r][j] = queue[r][j + 1]
  BY <1>2, <1>3, HeadTailProperties, LenProperties, EmptySeq
<1>6. PICK text : text = Encoded("delivery", Head(queue[r]))
  OBVIOUS
<1>7. IsLine(text) /\ text \in Seq(Chars) /\ Delivers(text, cast[r][m - 1])
  <2>1. Stands(Head(queue[r]), cast[r][m - 1])
    <3>1. 1 \in 1 .. Len(queue[r]) /\ m - 2 + 1 = m - 1
      BY <1>2, <1>5
    <3> QED
      BY <1>4, <1>5, <3>1
  <2> QED
    BY <1>5, <1>6, <2>1, Encodes DEF Stands, Tags
<1>8. Said(r)' = Said(r) \o text
  BY <1>2, <1>3, <1>6, EmptyOnRight DEF Said
<1>9. Stage("deliver", m + 1, cast[r], queue'[r])
  <2>1. m + 1 >= 2 /\ Len(cast[r]) = (m + 1) - 2 + Len(queue'[r])
    BY <1>2, <1>4, <1>5
  <2>2. ASSUME NEW j \in 1 .. Len(queue'[r])
        PROVE  Stands(queue'[r][j], cast[r][(m + 1) - 2 + j])
    <3>1. j + 1 \in 1 .. Len(queue[r]) /\ m - 2 + (j + 1) = (m + 1) - 2 + j
          /\ j \in 1 .. Len(queue[r]) - 1
      BY <1>2, <1>5
    <3>2. Stands(queue[r][j + 1], cast[r][m - 2 + (j + 1)])
      BY <1>4, <3>1
    <3> QED
      BY <1>5, <3>1, <3>2
  <2> QED
    BY <2>1, <2>2 DEF Stage
<1>10. m - 1 <= Len(cast[r])
  BY <1>2, <1>4, <1>5
<1> QED
  BY <1>1, <1>3, <1>7, <1>8, <1>9, <1>10, SaysLine

LEMMA FlowOfWorker ==
  ASSUME Types, NEW r \in Receivers, Role(r), Flow(r), WorkerStep(r)
  PROVE  Flow(r)'
<1>1. PICK m, at : Track(r, m, at)
  BY DEF Flow
<1>2. /\ r \in Conns /\ Client(r) \in Ends /\ Server(r) \in Ends /\ Client(r) # Server(r)
      /\ reply[r] \in Seq(Chars) /\ sent[Server(r)] \in Seq(Chars) /\ Said(r) \in Seq(Chars)
      /\ sent \in [Ends -> Seq(Chars)] /\ WorkerTypes
  BY ReceiverTypes, SessionTypes DEF Client, Server, Types
<1>3. Stage(wpc[r], m, cast[r], queue[r])
  BY <1>1 DEF Track
<1>4. CASE Reply(r)
  <2>1. /\ sent'[Server(r)] = sent[Server(r)] \o reply[r] /\ reply'[r] = <<>>
        /\ UNCHANGED <<read, cpc, printed, cast, queue, wpc>>
    BY <1>2, <1>4 DEF Reply, StartWrite, clientVars, WorkerTypes
  <2>2. Said(r)' = Said(r)
    BY <1>2, <2>1, EmptyOnRight DEF Said
  <2>3. Fits(sent'[Server(r)]) => Fits(sent[Server(r)])
    BY <1>2, <2>1, FitsBefore
  <2> QED
    BY <1>1, <1>3, <2>1, <2>2, <2>3, Unsaid DEF Track
<1>5. CASE Leave(r)
  <2>1. wpc'[r] = "close" /\ UNCHANGED <<sent, read, reply, cpc, printed, cast>>
    BY <1>2, <1>5 DEF Leave, WorkerGoto, rioVars, clientVars, WorkerTypes
  <2>2. Stage("close", m, cast[r], queue'[r])
    BY DEF Stage
  <2> QED
    BY <1>1, <2>1, <2>2, Unsaid DEF Track, Said
<1>6. CASE EndWorker(r)
  <2>1. wpc'[r] = "ended" /\ UNCHANGED <<sent, read, reply, cpc, printed, cast, queue>>
    BY <1>2, <1>6 DEF EndWorker, WorkerGoto, Close, clientVars, WorkerTypes
  <2>2. Stage("ended", m, cast[r], queue[r])
    BY DEF Stage
  <2> QED
    BY <1>1, <2>1, <2>2, Unsaid DEF Track, Said
<1>7. CASE WorkerWriteLost(r)
  <2>1. /\ UNCHANGED <<sent, read, reply, cpc, printed, cast, queue>>
        /\ wpc'[r] = wpc[r] \/ (wpc[r] = "deliver" /\ wpc'[r] = "leave")
    BY <1>2, <1>7 DEF WorkerWriteLost, WorkerGoto, WriteLost, clientVars, WorkerTypes
  <2>2. Stage(wpc'[r], m, cast[r], queue[r])
    BY <1>3, <2>1 DEF Stage
  <2> QED
    BY <1>1, <2>1, <2>2, Unsaid DEF Track, Said
<1>8. /\ ~ServeJoin(r) /\ ~ServeLeave(r) /\ ~ServeSendAll(r) /\ ~ServeQuit(r)
      /\ ~ServeRefused(r) /\ ~ServeNone(r)
  BY DEF Role, ServeJoin, ServeLeave, ServeSendAll, ServeQuit, ServeRefused, ServeNone,
     Request, Serve, WorkerGoto
<1> QED
  BY <1>4, <1>5, <1>6, <1>7, <1>8, FlowLogin, FlowJoin, FlowDeliver, Zenon DEF WorkerStep

(* A receiver's client reads the next line, and what that line delivers. *)
LEMMA ReceiverReads ==
  ASSUME Types, ClosedInv, NEW r \in Receivers, NEW m, NEW at, Track(r, m, at),
         NEW k \in 0 .. m, Len(read[Client(r)]) = at[k], Fits(sent[Server(r)]),
         NEW line, line # <<>>, Receive(Client(r), line)
  PROVE  /\ k < m /\ Len(read'[Client(r)]) = at[k + 1]
         /\ k >= 2 => k - 1 <= Len(cast[r]) /\ Delivers(line, cast[r][k - 1])
<1>1. /\ r \in Conns /\ Client(r) \in Ends /\ Peer(Client(r)) = Server(r)
      /\ reply[r] \in Seq(Chars) /\ Said(r) \in Seq(Chars)
      /\ Cuts(Said(r), m, at) /\ Delivered(Said(r), m, at, cast[r]) /\ m \in Nat
  BY ReceiverTypes DEF Track, Cuts
<1>2. Saying(Client(r), reply[r], Said(r))
  BY <1>1 DEF Saying, Said, ClosedInv, ServerClosed
<1>3. k < m /\ line = Piece(Said(r), at, k + 1) /\ Len(read'[Client(r)]) = at[k + 1]
  BY <1>1, <1>2, ReadsPiece
<1>4. ASSUME k >= 2 PROVE k - 1 <= Len(cast[r]) /\ Delivers(line, cast[r][k - 1])
  <2>1. k + 1 \in 3 .. m /\ (k + 1) - 2 = k - 1
    BY <1>1, <1>3, <1>4
  <2> QED
    BY <1>1, <1>3, <2>1 DEF Delivered
<1> QED
  BY <1>3, <1>4

LEMMA FlowOfClient ==
  ASSUME Types, ClosedInv, NEW r \in Receivers, Flow(r), ClientStep(r) \/ KillClient(r)
  PROVE  Flow(r)'
<1>1. PICK m, at : Track(r, m, at)
  BY DEF Flow
<1>2. /\ r \in Conns /\ r \notin Senders /\ Client(r) \in Ends /\ Server(r) \in Ends
      /\ Client(r) # Server(r) /\ ClientTypes
      /\ sent \in [Ends -> Seq(Chars)] /\ read \in [Ends -> Seq(Chars)]
  BY ReceiverTypes, RolesOf, EndsOf, SessionTypes DEF Client, Server, Types
<1>3. UNCHANGED workerVars
  BY <1>2, ClientStepTypes, UserTypes
<1>4. m \in Nat /\ at \in [0 .. m -> Nat] /\ at[0] = 0
      /\ Stage(wpc[r], m, cast[r], queue[r])
  BY <1>1 DEF Track, Cuts
<1>5. /\ printed[r] \in Seq(Seq(Chars) \X Seq(Chars)) /\ Len(printed[r]) \in Nat
      /\ printed[r] = <<>> => Len(printed[r]) = 0
  BY ReceiverTypes, LenProperties, EmptySeq
<1> DEFINE P == Printing(cpc[r], Len(read[Client(r)]), m, at, printed[r], cast[r])
           P2 == Printing(cpc'[r], Len(read'[Client(r)]), m, at, printed'[r], cast[r])
<1>6. Fits(sent[Server(r)]) => P
  BY <1>1 DEF Track
<1>7. ASSUME sent'[Server(r)] = sent[Server(r)], Fits(sent[Server(r)]) => P2
      PROVE  Flow(r)'
  <2>1. Said(r)' = Said(r) /\ UNCHANGED <<wpc, cast, queue>>
    BY <1>3, <1>7 DEF Said, workerVars
  <2> QED
    BY <1>1, <1>4, <1>7, <2>1, Unsaid
<1>8. CASE StartLogin(r) \/ StartJoin(r)
  <2>1. /\ sent'[Server(r)] = sent[Server(r)] /\ UNCHANGED <<read, printed>>
        /\ \/ cpc[r] = "start" /\ cpc'[r] = "login"
           \/ cpc[r] = "join" /\ cpc'[r] = "joining"
    BY <1>2, <1>8 DEF StartLogin, StartJoin, StartWrite, ClientGoto, ClientTypes
  <2>2. P => P2
    BY <2>1 DEF Printing
  <2> QED
    BY <1>6, <1>7, <2>1, <2>2
<1>9. CASE EndLogin(r)
  <2>1. PICK line : /\ Receive(Client(r), line)
                    /\ cpc[r] \in {"login", "joining"}
                    /\ cpc'[r] = IF ~Accepted(line) THEN "close"
                                 ELSE IF cpc[r] = "joining" THEN "listening"
                                 ELSE IF r \in Senders THEN "prompt" ELSE "join"
                    /\ UNCHANGED printed
    BY <1>2, <1>9 DEF EndLogin, ClientTypes
  <2>2. UNCHANGED sent
    BY <2>1 DEF Receive, ReturnsLine, ReturnsNone, EndCall
  <2>3. CASE ~Accepted(line)
    <3>1. cpc'[r] = "close"
      BY <2>1, <2>3
    <3>2. P => P2
      BY <2>1, <3>1 DEF Printing
    <3> QED
      BY <1>6, <1>7, <2>2, <3>2
  <2>4. CASE Accepted(line) /\ cpc[r] = "login"
    <3>1. cpc'[r] = "join" /\ line # <<>>
      BY <1>2, <2>1, <2>4 DEF Accepted
    <3>2. ASSUME Fits(sent[Server(r)]) PROVE P2
      <4>1. PICK k \in 0 .. m : k = 0 /\ k + 1 = 1
        BY <1>4
      <4>2. Len(read[Client(r)]) = at[k]
        BY <1>4, <1>6, <2>4, <3>2, <4>1 DEF Printing
      <4>3. k < m /\ Len(read'[Client(r)]) = at[k + 1]
        BY <1>1, <2>1, <3>1, <3>2, <4>2, ReceiverReads
      <4>4. m >= 1 /\ Len(read'[Client(r)]) = at[1]
        BY <1>4, <4>1, <4>3
      <4> QED
        BY <1>6, <2>1, <2>4, <3>1, <3>2, <4>4 DEF Printing
    <3> QED
      BY <1>7, <2>2, <3>2
  <2>5. CASE Accepted(line) /\ cpc[r] = "joining"
    <3>1. cpc'[r] = "listening" /\ line # <<>>
      BY <1>2, <2>1, <2>5 DEF Accepted
    <3>2. ASSUME Fits(sent[Server(r)]) PROVE P2
      <4>1. m >= 1 /\ Len(read[Client(r)]) = at[1] /\ printed[r] = <<>>
        BY <1>6, <2>5, <3>2 DEF Printing
      <4>2. PICK k \in 0 .. m : k = 1 /\ k + 1 = 2
        BY <1>4, <4>1
      <4>3. k < m /\ Len(read'[Client(r)]) = at[k + 1]
        BY <1>1, <2>1, <3>1, <3>2, <4>1, <4>2, ReceiverReads
      <4>4. m >= 2 + Len(printed[r]) /\ Len(read'[Client(r)]) = at[2 + Len(printed[r])]
        BY <1>4, <1>5, <4>1, <4>2, <4>3
      <4> QED
        BY <1>6, <2>1, <2>5, <3>1, <3>2, <4>4 DEF Printing
    <3> QED
      BY <1>7, <2>2, <3>2
  <2> QED
    BY <2>1, <2>3, <2>4, <2>5
<1>10. CASE Listen(r)
  <2>1. PICK line :
          /\ Receive(Client(r), line) /\ cpc[r] = "listening"
          /\ \/ /\ cpc'[r] \in {"crash", "close"}
                /\ printed'[r] = printed[r]
             \/ /\ cpc'[r] = "listening"
                /\ line # <<>>
                /\ printed'[r] = Append(printed[r], <<Speaker(DataOf(line)), Spoken(DataOf(line))>>)
                /\ Valid(line) /\ Fields(DataOf(line)) = 3
    BY <1>2, <1>10 DEF Listen, ClientGoto, ClientTypes
  <2>2. UNCHANGED sent
    BY <2>1 DEF Receive, ReturnsLine, ReturnsNone, EndCall
  <2>3. CASE cpc'[r] \in {"crash", "close"} /\ printed'[r] = printed[r]
    <3>1. P => P2
      BY <2>3 DEF Printing
    <3> QED
      BY <1>6, <1>7, <2>2, <3>1
  <2>4. CASE cpc'[r] = "listening"
    <3> SUFFICES ASSUME Fits(sent[Server(r)]) PROVE P2
      BY <1>7, <2>2
    <3> DEFINE n == Len(printed[r])
    <3>1. /\ m >= 2 + n /\ Len(read[Client(r)]) = at[2 + n] /\ n \in Nat
          /\ \A i \in 1 .. n : printed[r][i] = cast[r][i]
      BY <1>5, <1>6, <2>1 DEF Printing
    <3>2. PICK k \in 0 .. m : k = 2 + n
      BY <1>4, <3>1
    <3>3. /\ line # <<>> /\ Delivers(line, cast[r][n + 1]) =>
               printed'[r] = Append(printed[r], cast[r][n + 1])
      BY <2>1, <2>4 DEF Delivers
    <3>4. /\ k < m /\ Len(read'[Client(r)]) = at[k + 1]
          /\ k >= 2 => k - 1 <= Len(cast[r]) /\ Delivers(line, cast[r][k - 1])
      BY <1>1, <2>1, <2>4, <3>1, <3>2, ReceiverReads
    <3>5. /\ k >= 2 /\ k - 1 = n + 1 /\ k + 1 = 2 + (n + 1)
      BY <3>1, <3>2
    <3>6. PICK p : p = cast[r][n + 1]
      OBVIOUS
    <3>7. /\ printed'[r] = Append(printed[r], p) /\ n + 1 <= Len(cast[r])
          /\ m >= 2 + (n + 1) /\ Len(read'[Client(r)]) = at[2 + (n + 1)]
      <4>1. n + 1 <= Len(cast[r]) /\ Delivers(line, cast[r][n + 1])
        BY <3>4, <3>5
      <4>2. printed'[r] = Append(printed[r], p)
        BY <2>1, <2>4, <3>6, <4>1 DEF Delivers
      <4> QED
        BY <1>4, <3>4, <3>5, <4>1, <4>2
    <3>8. p \in Seq(Chars) \X Seq(Chars)
      <4>1. cast[r] \in Seq(Seq(Chars) \X Seq(Chars))
        BY ReceiverTypes
      <4>2. Len(cast[r]) \in Nat
        BY <4>1, LenProperties
      <4>3. n + 1 \in 1 .. Len(cast[r])
        BY <3>1, <3>7, <4>2
      <4> QED
        BY <3>6, <4>1, <4>3, ElementOfSeq
    <3>9. /\ Len(printed'[r]) = n + 1 /\ printed'[r][n + 1] = p
          /\ \A i \in 1 .. n : printed'[r][i] = printed[r][i]
      BY <1>5, <3>7, <3>8, AppendProperties
    <3>10. \A i \in 1 .. n + 1 : printed'[r][i] = cast[r][i]
      BY <3>1, <3>6, <3>9
    <3> QED
      BY <2>4, <3>7, <3>9, <3>10 DEF Printing
  <2> QED
    BY <2>1, <2>3, <2>4
<1>11. CASE GetAnswer(r) \/ GetBye(r)
  <2>1. /\ UNCHANGED printed /\ UNCHANGED sent
        /\ cpc'[r] \in {"prompt", "close", "crash"}
    BY <1>2, <1>11 DEF GetAnswer, GetBye, ClientGoto, ClientTypes, Receive, ReturnsLine,
         ReturnsNone, EndCall
  <2>2. P => P2
    BY <2>1 DEF Printing
  <2> QED
    BY <1>6, <1>7, <2>1, <2>2
<1>12. CASE EndClient(r) \/ KillClient(r) \/ ClientWriteLost(r)
  <2>1. /\ UNCHANGED printed /\ UNCHANGED <<sent, read>>
        /\ cpc'[r] = cpc[r] \/ cpc'[r] \in {"ended", "killed", "crash"}
    BY <1>2, <1>12 DEF EndClient, KillClient, ClientWriteLost, ClientTypes, Close, WriteLost
  <2>2. P => P2
    BY <2>1 DEF Printing
  <2> QED
    BY <1>6, <1>7, <2>1, <2>2
<1> QED
  BY <1>8, <1>9, <1>10, <1>11, <1>12, Zenon DEF ClientStep

(* At the receiver nothing happens. *)
LEMMA NothingSaid ==
  ASSUME NEW r \in Receivers, Flow(r),
         sent'[Server(r)] = sent[Server(r)], reply'[r] = reply[r], wpc'[r] = wpc[r],
         read'[Client(r)] = read[Client(r)], cpc'[r] = cpc[r], printed'[r] = printed[r],
         queue'[r] = queue[r], cast'[r] = cast[r]
  PROVE  Flow(r)'
<1>1. PICK m, at : Track(r, m, at)
  BY DEF Flow
<1> QED
  BY <1>1, Unsaid DEF Track, Said

(* Only a broadcast reaches what belongs to another connection. *)
LEMMA CastAlone ==
  ASSUME Types, NEW r \in Receivers, NEW d \in Conns, d # r, StepAt(d), ~ServeSendAll(d)
  PROVE  cast'[r] = cast[r] /\ queue'[r] = queue[r]
<1>1. WorkerTypes
  BY DEF Types
<1>2. CASE WorkerStep(d)
  <2>1. CASE Reply(d) \/ LoginRefused(d) \/ Login(d) \/ JoinRefused(d) \/ Join(d)
    BY <2>1 DEF Reply, LoginRefused, Login, JoinRefused, Join
  <2>2. CASE Deliver(d) \/ Leave(d)
    BY <1>1, <2>2 DEF Deliver, Leave, WorkerTypes
  <2>3. CASE ServeJoin(d) \/ ServeLeave(d) \/ ServeQuit(d) \/ ServeRefused(d) \/ ServeNone(d)
    BY <2>3 DEF ServeJoin, ServeLeave, ServeQuit, ServeRefused, ServeNone
  <2>4. CASE EndWorker(d) \/ WorkerWriteLost(d)
    BY <2>4 DEF EndWorker, WorkerWriteLost
  <2> QED
    BY <1>2, <2>1, <2>2, <2>3, <2>4, Zenon DEF WorkerStep
<1>3. CASE ~WorkerStep(d)
  <2>1. UNCHANGED workerVars
    BY <1>3, ClientStepTypes, UserTypes DEF StepAt
  <2> QED
    BY <2>1 DEF workerVars
<1> QED
  BY <1>2, <1>3

(* The receivers that hear the sender's message are in its room, and what   *)
(* is put in their queues stands for what was broadcast.                    *)
LEMMA FlowSendAll ==
  ASSUME Types, RoleInv, NEW r \in Receivers, Flow(r), NEW d \in Conns, d # r, ServeSendAll(d)
  PROVE  Flow(r)'
<1> DEFINE name == CHOOSE n \in room[d] : TRUE
           data == DataOf(got[Server(d)])
           t == Text(name, user[d], data)
           s == <<Trim(user[d]), Name(data)>>
<1>1. /\ room[d] # {} /\ name \in room[d]
      /\ Valid(got[Server(d)])
      /\ t \in Seq(Chars) /\ s \in Seq(Chars) \X Seq(Chars)
      /\ queue' = [q \in Receivers |-> IF Hears(q, d) THEN Append(queue[q], t) ELSE queue[q]]
      /\ cast' = [q \in Receivers |-> IF Hears(q, d) THEN Append(cast[q], s) ELSE cast[q]]
  BY SendAllIs
<1>2. Alone(r) /\ SameClient(r) /\ SameWorker(r)
  <2>1. StepAt(d)
    BY DEF StepAt, WorkerStep
  <2> QED
    BY <2>1, RolesOf, StepAlone
<1>3. /\ sent'[Server(r)] = sent[Server(r)] /\ reply'[r] = reply[r] /\ wpc'[r] = wpc[r]
      /\ read'[Client(r)] = read[Client(r)] /\ cpc'[r] = cpc[r] /\ printed'[r] = printed[r]
  BY <1>2 DEF Alone, SameClient, SameWorker
<1>4. Plain(data)
  BY <1>1, ServerReads
<1>5. IsName(user[d]) /\ Role(r)
  BY DEF RoleInv
<1> HIDE DEF name, data
<1>6. CASE Hears(r, d)
  <2>1. room[r] = room[d]
    BY <1>6 DEF Hears
  <2>2. wpc[r] \in {"joined", "deliver", "leave"} /\ IsName(name)
    BY <1>1, <1>5, <2>1 DEF Role
  <2>3. Stands(t, s)
    BY <1>4, <1>5, <2>2, TextStands
  <2> HIDE DEF t, s
  <2>4. cast'[r] = Append(cast[r], s) /\ queue'[r] = Append(queue[r], t)
    BY <1>1, <1>6
  <2>5. Said(r)' = Said(r)
    BY <1>3 DEF Said
  <2> QED
    BY <1>1, <1>3, <2>2, <2>3, <2>4, <2>5, HearsText
<1>7. CASE ~Hears(r, d)
  <2> HIDE DEF t, s
  <2>1. cast'[r] = cast[r] /\ queue'[r] = queue[r]
    BY <1>1, <1>7
  <2> QED
    BY <1>3, <2>1, NothingSaid
<1> QED
  BY <1>6, <1>7

FlowInv == Types /\ ClosedInv /\ RoleInv /\ \A r \in Receivers : Flow(r)

LEMMA FlowInit == Init => \A r \in Receivers : Flow(r)
<1> SUFFICES ASSUME Init, NEW r \in Receivers PROVE Flow(r)
  OBVIOUS
<1> DEFINE at == [i \in 0 .. 0 |-> 0]
<1>1. /\ sent[Server(r)] = <<>> /\ reply[r] = <<>> /\ read[Client(r)] = <<>>
      /\ cpc[r] = "start" /\ wpc[r] = "login"
      /\ printed[r] = <<>> /\ queue[r] = <<>> /\ cast[r] = <<>>
  BY RolesOf, EndsOf DEF Init, RioInit
<1>2. Said(r) = <<>> /\ Len(<<>>) = 0
  <2>1. <<>> \in Seq(Chars) /\ <<>> \o <<>> = <<>>
    BY EmptySeq, EmptyOnRight
  <2> QED
    BY <1>1, <2>1, EmptySeq DEF Said
<1>3. Cuts(<<>>, 0, at)
  BY <1>2 DEF Cuts
<1>4. Stage("login", 0, <<>>, <<>>) /\ Delivered(<<>>, 0, at, <<>>)
  BY DEF Stage, Delivered
<1>5. Printing("start", 0, 0, at, <<>>, <<>>)
  BY <1>2 DEF Printing
<1>6. Track(r, 0, at)
  BY <1>1, <1>2, <1>3, <1>4, <1>5 DEF Track
<1> QED
  BY <1>6 DEF Flow

LEMMA FlowStep ==
  ASSUME FlowInv, [Next]_vars, NEW r \in Receivers
  PROVE  Flow(r)'
<1>1. r \in Conns /\ r \notin Senders /\ Types /\ ClosedInv /\ RoleInv /\ Role(r) /\ Flow(r)
  BY RolesOf DEF FlowInv, RoleInv
<1>2. ASSUME NEW d \in Conns, StepAt(d), d # r PROVE Flow(r)'
  <2>1. CASE ServeSendAll(d)
    BY <1>1, <1>2, <2>1, FlowSendAll
  <2>2. CASE ~ServeSendAll(d)
    <3>1. cast'[r] = cast[r] /\ queue'[r] = queue[r]
      BY <1>1, <1>2, <2>2, CastAlone
    <3>2. Alone(r) /\ SameClient(r) /\ SameWorker(r)
      BY <1>1, <1>2, StepAlone
    <3> QED
      BY <1>1, <3>1, <3>2, NothingSaid DEF Alone, SameClient, SameWorker
  <2> QED
    BY <2>1, <2>2
<1>3. CASE StepAt(r)
  BY <1>1, <1>3, FlowOfClient, FlowOfWorker DEF StepAt
<1>4. ASSUME UNCHANGED <<sent, read, clientVars, workerVars>> PROVE Flow(r)'
  BY <1>1, <1>4, NothingSaid DEF clientVars, workerVars
<1>5. ASSUME NEW e \in Ends, Transfer(e) PROVE Flow(r)'
  BY <1>4, <1>5, TransferAlone
<1>6. CASE UNCHANGED vars
  BY <1>4, <1>6 DEF vars, rioVars
<1> QED
  BY <1>2, <1>3, <1>5, <1>6, StepIs

LEMMA FlowInvIsInvariant == Spec => []FlowInv
<1>1. Init => FlowInv
  BY TypesInit, ClosedInit, RoleInit, FlowInit DEF FlowInv
<1>2. FlowInv /\ [Next]_vars => FlowInv'
  <2> SUFFICES ASSUME FlowInv, [Next]_vars PROVE FlowInv'
    OBVIOUS
  <2>1. Types' /\ ClosedInv' /\ RoleInv'
    BY TypesStep, ClosedStep, RoleStep DEF FlowInv
  <2>2. ASSUME NEW r \in Receivers PROVE Flow(r)'
    BY FlowStep
  <2> QED
    BY <2>1, <2>2 DEF FlowInv
<1> QED
  BY <1>1, <1>2, PTL DEF Spec

(* Whatever happens to the streams and to the clients: a receiver has       *)
(* printed the first of the messages broadcast to it, each of them once, in *)
(* their order and with the name of who said it, as long as no line of its  *)
(* worker was too long.                                                     *)
THEOREM PrintsWhatWasSaid == Spec => []PrintedAsSaid
<1>1. FlowInv => PrintedAsSaid
  <2> SUFFICES ASSUME FlowInv, NEW r \in Receivers, Fits(sent[Server(r)])
               PROVE  IsPrefix(printed[r], cast[r])
    BY DEF PrintedAsSaid
  <2> DEFINE p == printed[r]
             c == cast[r]
  <2>1. Types /\ Flow(r)
    BY DEF FlowInv
  <2>2. PICK m, at : Track(r, m, at)
    BY <2>1 DEF Flow
  <2>3. Len(p) <= Len(c) /\ \A i \in 1 .. Len(p) : p[i] = c[i]
    BY <2>2 DEF Track, Printing
  <2>4. /\ p \in Seq(Seq(Chars) \X Seq(Chars)) /\ c \in Seq(Seq(Chars) \X Seq(Chars))
        /\ Len(p) \in Nat /\ Len(c) \in Nat
    BY <2>1, ReceiverTypes, LenProperties
  <2> HIDE DEF p, c
  <2>5. p = SubSeq(c, 1, Len(p))
    <3>1. /\ SubSeq(c, 1, Len(p)) \in Seq(Seq(Chars) \X Seq(Chars))
          /\ Len(SubSeq(c, 1, Len(p))) = Len(p)
          /\ \A i \in 1 .. Len(p) : SubSeq(c, 1, Len(p))[i] = c[i]
      BY <2>3, <2>4, SubSeqProperties
    <3> QED
      BY <2>3, <2>4, <3>1, SeqEqual
  <2>6. IsPrefix(p, c)
    BY <2>3, <2>4, <2>5 DEF IsPrefix
  <2> QED
    BY <2>6 DEF p, c
<1> QED
  BY <1>1, FlowInvIsInvariant, PTL
=============================================================================
