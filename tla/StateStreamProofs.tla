--------------------------- MODULE StateStreamProofs ---------------------------
(***************************************************************************)
(* What StateStream.tla claims, for any number of frames, any room between   *)
(* the sockets and any bound on the spins.  The argument: the unread bytes   *)
(* are heads and tails in turn, so the last newline of any prefix is where   *)
(* its length says, and what is parsed is one whole line.                    *)
(***************************************************************************)
EXTENDS StateStream, SequenceTheorems, TLAPS

\* s is a run of whole lines, the last one possibly without its tail.
Lines(s) ==
  \A i \in 1 .. Len(s) :
    /\ s[i].part = "head" <=> i % 2 = 1
    /\ i % 2 = 0 => s[i - 1].n = s[i].n

\* The snapshots of s are later than a, no later than b, and in their order.
Between(s, a, b) ==
  /\ \A i \in 1 .. Len(s) : a < s[i].n /\ s[i].n <= b
  /\ \A i, j \in 1 .. Len(s) : (i < j /\ s[i].part = "tail") => s[i].n < s[j].n

\* What the unread bytes of a connection are.
StreamInv ==
  /\ Lines(Unread) /\ Between(Unread, shown, frame)
  /\ shown <= frame
  /\ latest \in {Offline, shown}

\* Where the game thread, the IPC thread and the reader are with each other.
SidesInv ==
  /\ unsent \in {<< >>, <<TailOf(frame)>>}
  /\ client = "live" => sock \in {"open", "left"}
  /\ (client = "live" /\ unsent = << >>) => Len(Unread) % 2 = 0
  /\ (client = "live" /\ unsent # << >>)
       => Len(Unread) % 2 = 1 /\ Unread[Len(Unread)].n = frame /\ frame > 0
  /\ sock = "none" => Unread = << >>
  /\ (client # "live" /\ sock = "open") => Unread = << >>

Inv == TypeOK /\ StreamInv /\ SidesInv

-----------------------------------------------------------------------------
\* A piece that is no head is a tail.
LEMMA TwoParts ==
  ASSUME NEW s \in Seq(Pieces), NEW i \in 1 .. Len(s)
  PROVE  s[i] \in Pieces /\ (s[i].part = "tail" <=> s[i].part # "head")
<1>1. s[i] \in Pieces
  OBVIOUS
<1>2. \A p \in Pieces : p.part = "tail" <=> p.part # "head"
  BY DEF Pieces
<1> QED
  BY <1>1, <1>2

\* t is what s holds behind its first m pieces.
Behind(t, s, m) ==
  /\ t \in Seq(Pieces) /\ Len(t) = Len(s) - m
  /\ \A i \in 1 .. Len(t) : t[i] = s[m + i]

\* An even shift keeps odd and even apart.
LEMMA EvenShift ==
  ASSUME NEW m \in Nat, NEW i \in Nat, m % 2 = 0
  PROVE  (m + i) % 2 = i % 2
  OBVIOUS

\* Odd and even alternate.
LEMMA Parity ==
  ASSUME NEW m \in Nat
  PROVE  /\ (m + 1) % 2 = 0 <=> m % 2 = 1
         /\ (m + 1) % 2 = 1 <=> m % 2 = 0
         /\ m % 2 = 1 => m > 0
  OBVIOUS

\* Before an even position is another one.
LEMMA BeforeEven ==
  ASSUME NEW m \in Nat, NEW i \in 1 .. m, i % 2 = 0
  PROVE  i - 1 \in 1 .. m /\ (i - 1) % 2 = 1
<1>1. i # 1
  <2>1. 1 % 2 = 1
    OBVIOUS
  <2> QED
    BY <2>1
<1>2. i \in Nat /\ i - 1 \in Nat /\ (i - 1) + 1 = i /\ i - 1 \in 1 .. m
  BY <1>1
<1>3. (i - 1) % 2 = 1
  BY <1>2, Parity
<1> QED
  BY <1>2, <1>3

\* A run of whole lines, cut behind one of its newlines, is one again ...
LEMMA CutIsLines ==
  ASSUME NEW s \in Seq(Pieces), NEW m \in 0 .. Len(s), m % 2 = 0, Lines(s),
         NEW t, Behind(t, s, m)
  PROVE  Lines(t)
<1>1. /\ Len(t) \in Nat /\ Len(t) = Len(s) - m
      /\ \A i \in 1 .. Len(t) : t[i] = s[m + i]
  BY DEF Behind
<1> SUFFICES ASSUME NEW i \in 1 .. Len(t)
             PROVE  /\ t[i].part = "head" <=> i % 2 = 1
                    /\ i % 2 = 0 => t[i - 1].n = t[i].n
  BY DEF Lines
<1>2. m \in Nat /\ i \in Nat /\ m + i \in 1 .. Len(s) /\ (m + i) % 2 = i % 2
  <2>1. m \in Nat /\ i \in Nat /\ m + i \in 1 .. Len(s)
    BY <1>1
  <2> QED
    BY <2>1, EvenShift
<1>3. t[i].part = "head" <=> i % 2 = 1
  BY <1>1, <1>2 DEF Lines
<1>4. ASSUME i % 2 = 0
      PROVE  t[i - 1].n = t[i].n
  <2>1. i # 1
    BY <1>4
  <2>2. i - 1 \in 1 .. Len(t) /\ m + (i - 1) = (m + i) - 1
    BY <1>1, <1>2, <2>1
  <2>3. t[i - 1] = s[(m + i) - 1] /\ t[i] = s[m + i]
    BY <1>1, <2>2
  <2> QED
    BY <1>2, <1>4, <2>3 DEF Lines
<1> QED
  BY <1>3, <1>4

\* ... and later than all that was cut off.
LEMMA CutIsBetween ==
  ASSUME NEW s \in Seq(Pieces), NEW m \in 1 .. Len(s), m % 2 = 0, Lines(s),
         NEW a \in Nat, NEW b \in Nat, Between(s, a, b),
         NEW t, Behind(t, s, m)
  PROVE  Between(t, s[m].n, b)
<1>1. /\ Len(t) \in Nat /\ Len(t) = Len(s) - m
      /\ \A i \in 1 .. Len(t) : t[i] = s[m + i]
  BY DEF Behind
<1>2. \A i \in 1 .. Len(t) : t[i] = s[m + i] /\ m + i \in 1 .. Len(s) /\ m < m + i
  BY <1>1
<1>3. s[m].part = "tail"
  BY TwoParts DEF Lines
<1>4. \A i \in 1 .. Len(t) : s[m].n < t[i].n /\ t[i].n <= b
  BY <1>2, <1>3 DEF Between
<1>5. ASSUME NEW i \in 1 .. Len(t), NEW j \in 1 .. Len(t), i < j, t[i].part = "tail"
      PROVE  t[i].n < t[j].n
  <2>1. m + i < m + j
    BY <1>1, <1>5
  <2>2. /\ m + i \in 1 .. Len(s) /\ t[i] = s[m + i]
        /\ m + j \in 1 .. Len(s) /\ t[j] = s[m + j]
    BY <1>2
  <2> QED
    BY <1>5, <2>1, <2>2 DEF Between
<1> QED
  BY <1>4, <1>5 DEF Between

\* In a run of whole lines the last newline is where the length says.
LEMMA LastNewlineIs ==
  ASSUME NEW s \in Seq(Pieces), Lines(s)
  PROVE  /\ LastNewline(s) = Len(s) - (Len(s) % 2)
         /\ Newlines(s) = {} <=> Len(s) - (Len(s) % 2) = 0
<1> DEFINE last == Len(s) - (Len(s) % 2)
<1>1. last \in 0 .. Len(s) /\ last % 2 = 0 /\ Len(s) <= last + 1
  OBVIOUS
<1>2. \A i \in 1 .. Len(s) : s[i].part = "tail" <=> i % 2 = 0
  BY TwoParts DEF Lines
<1>3. Newlines(s) = {i \in 1 .. Len(s) : i % 2 = 0}
  BY <1>2 DEF Newlines
<1> HIDE DEF last
<1>4. \A i \in Newlines(s) : i <= last
  BY <1>1, <1>3
<1>5. CASE last = 0
  BY <1>3, <1>4, <1>5 DEF LastNewline, last
<1>6. CASE last > 0
  <2>1. last \in Newlines(s)
    BY <1>1, <1>3, <1>6
  <2>2. \A i \in Newlines(s) : (\A j \in Newlines(s) : j <= i) => i = last
    BY <1>1, <1>3, <1>4, <2>1
  <2> QED
    BY <1>4, <1>6, <2>1, <2>2 DEF LastNewline, last
<1> QED
  BY <1>1, <1>5, <1>6

\* A prefix of a run of whole lines is one.
LEMMA PrefixIsLines ==
  ASSUME NEW s \in Seq(Pieces), Lines(s), NEW t \in Seq(Pieces), Len(t) <= Len(s),
         \A i \in 1 .. Len(t) : t[i] = s[i]
  PROVE  Lines(t)
<1> SUFFICES ASSUME NEW i \in 1 .. Len(t)
             PROVE  /\ t[i].part = "head" <=> i % 2 = 1
                    /\ i % 2 = 0 => t[i - 1].n = t[i].n
  BY DEF Lines
<1>1. i \in 1 .. Len(s) /\ t[i] = s[i]
  OBVIOUS
<1>2. ASSUME i % 2 = 0
      PROVE  i - 1 \in 1 .. Len(t)
  <2>1. i # 1
    BY <1>2
  <2> QED
    BY <2>1
<1> QED
  BY <1>1, <1>2 DEF Lines

\* Two sequences put together, piece by piece.
LEMMA Together ==
  ASSUME NEW b \in Seq(Pieces), NEW c \in Seq(Pieces)
  PROVE  /\ b \o c \in Seq(Pieces) /\ Len(b \o c) = Len(b) + Len(c)
         /\ \A i \in 1 .. Len(b) : (b \o c)[i] = b[i]
         /\ \A i \in 1 .. Len(c) : (b \o c)[Len(b) + i] = c[i]
  OBVIOUS

\* A part of a sequence, piece by piece.
LEMMA Part ==
  ASSUME NEW s \in Seq(Pieces), NEW i \in 1 .. Len(s) + 1, NEW j \in 0 .. Len(s), i <= j + 1
  PROVE  /\ SubSeq(s, i, j) \in Seq(Pieces) /\ Len(SubSeq(s, i, j)) = j + 1 - i
         /\ \A k \in 1 .. j + 1 - i : SubSeq(s, i, j)[k] = s[i + k - 1]
  OBVIOUS

\* What recv completes: nothing, or one whole line behind which the rest begins.
LEMMA Received ==
  ASSUME NEW b \in Seq(Pieces), NEW st \in Seq(Pieces), Lines(b \o st),
         NEW k \in 1 .. Len(st)
  PROVE  LET u == b \o st
             input == b \o SubSeq(st, 1, k)
             l == LastNewline(input)
         IN  /\ l \in 0 .. Len(u) /\ l % 2 = 0 /\ Len(b) + k - l \in {0, 1}
             /\ Newlines(input) = {} <=> l = 0
             /\ Behind(Rest(input) \o SubSeq(st, k + 1, Len(st)), u, l)
             /\ l > 0 => LastLine(input) = StateLine(u[l].n)
             /\ Rest(input) \in Seq(Pieces) /\ Newlines(Rest(input)) = {}
<1> DEFINE u == b \o st
           first == SubSeq(st, 1, k)
           input == b \o first
           l == LastNewline(input)
           x == SubSeq(input, l + 1, Len(input))
           y == SubSeq(st, k + 1, Len(st))
           before == SubSeq(input, 1, l - 1)
<1>1. /\ first \in Seq(Pieces) /\ Len(first) = k
      /\ \A i \in 1 .. k : first[i] = st[i]
  BY Part
<1>2. /\ y \in Seq(Pieces) /\ Len(y) = Len(st) - k
      /\ \A i \in 1 .. Len(y) : y[i] = st[k + i]
  BY Part
<1>3. /\ u \in Seq(Pieces) /\ Len(u) = Len(b) + Len(st)
      /\ \A i \in 1 .. Len(b) : u[i] = b[i]
      /\ \A i \in 1 .. Len(st) : u[Len(b) + i] = st[i]
  BY Together
<1> Lines(u)
  OBVIOUS
<1> HIDE DEF first, y, u
<1>4. input \in Seq(Pieces) /\ Len(input) = Len(b) + k
  BY <1>1, Together
<1>5. \A i \in 1 .. Len(input) : input[i] = u[i]
  <2>1. \A i \in 1 .. Len(b) : input[i] = u[i]
    BY <1>1, <1>3, Together
  <2>2. \A i \in 1 .. k : input[Len(b) + i] = u[Len(b) + i]
    <3>1. \A i \in 1 .. k : i \in 1 .. Len(st) /\ i \in 1 .. Len(first)
      BY <1>1
    <3>2. \A i \in 1 .. k : input[Len(b) + i] = first[i]
      BY <1>1, <3>1, Together
    <3>3. \A i \in 1 .. k : u[Len(b) + i] = st[i]
      BY <1>3, <3>1
    <3> QED
      BY <1>1, <3>2, <3>3
  <2> SUFFICES ASSUME NEW i \in 1 .. Len(input)
               PROVE  input[i] = u[i]
    OBVIOUS
  <2> HIDE DEF input
  <2>3. CASE i <= Len(b)
    BY <2>1, <2>3
  <2>4. CASE i > Len(b)
    <3>1. i - Len(b) \in 1 .. k /\ Len(b) + (i - Len(b)) = i
      BY <1>4, <2>4
    <3> QED
      BY <2>2, <3>1
  <2> QED
    BY <2>3, <2>4
<1> HIDE DEF input
<1>6. Lines(input)
  <2>1. Len(input) <= Len(u)
    BY <1>3, <1>4
  <2> QED
    BY <2>1, <1>3, <1>4, <1>5, PrefixIsLines
<1>7. l = Len(input) - (Len(input) % 2) /\ (Newlines(input) = {} <=> l = 0)
  BY <1>4, <1>6, LastNewlineIs
<1> HIDE DEF l
<1>8. /\ l \in 0 .. Len(input) /\ l \in 0 .. Len(u) /\ l % 2 = 0
      /\ Len(b) + k - l \in {0, 1}
  BY <1>3, <1>4, <1>7
<1>9. Behind(x \o y, u, l)
  <2>1. /\ x \in Seq(Pieces) /\ Len(x) = Len(input) - l
        /\ \A i \in 1 .. Len(x) : x[i] = input[l + i]
    BY <1>4, <1>8, Part
  <2> HIDE DEF x
  <2>2. /\ x \o y \in Seq(Pieces) /\ Len(x \o y) = Len(x) + Len(y)
        /\ \A i \in 1 .. Len(x) : (x \o y)[i] = x[i]
        /\ \A i \in 1 .. Len(y) : (x \o y)[Len(x) + i] = y[i]
    BY <1>2, <2>1, Together
  <2>3. \A i \in 1 .. Len(x) : (x \o y)[i] = u[l + i]
    BY <1>4, <1>5, <1>8, <2>1, <2>2
  <2>4. \A i \in 1 .. Len(y) : (x \o y)[Len(x) + i] = u[Len(b) + (k + i)]
    BY <1>2, <1>3, <2>2
  <2>5. Len(x) + Len(y) = Len(u) - l
    <3>1. Len(b) \in Nat /\ Len(st) \in Nat /\ k \in Nat
      OBVIOUS
    <3> QED
      BY <1>2, <1>3, <1>4, <1>8, <2>1, <3>1
  <2> DEFINE z == x \o y
  <2> HIDE DEF z
  <2>6. ASSUME NEW i \in 1 .. Len(u) - l
        PROVE  z[i] = u[l + i]
    <3>1. CASE i <= Len(x)
      BY <2>3, <3>1 DEF z
    <3>2. CASE i > Len(x)
      <4>1. /\ i - Len(x) \in 1 .. Len(y) /\ Len(x) + (i - Len(x)) = i
            /\ Len(b) + (k + (i - Len(x))) = l + i
        <5>1. /\ Len(x) \in Nat /\ Len(y) \in Nat /\ Len(b) \in Nat /\ k \in Nat /\ l \in Nat
              /\ Len(x) = (Len(b) + k) - l
          BY <1>2, <1>4, <1>8, <2>1
        <5>2. i \in 1 .. Len(x) + Len(y)
          BY <2>5
        <5> QED
          BY <3>2, <5>1, <5>2
      <4> QED
        BY <2>4, <4>1 DEF z
    <3> QED
      BY <2>1, <3>1, <3>2
  <2> QED
    BY <2>2, <2>5, <2>6 DEF Behind, z
<1>10. ASSUME l > 0
       PROVE  LastLine(input) = StateLine(u[l].n)
  <2>1. l - 1 \in 1 .. Len(input) /\ l \in 1 .. Len(input) /\ (l - 1) % 2 = 1
    <3>1. l \in 1 .. Len(input) /\ Len(input) \in Nat /\ l % 2 = 0
      BY <1>4, <1>8, <1>10
    <3> QED
      BY <3>1, BeforeEven
  <2>2. /\ before \in Seq(Pieces) /\ Len(before) = l - 1
        /\ \A i \in 1 .. Len(before) : before[i] = input[i]
    BY <1>4, <2>1, Part
  <2> HIDE DEF before
  <2>3. Lines(before)
    <3>1. Len(before) <= Len(input) /\ \A i \in 1 .. Len(before) : i \in 1 .. Len(input)
      BY <1>4, <2>1, <2>2
    <3> QED
      BY <1>4, <1>6, <2>2, <3>1, PrefixIsLines
  <2>4. LastNewline(before) = l - 2
    <3>1. LastNewline(before) = Len(before) - (Len(before) % 2)
      BY <2>2, <2>3, LastNewlineIs
    <3>2. Len(before) = l - 1 /\ Len(before) % 2 = 1 /\ l \in Nat
      BY <2>1, <2>2
    <3> QED
      BY <3>1, <3>2
  <2>5. SubSeq(input, l - 1, l) = <<input[l - 1], input[l]>>
    <3> DEFINE line == SubSeq(input, l - 1, l)
    <3>1. line \in Seq(Pieces) /\ Len(line) = 2 /\ line[1] = input[l - 1] /\ line[2] = input[l]
      BY <1>4, <2>1, Part
    <3> HIDE DEF line
    <3>2. line = <<line[1], line[2]>>
      BY <3>1
    <3> QED
      BY <3>1, <3>2 DEF line
  <2>6. input[l - 1] = HeadOf(u[l].n) /\ input[l] = TailOf(u[l].n)
    <3>1. input[l].part = "tail" /\ input[l - 1].part = "head" /\ input[l - 1].n = input[l].n
      BY <1>4, <1>6, <1>8, <2>1, TwoParts DEF Lines
    <3>2. input[l] = u[l] /\ input[l] \in Pieces /\ input[l - 1] \in Pieces
      BY <1>4, <1>5, <2>1
    <3>3. \A p \in Pieces : p = [n |-> p.n, part |-> p.part]
      BY DEF Pieces
    <3> QED
      BY <3>1, <3>2, <3>3 DEF HeadOf, TailOf
  <2>7. (l - 2) + 1 = l - 1
    BY <2>1
  <2>8. LastLine(input) = SubSeq(input, LastNewline(before) + 1, l)
    BY DEF LastLine, before, l
  <2> QED
    BY <2>4, <2>5, <2>6, <2>7, <2>8 DEF StateLine
<1>11. x \in Seq(Pieces) /\ Newlines(x) = {}
  <2>1. /\ x \in Seq(Pieces) /\ Len(x) = Len(input) - l
        /\ \A i \in 1 .. Len(x) : x[i] = input[l + i]
    BY <1>4, <1>8, Part
  <2> HIDE DEF x
  <2>2. \A i \in 1 .. Len(x) : i = 1
    BY <1>4, <1>8, <2>1
  <2>3. (l + 1) % 2 = 1 /\ (Len(x) # 0 => l + 1 \in 1 .. Len(input))
    <3>1. l \in Nat /\ Len(input) \in Nat /\ l % 2 = 0 /\ l <= Len(input)
      BY <1>4, <1>8
    <3>2. (l + 1) % 2 = 1
      BY <3>1
    <3>3. ASSUME Len(x) # 0
          PROVE  l + 1 \in 1 .. Len(input)
      <4>1. Len(input) - l # 0
        BY <2>1, <3>3
      <4> QED
        BY <3>1, <4>1
    <3> QED
      BY <3>2, <3>3
  <2>4. \A i \in 1 .. Len(x) : x[i].part = "head"
    BY <1>6, <2>1, <2>2, <2>3 DEF Lines
  <2> QED
    BY <2>1, <2>4 DEF Newlines
<1> QED
  BY <1>7, <1>8, <1>9, <1>10, <1>11 DEF u, first, input, l, x, y, Rest
-----------------------------------------------------------------------------
\* The snapshots whose line is complete in s.
Whole(s) == {s[i].n : i \in Newlines(s)}

\* What it is to be one of them.
LEMMA InWhole ==
  ASSUME NEW s \in Seq(Pieces)
  PROVE  \A n : n \in Whole(s) <=> \E i \in 1 .. Len(s) : s[i].part = "tail" /\ s[i].n = n
<1>1. DOMAIN s = 1 .. Len(s)
  OBVIOUS
<1> QED
  BY <1>1, Zenon DEF Whole, Newlines

\* A tail makes its line one of them.
LEMMA TailCounts ==
  ASSUME NEW s \in Seq(Pieces), NEW i \in 1 .. Len(s), s[i].part = "tail"
  PROVE  s[i].n \in Whole(s)
  BY InWhole

\* A piece is of a frame.
LEMMA Numbered ==
  ASSUME NEW s \in Seq(Pieces), NEW i \in 1 .. Len(s)
  PROVE  s[i].n \in Nat
<1>1. s[i] \in Pieces
  OBVIOUS
<1>2. \A p \in Pieces : p.n \in Nat
  BY DEF Pieces
<1> QED
  BY <1>1, <1>2

\* Behind a newline are the snapshots later than its own.
LEMMA CutIsWhole ==
  ASSUME NEW s \in Seq(Pieces), NEW m \in 1 .. Len(s), m % 2 = 0, Lines(s),
         NEW a \in Nat, NEW b \in Nat, Between(s, a, b),
         NEW t, Behind(t, s, m)
  PROVE  s[m].n \in Whole(s) /\ Whole(t) = {n \in Whole(s) : n > s[m].n}
<1>1. /\ Len(t) \in Nat /\ Len(t) = Len(s) - m
      /\ \A i \in 1 .. Len(t) : t[i] = s[m + i]
  BY DEF Behind
<1>2. \A i \in 1 .. Len(t) : t[i] = s[m + i] /\ m + i \in 1 .. Len(s) /\ m < m + i
  BY <1>1
<1>3. s[m].part = "tail"
  BY TwoParts DEF Lines
<1>4. \A i \in 1 .. Len(s) : s[i].n \in Nat
  BY Numbered
<1>5. \A i \in 1 .. Len(t) : s[m].n < t[i].n
  BY <1>2, <1>3 DEF Between
<1>6. t \in Seq(Pieces)
  BY DEF Behind
<1>7. ASSUME NEW n \in Whole(t)
      PROVE  n \in Whole(s) /\ n > s[m].n
  <2>1. PICK i \in 1 .. Len(t) : t[i].part = "tail" /\ t[i].n = n
    BY <1>6, <1>7, InWhole
  <2>2. m + i \in 1 .. Len(s) /\ s[m + i].part = "tail" /\ s[m + i].n = n
    BY <1>2, <2>1
  <2> QED
    BY <1>4, <1>5, <2>1, <2>2, InWhole
<1>8. ASSUME NEW n \in Whole(s), n > s[m].n
      PROVE  n \in Whole(t)
  <2>1. PICK i \in 1 .. Len(s) : s[i].part = "tail" /\ s[i].n = n
    BY <1>8, InWhole
  <2>2. i > m
    <3>1. CASE i < m
      <4>1. s[i].n < s[m].n
        BY <2>1, <3>1 DEF Between
      <4>2. s[i].n \in Nat /\ s[m].n \in Nat /\ s[i].n > s[m].n
        BY <1>4, <1>8, <2>1
      <4> QED
        BY <4>1, <4>2
    <3>2. CASE i = m
      <4>1. s[m].n \in Nat
        BY <1>4
      <4> QED
        BY <1>8, <2>1, <3>2, <4>1
    <3> QED
      BY <3>1, <3>2
  <2>3. i - m \in 1 .. Len(t) /\ m + (i - m) = i
    BY <1>1, <2>2
  <2> QED
    <3> DEFINE j == i - m
    <3>1. t[j] = s[i]
      BY <1>1, <2>3
    <3> HIDE DEF j
    <3>2. j \in 1 .. Len(t) /\ t[j].part = "tail" /\ t[j].n = n
      BY <2>1, <2>3, <3>1 DEF j
    <3> QED
      BY <1>6, <3>2, InWhole
<1>9. s[m].n \in Whole(s)
  BY <1>3, InWhole
<1> QED
  BY <1>7, <1>8, <1>9

\* A piece put behind a sequence.
LEMMA AddPiece ==
  ASSUME NEW s \in Seq(Pieces), NEW p \in Pieces
  PROVE  LET t == s \o <<p>>
         IN  /\ t \in Seq(Pieces) /\ Len(t) = Len(s) + 1
             /\ t[Len(s) + 1] = p
             /\ \A i \in 1 .. Len(s) : t[i] = s[i]
  OBVIOUS

\* A line begun behind whole lines by a later frame.
LEMMA AddHead ==
  ASSUME NEW s \in Seq(Pieces), Lines(s), Len(s) % 2 = 0,
         NEW a \in Nat, NEW b \in Nat, a <= b, Between(s, a, b),
         b + 1 \in 1 .. MaxFrames,
         NEW t, t = s \o <<HeadOf(b + 1)>>
  PROVE  /\ t \in Seq(Pieces) /\ Len(t) % 2 = 1 /\ t[Len(t)].n = b + 1
         /\ Lines(t) /\ Between(t, a, b + 1) /\ Whole(t) = Whole(s)
<1> DEFINE p == HeadOf(b + 1)
<1>1. p \in Pieces /\ p.n = b + 1 /\ p.part = "head"
  BY DEF HeadOf, Pieces
<1> HIDE DEF p
<1>2. /\ t \in Seq(Pieces) /\ Len(t) = Len(s) + 1 /\ t[Len(s) + 1] = p
      /\ \A i \in 1 .. Len(s) : t[i] = s[i]
  BY <1>1, AddPiece DEF p
<1>3. Len(t) % 2 = 1 /\ t[Len(t)].n = b + 1
  BY <1>1, <1>2
<1>4. \A i \in 1 .. Len(t) : i \in 1 .. Len(s) \/ i = Len(t)
  BY <1>2
<1>5. Lines(t)
  <2>1. \A i \in 1 .. Len(s) : i % 2 = 0 => i - 1 \in 1 .. Len(s)
    <3>1. Len(s) \in Nat
      OBVIOUS
    <3> QED
      BY <3>1, BeforeEven
  <2> QED
    BY <1>1, <1>2, <1>3, <1>4, <2>1 DEF Lines
<1>6. Between(t, a, b + 1)
  <2>1. \A i \in 1 .. Len(s) : s[i].n \in Nat
    BY Numbered
  <2>2. \A i \in 1 .. Len(t) : a < t[i].n /\ t[i].n <= b + 1
    BY <1>1, <1>2, <1>4, <2>1 DEF Between
  <2>3. ASSUME NEW i \in 1 .. Len(t), NEW j \in 1 .. Len(t), i < j, t[i].part = "tail"
        PROVE  t[i].n < t[j].n
    <3>1. i \in 1 .. Len(s) /\ t[i] = s[i]
      <4>1. i # Len(t)
        BY <1>2, <2>3
      <4> QED
        BY <1>2, <1>4, <4>1
    <3>2. CASE j \in 1 .. Len(s)
      BY <1>2, <2>3, <3>1, <3>2 DEF Between
    <3>3. CASE j = Len(t)
      BY <1>3, <2>1, <3>1, <3>3 DEF Between
    <3> QED
      BY <1>4, <3>2, <3>3
  <2> QED
    BY <2>2, <2>3 DEF Between
<1>7. \A i \in 1 .. Len(t) : t[i].part = "tail" => i \in 1 .. Len(s)
  BY <1>1, <1>2, <1>4
<1>8. Whole(t) = Whole(s)
  <2>1. Len(s) < Len(t) /\ \A i \in 1 .. Len(s) : i \in 1 .. Len(t)
    BY <1>2
  <2>2. ASSUME NEW n \in Whole(t)
        PROVE  n \in Whole(s)
    <3>1. PICK i \in 1 .. Len(t) : t[i].part = "tail" /\ t[i].n = n
      BY <1>2, InWhole
    <3> QED
      <4>1. i \in 1 .. Len(s) /\ s[i] = t[i]
        BY <1>2, <1>7, <3>1
      <4> QED
        BY <3>1, <4>1, TailCounts
  <2>3. ASSUME NEW n \in Whole(s)
        PROVE  n \in Whole(t)
    <3>1. PICK i \in 1 .. Len(s) : s[i].part = "tail" /\ s[i].n = n
      BY InWhole
    <3> QED
      <4>1. i \in 1 .. Len(t) /\ s[i] = t[i]
        BY <1>2, <2>1, <3>1
      <4> QED
        BY <1>2, <3>1, <4>1, TailCounts
  <2> QED
    BY <2>2, <2>3
<1> QED
  BY <1>2, <1>3, <1>5, <1>6, <1>8

\* A begun line completed.
LEMMA AddTail ==
  ASSUME NEW s \in Seq(Pieces), Lines(s), Len(s) % 2 = 1,
         NEW a \in Nat, NEW b \in Nat, Between(s, a, b), s[Len(s)].n = b,
         b \in 1 .. MaxFrames,
         NEW t, t = s \o <<TailOf(b)>>
  PROVE  /\ t \in Seq(Pieces) /\ Len(t) % 2 = 0
         /\ Lines(t) /\ Between(t, a, b) /\ Whole(t) = Whole(s) \cup {b}
<1> DEFINE p == TailOf(b)
<1>1. p \in Pieces /\ p.n = b /\ p.part = "tail"
  BY DEF TailOf, Pieces
<1> HIDE DEF p
<1>2. /\ t \in Seq(Pieces) /\ Len(t) = Len(s) + 1 /\ t[Len(s) + 1] = p
      /\ \A i \in 1 .. Len(s) : t[i] = s[i]
  BY <1>1, AddPiece DEF p
<1>3. Len(t) % 2 = 0 /\ Len(s) >= 1 /\ Len(t) - 1 = Len(s)
  <2>1. Len(s) \in Nat /\ Len(t) = Len(s) + 1
    BY <1>2
  <2> QED
    BY <2>1, Parity
<1>4. \A i \in 1 .. Len(t) : i \in 1 .. Len(s) \/ i = Len(t)
  BY <1>2
<1>5. Lines(t)
  <2>1. \A i \in 1 .. Len(s) : i % 2 = 0 => i - 1 \in 1 .. Len(s)
    <3>1. Len(s) \in Nat
      OBVIOUS
    <3> QED
      BY <3>1, BeforeEven
  <2>2. t[Len(t)].part = "tail" /\ t[Len(t)].n = b /\ t[Len(t) - 1].n = b
    BY <1>1, <1>2, <1>3
  <2> QED
    BY <1>2, <1>3, <1>4, <2>1, <2>2 DEF Lines
<1>6. Between(t, a, b)
  <2>1. \A i \in 1 .. Len(s) : s[i].n \in Nat
    BY Numbered
  <2>2. Len(s) \in 1 .. Len(s) /\ s[Len(s)].part = "head"
    BY <1>3 DEF Lines
  <2>3. \A i \in 1 .. Len(t) : a < t[i].n /\ t[i].n <= b
    BY <1>1, <1>2, <1>3, <1>4, <2>2 DEF Between
  <2>4. ASSUME NEW i \in 1 .. Len(t), NEW j \in 1 .. Len(t), i < j, t[i].part = "tail"
        PROVE  t[i].n < t[j].n
    <3>1. i \in 1 .. Len(s) /\ t[i] = s[i]
      <4>1. i < Len(t) /\ j <= Len(t)
        BY <2>4
      <4> QED
        BY <1>2, <1>4, <4>1
    <3>2. CASE j \in 1 .. Len(s)
      BY <1>2, <2>4, <3>1, <3>2 DEF Between
    <3>3. CASE j = Len(t)
      <4>1. i # Len(s)
        BY <2>2, <2>4, <3>1
      <4>2. i < Len(s) /\ s[i].part = "tail"
        BY <2>4, <3>1, <4>1
      <4>3. s[i].n < s[Len(s)].n
        BY <2>2, <3>1, <4>2 DEF Between
      <4> QED
        BY <1>1, <1>2, <3>1, <3>3, <4>3
    <3> QED
      BY <1>4, <3>2, <3>3
  <2> QED
    BY <2>3, <2>4 DEF Between
<1>7. Whole(t) = Whole(s) \cup {b}
  <2>1. t[Len(t)].part = "tail" /\ t[Len(t)].n = b /\ Len(t) \in 1 .. Len(t)
    BY <1>1, <1>2
  <2>2. \A i \in 1 .. Len(s) : i \in 1 .. Len(t)
    BY <1>2
  <2>3. ASSUME NEW n \in Whole(t)
        PROVE  n \in Whole(s) \cup {b}
    <3>1. PICK i \in 1 .. Len(t) : t[i].part = "tail" /\ t[i].n = n
      BY <1>2, InWhole
    <3> QED
      BY <1>2, <1>4, <2>1, <3>1, InWhole
  <2>4. ASSUME NEW n \in Whole(s)
        PROVE  n \in Whole(t)
    <3>1. PICK i \in 1 .. Len(s) : s[i].part = "tail" /\ s[i].n = n
      BY InWhole
    <3> QED
      <4>1. i \in 1 .. Len(t) /\ s[i] = t[i]
        BY <1>2, <2>2, <3>1
      <4> QED
        BY <1>2, <3>1, <4>1, TailCounts
  <2>5. b \in Whole(t)
    BY <1>2, <2>1, InWhole
  <2> QED
    BY <2>3, <2>4, <2>5
<1> QED
  BY <1>2, <1>3, <1>5, <1>6, <1>7
-----------------------------------------------------------------------------
\* What the types say of the unread bytes.
LEMMA UnreadType ==
  ASSUME TypeOK
  PROVE  Unread \in Seq(Pieces) /\ Len(Unread) = Len(buf) + Len(stream)
  BY Together DEF TypeOK, Unread

\* Later frames keep a run in bounds.
LEMMA BetweenWidens ==
  ASSUME NEW s \in Seq(Pieces), NEW a \in Nat, NEW b \in Nat, NEW c \in Nat, b <= c,
         Between(s, a, b)
  PROVE  Between(s, a, c)
<1>1. \A i \in 1 .. Len(s) : s[i].n \in Nat
  BY Numbered
<1> QED
  BY <1>1 DEF Between

\* The abstract step of each kind.
ChannelStep == [Channel!Next]_(Channel!vars)

\* A complete line stays unread, or what is shown is at least as new.
Kept == \A n \in Complete : n \in Complete' \/ (latest' # Offline /\ latest' >= n)

\* A step that takes no complete line away keeps them.
LEMMA MoreIsKept ==
  ASSUME Complete \subseteq Complete'
  PROVE  Kept
  BY DEF Kept

\* The frame's number and the bounds are numbers.
LEMMA Numbers ==
  ASSUME TypeOK
  PROVE  frame \in Nat /\ shown \in Nat /\ spins \in Nat /\ MaxFrames \in Nat
         /\ Cap \in Nat /\ MaxSpins \in Nat /\ Offline \notin Nat
  BY BoundsAssumption, OfflineAssumption DEF TypeOK

\* A step that leaves the bytes and the snapshot alone changes only who is
\* connected to whom.
LEMMA BytesStay ==
  ASSUME Inv, UNCHANGED <<stream, buf, latest, shown>>,
         frame' = frame \/ (frame < MaxFrames /\ frame' = frame + 1),
         unsent' \in {<< >>, unsent}, spins' \in 0 .. MaxSpins,
         client' \in {"none", "live", "stale"}, sock' \in {"none", "open", "cut", "left"},
         SidesInv'
  PROVE  Inv' /\ ChannelStep /\ Kept
<1>1. frame \in Nat /\ shown \in Nat /\ MaxFrames \in Nat
  BY Numbers DEF Inv
<1>2. Unread' = Unread /\ Unread \in Seq(Pieces)
  BY UnreadType DEF Unread, Inv
<1>3. frame' \in 0 .. MaxFrames /\ frame <= frame' /\ frame' \in Nat
  BY <1>1 DEF Inv, TypeOK
<1>4. TypeOK'
  BY <1>3 DEF Inv, TypeOK, Newlines
<1>5. StreamInv'
  <2>1. Between(Unread, shown, frame')
    BY <1>1, <1>2, <1>3, BetweenWidens DEF Inv, StreamInv
  <2>2. Lines(Unread) /\ shown <= frame' /\ latest \in {Offline, shown}
    BY <1>1, <1>3 DEF Inv, StreamInv
  <2>3. Lines(Unread)' <=> Lines(Unread)
    BY <1>2 DEF Lines
  <2>4. Between(Unread, shown, frame)' <=> Between(Unread, shown, frame')
    BY <1>2 DEF Between
  <2> QED
    BY <2>1, <2>2, <2>3, <2>4 DEF StreamInv
<1>6. Complete' = Complete
  BY <1>2 DEF Complete, Newlines
<1>7. ChannelStep
  BY <1>6 DEF ChannelStep, Channel!Next, Channel!Draw, Channel!vars
<1> QED
  BY <1>4, <1>5, <1>6, <1>7, MoreIsKept DEF Inv

\* The steps that move no byte.
LEMMA QuietSteps ==
  ASSUME Inv,
         \/ FrameLeftOut \/ PushFails \/ Spin \/ AbandonLine \/ Accept \/ EndService
         \/ DllDies \/ Connect \/ Leave \/ UNCHANGED vars
  PROVE  Inv' /\ ChannelStep /\ Kept
<1> USE DEF Inv, SidesInv
<1>1. frame \in Nat /\ spins \in Nat /\ MaxSpins \in Nat
  BY Numbers
<1>2. Len(<<TailOf(frame)>>) = 1 /\ << >> # <<TailOf(frame)>>
  OBVIOUS
<1>3. Unread \in Seq(Pieces) /\ Len(<< >>) % 2 = 0
  BY UnreadType
<1>4. CASE FrameLeftOut
  <2>1. Unread' = Unread
    BY <1>4 DEF FrameLeftOut, Unread
  <2>2. SidesInv'
    BY <1>4, <2>1 DEF FrameLeftOut, NextFrame
  <2> QED
    BY <1>4, <2>2, BytesStay DEF FrameLeftOut, NextFrame, TypeOK
<1>5. CASE PushFails
  <2>1. Unread' = Unread
    BY <1>5 DEF PushFails, Unread
  <2>2. SidesInv'
    BY <1>5, <2>1 DEF PushFails, NextFrame, DropClient
  <2> QED
    BY <1>5, <2>2, BytesStay DEF PushFails, NextFrame, DropClient, TypeOK
<1>6. CASE Spin
  <2>1. Unread' = Unread
    BY <1>6 DEF Spin, Unread
  <2>2. SidesInv'
    BY <1>6, <2>1 DEF Spin
  <2>3. spins' \in 0 .. MaxSpins
    BY <1>1, <1>6 DEF Spin, CountSpin
  <2> QED
    BY <1>6, <2>2, <2>3, BytesStay DEF Spin, TypeOK
<1>7. CASE AbandonLine
  <2>1. Unread' = Unread
    BY <1>7 DEF AbandonLine, Unread
  <2>2. SidesInv'
    BY <1>7, <2>1 DEF AbandonLine, GiveUp, DropClient
  <2> QED
    BY <1>7, <2>2, BytesStay DEF AbandonLine, GiveUp, DropClient, TypeOK
<1>8. CASE Accept
  <2>1. Unread' = Unread
    BY <1>8 DEF Accept, Unread
  <2>2. Unread = << >>
    BY <1>8 DEF Accept
  <2>3. SidesInv'
    BY <1>3, <1>8, <2>1, <2>2 DEF Accept
  <2> QED
    BY <1>8, <2>3, BytesStay DEF Accept, TypeOK
<1>9. CASE EndService
  <2>1. Unread' = Unread
    BY <1>9 DEF EndService, Unread
  <2>2. SidesInv'
    BY <1>9, <2>1 DEF EndService, DropClient
  <2> QED
    BY <1>9, <2>2, BytesStay DEF EndService, DropClient, TypeOK
<1>10. CASE DllDies
  <2>1. Unread' = Unread
    BY <1>10 DEF DllDies, Unread
  <2>2. SidesInv'
    BY <1>10, <2>1 DEF DllDies
  <2> QED
    BY <1>10, <2>2, BytesStay DEF DllDies, TypeOK
<1>11. CASE Connect
  <2>1. Unread' = Unread
    BY <1>11 DEF Connect, Unread
  <2>2. SidesInv'
    BY <1>11, <2>1 DEF Connect
  <2> QED
    BY <1>11, <2>2, BytesStay DEF Connect, TypeOK
<1>12. CASE Leave
  <2>1. Unread' = Unread
    BY <1>12 DEF Leave, Unread
  <2>2. SidesInv'
    BY <1>12, <2>1 DEF Leave
  <2> QED
    BY <1>12, <2>2, BytesStay DEF Leave, TypeOK
<1>13. CASE UNCHANGED vars
  <2>1. Unread' = Unread
    BY <1>13 DEF vars, Unread
  <2>2. SidesInv'
    BY <1>13, <2>1 DEF vars
  <2> QED
    BY <1>13, <2>2, BytesStay DEF vars, TypeOK
<1> QED
  BY <1>4, <1>5, <1>6, <1>7, <1>8, <1>9, <1>10, <1>11, <1>12, <1>13
-----------------------------------------------------------------------------
\* What a line or a part of one, sent behind the unread bytes, makes of them.
LEMMA Sent ==
  ASSUME TypeOK, NEW p \in Pieces
  PROVE  buf \o (stream \o <<p>>) = Unread \o <<p>>
<1>1. <<p>> \in Seq(Pieces)
  OBVIOUS
<1> QED
  BY <1>1, ConcatAssociative DEF TypeOK, Unread

\* A step of the game thread that sends keeps all but the bytes' own part.
LEMMA SendKeeps ==
  ASSUME Inv, client = "live", UNCHANGED <<client, sock, buf, latest, shown>>,
         frame' \in 1 .. MaxFrames, frame <= frame',
         stream' \in Seq(Pieces), Len(stream') <= Cap, spins' \in 0 .. MaxSpins,
         unsent' \in {<< >>, <<TailOf(frame')>>},
         NEW u, Unread' = u, Lines(u), Between(u, shown, frame'),
         unsent' = << >> => Len(u) % 2 = 0,
         unsent' # << >> => Len(u) % 2 = 1 /\ u[Len(u)].n = frame'
  PROVE  Inv'
<1>1. frame \in Nat /\ shown \in Nat /\ MaxFrames \in Nat
  BY Numbers DEF Inv
<1>2. TypeOK'
  BY <1>1 DEF Inv, TypeOK, Newlines
<1>3. StreamInv'
  <2>1. Lines(Unread)' <=> Lines(u)
    BY DEF Lines
  <2>2. Between(Unread, shown, frame)' <=> Between(u, shown, frame')
    BY DEF Between
  <2>3. shown <= frame'
    BY <1>1 DEF Inv, StreamInv
  <2> QED
    BY <2>1, <2>2, <2>3 DEF Inv, StreamInv
<1>4. SidesInv'
  BY <1>1 DEF Inv, SidesInv
<1> QED
  BY <1>2, <1>3, <1>4 DEF Inv

\* The complete lines are those of the unread bytes.
LEMMA CompleteIsWhole == Complete = Whole(Unread) /\ Complete' = Whole(Unread')
  BY DEF Complete, Whole, Newlines

\* A line sent, as a whole or in two parts.
LEMMA SendSteps ==
  ASSUME Inv, PushWhole \/ PushPart \/ FinishLine
  PROVE  Inv' /\ ChannelStep /\ Kept
<1>1. frame \in Nat /\ shown \in Nat /\ spins \in Nat /\ MaxFrames \in Nat /\ Cap \in Nat
      /\ MaxSpins \in Nat
  BY Numbers DEF Inv
<1>2. /\ Unread \in Seq(Pieces) /\ Lines(Unread) /\ Between(Unread, shown, frame)
      /\ shown <= frame /\ stream \in Seq(Pieces) /\ buf \in Seq(Pieces)
  BY UnreadType DEF Inv, StreamInv, TypeOK
<1> DEFINE h == HeadOf(frame + 1)
           t == TailOf(frame + 1)
           uh == Unread \o <<h>>
<1>3. CASE PushWhole
  <2>1. frame' = frame + 1 /\ frame' \in 1 .. MaxFrames /\ client = "live" /\ unsent = << >>
        /\ stream' = stream \o <<h, t>> /\ Len(stream) + 2 <= Cap
    BY <1>1, <1>3 DEF PushWhole, NextFrame, StateLine
  <2>2. h \in Pieces /\ t \in Pieces
    BY <1>1, <2>1 DEF HeadOf, TailOf, Pieces
  <2>3. Len(Unread) % 2 = 0
    BY <2>1 DEF Inv, SidesInv
  <2> HIDE DEF h, t
  <2>4. /\ uh \in Seq(Pieces) /\ Len(uh) % 2 = 1 /\ uh[Len(uh)].n = frame + 1
        /\ Lines(uh) /\ Between(uh, shown, frame + 1) /\ Whole(uh) = Whole(Unread)
    <3>1. frame + 1 \in 1 .. MaxFrames /\ shown \in Nat /\ frame \in Nat /\ shown <= frame
      BY <1>1, <1>2, <2>1
    <3>2. uh = Unread \o <<HeadOf(frame + 1)>>
      BY DEF h
    <3>3. Unread \in Seq(Pieces) /\ Lines(Unread) /\ Between(Unread, shown, frame)
      BY <1>2
    <3> HIDE DEF uh
    <3> QED
      BY <2>3, <3>1, <3>2, <3>3, AddHead, ZenonT(40)
  <2> DEFINE u == uh \o <<t>>
  <2>5. Unread' = u
    <3>1. stream' = (stream \o <<h>>) \o <<t>> /\ stream \o <<h>> \in Seq(Pieces)
      <4>1. <<h>> \in Seq(Pieces) /\ <<t>> \in Seq(Pieces)
        BY <2>2
      <4>2. <<h, t>> = <<h>> \o <<t>>
        <5> DEFINE w == <<h>> \o <<t>>
        <5>1. w \in Seq(Pieces) /\ Len(w) = 2 /\ w[1] = h /\ w[2] = t
          BY <4>1, Together
        <5> HIDE DEF w
        <5>2. w = <<w[1], w[2]>>
          BY <5>1
        <5> QED
          BY <5>1, <5>2 DEF w
      <4> QED
        BY <1>2, <2>1, <4>1, <4>2, ConcatAssociative
    <3>2. buf \o ((stream \o <<h>>) \o <<t>>) = (buf \o (stream \o <<h>>)) \o <<t>>
      <4>1. <<t>> \in Seq(Pieces)
        BY <2>2
      <4> QED
        BY <1>2, <3>1, <4>1, ConcatAssociative
    <3>3. buf \o (stream \o <<h>>) = uh
      BY <2>2, Sent DEF Inv
    <3>4. buf' = buf
      BY <1>3 DEF PushWhole
    <3> QED
      BY <3>1, <3>2, <3>3, <3>4 DEF Unread
  <2> HIDE DEF uh
  <2>6. /\ u \in Seq(Pieces) /\ Len(u) % 2 = 0
        /\ Lines(u) /\ Between(u, shown, frame + 1) /\ Whole(u) = Whole(uh) \cup {frame + 1}
    <3>1. frame + 1 \in Nat /\ frame + 1 \in 1 .. MaxFrames
      BY <1>1, <2>1
    <3>2. u = uh \o <<TailOf(frame + 1)>>
      BY DEF t
    <3>3. uh[Len(uh)].n = frame + 1 /\ Len(uh) % 2 = 1 /\ uh \in Seq(Pieces) /\ Lines(uh)
      BY <2>4
    <3>4. Between(uh, shown, frame + 1) /\ shown \in Nat
      BY <1>1, <2>4
    <3> HIDE DEF u
    <3> QED
      BY <3>1, <3>2, <3>3, <3>4, AddTail, ZenonT(40)
  <2> HIDE DEF u
  <2>7. stream' \in Seq(Pieces) /\ Len(stream') <= Cap
    BY <1>1, <1>2, <2>1, <2>2
  <2>8. UNCHANGED <<unsent, spins, client, sock, buf, latest, shown>>
    BY <1>3 DEF PushWhole
  <2>9. Inv'
    BY <1>1, <2>1, <2>5, <2>6, <2>7, <2>8, SendKeeps DEF Inv, TypeOK
  <2>10. Complete' = Complete \cup {frame + 1}
    BY <2>4, <2>5, <2>6, CompleteIsWhole
  <2> QED
    BY <1>1, <2>1, <2>8, <2>9, <2>10, MoreIsKept
       DEF ChannelStep, Channel!Next, Channel!Draw
<1>4. CASE PushPart
  <2>1. frame' = frame + 1 /\ frame' \in 1 .. MaxFrames /\ client = "live" /\ unsent = << >>
        /\ stream' = stream \o <<h>> /\ Len(stream) + 1 <= Cap
        /\ unsent' = <<TailOf(frame')>> /\ spins' = 0
    BY <1>1, <1>2, <1>4, AppendIsConcat DEF PushPart, NextFrame, HeadOf, Pieces
  <2>2. h \in Pieces
    BY <1>1, <2>1 DEF HeadOf, Pieces
  <2>3. Len(Unread) % 2 = 0
    BY <2>1 DEF Inv, SidesInv
  <2> HIDE DEF h, t
  <2>4. /\ uh \in Seq(Pieces) /\ Len(uh) % 2 = 1 /\ uh[Len(uh)].n = frame + 1
        /\ Lines(uh) /\ Between(uh, shown, frame + 1) /\ Whole(uh) = Whole(Unread)
    <3>1. frame + 1 \in 1 .. MaxFrames /\ shown \in Nat /\ frame \in Nat /\ shown <= frame
      BY <1>1, <1>2, <2>1
    <3>2. uh = Unread \o <<HeadOf(frame + 1)>>
      BY DEF h
    <3>3. Unread \in Seq(Pieces) /\ Lines(Unread) /\ Between(Unread, shown, frame)
      BY <1>2
    <3> HIDE DEF uh
    <3> QED
      BY <2>3, <3>1, <3>2, <3>3, AddHead, ZenonT(40)
  <2>5. UNCHANGED <<client, sock, buf, latest, shown>>
    BY <1>4 DEF PushPart
  <2>6. Unread' = uh
    BY <2>1, <2>2, <2>5, Sent DEF Inv, Unread
  <2> HIDE DEF uh
  <2>7. stream' \in Seq(Pieces) /\ Len(stream') <= Cap
    BY <1>1, <1>2, <2>1, <2>2
  <2>8. unsent' # << >>
    BY <2>1
  <2>9. Inv'
    BY <1>1, <2>1, <2>4, <2>5, <2>6, <2>7, <2>8, SendKeeps
  <2>10. Complete' = Complete
    BY <2>4, <2>6, CompleteIsWhole
  <2> QED
    BY <1>1, <2>1, <2>5, <2>9, <2>10, MoreIsKept
       DEF ChannelStep, Channel!Next, Channel!Draw
<1>5. CASE FinishLine
  <2>1. unsent = <<TailOf(frame)>> /\ unsent' = << >>
    BY <1>5 DEF FinishLine, Inv, SidesInv
  <2>2. UNCHANGED <<frame, spins, client, sock, buf, latest, shown>>
    BY <1>5 DEF FinishLine
  <2>3. CASE client = "live"
    <3> DEFINE u == Unread \o <<TailOf(frame)>>
    <3>1. stream' = stream \o <<TailOf(frame)>> /\ Len(stream) < Cap
      BY <1>5, <2>1, <2>3 DEF FinishLine
    <3>2. Len(Unread) % 2 = 1 /\ Unread[Len(Unread)].n = frame /\ frame \in 1 .. MaxFrames
      BY <1>1, <2>1, <2>3 DEF Inv, SidesInv, TypeOK
    <3>3. TailOf(frame) \in Pieces
      BY <3>2 DEF TailOf, Pieces
    <3>4. /\ u \in Seq(Pieces) /\ Len(u) % 2 = 0
          /\ Lines(u) /\ Between(u, shown, frame) /\ Whole(u) = Whole(Unread) \cup {frame}
      <4>1. u = Unread \o <<TailOf(frame)>>
        OBVIOUS
      <4>2. Unread \in Seq(Pieces) /\ Lines(Unread) /\ Between(Unread, shown, frame)
        BY <1>2
      <4>3. shown \in Nat /\ frame \in Nat
        BY <1>1
      <4> HIDE DEF u
      <4> QED
        BY <3>2, <4>1, <4>2, <4>3, AddTail, ZenonT(40)
    <3>5. Unread' = u
      BY <2>2, <3>1, <3>3, Sent DEF Inv, Unread
    <3> HIDE DEF u
    <3>6. stream' \in Seq(Pieces) /\ Len(stream') <= Cap
      BY <1>1, <1>2, <3>1, <3>3
    <3>7. Inv'
      BY <1>1, <2>1, <2>2, <2>3, <3>2, <3>4, <3>5, <3>6, SendKeeps DEF Inv, TypeOK
    <3>8. Complete' = Complete \cup {frame}
      BY <3>4, <3>5, CompleteIsWhole
    <3>9. frame > shown
      <4>1. Len(Unread) \in 1 .. Len(Unread)
        BY <1>2, <3>2
      <4> QED
        BY <1>2, <3>2, <4>1 DEF Between
    <3> QED
      BY <2>2, <3>7, <3>8, <3>9, MoreIsKept
         DEF ChannelStep, Channel!Next, Channel!Finish
  <2>4. CASE client = "stale"
    <3>1. UNCHANGED stream
      BY <1>5, <2>4 DEF FinishLine
    <3>2. Unread' = Unread
      BY <2>2, <3>1 DEF Unread
    <3>3. SidesInv'
      BY <2>1, <2>2, <2>4, <3>2 DEF Inv, SidesInv
    <3> QED
      BY <2>1, <2>2, <3>1, <3>3, BytesStay DEF Inv, TypeOK
  <2> QED
    BY <1>5, <2>3, <2>4 DEF FinishLine
<1> QED
  BY <1>3, <1>4, <1>5
-----------------------------------------------------------------------------
\* The end of the bytes, lost with the connection.
LEMMA LoseTailStep ==
  ASSUME Inv, LoseTail
  PROVE  Inv' /\ ChannelStep
<1>1. frame \in Nat /\ shown \in Nat /\ Cap \in Nat
  BY Numbers DEF Inv
<1>2. /\ Unread \in Seq(Pieces) /\ Len(Unread) = Len(buf) + Len(stream)
      /\ Lines(Unread) /\ Between(Unread, shown, frame)
      /\ stream \in Seq(Pieces) /\ buf \in Seq(Pieces) /\ Len(stream) <= Cap
  BY UnreadType DEF Inv, StreamInv, TypeOK
<1>3. UNCHANGED <<frame, unsent, spins, client, sock, buf, latest, shown>>
      /\ sock = "cut" /\ Len(stream) >= 1
  BY <1>2 DEF LoseTail
<1>4. /\ stream' \in Seq(Pieces) /\ Len(stream') = Len(stream) - 1
      /\ \A i \in 1 .. Len(stream') : stream'[i] = stream[i]
  <2> DEFINE j == Len(stream) - 1
  <2>1. stream' = SubSeq(stream, 1, j) /\ j \in 0 .. Len(stream) /\ 1 <= j + 1
        /\ 1 \in 1 .. Len(stream) + 1 /\ j \in Nat
    BY <1>2, <1>3 DEF LoseTail
  <2> HIDE DEF j
  <2>2. stream' \in Seq(Pieces) /\ Len(stream') = (j + 1) - 1
        /\ \A i \in 1 .. (j + 1) - 1 : stream'[i] = stream[(1 + i) - 1]
    BY <1>2, <2>1, Part
  <2>3. (j + 1) - 1 = j /\ \A i \in 1 .. j : (1 + i) - 1 = i
    BY <2>1
  <2> QED
    BY <2>2, <2>3 DEF j
<1> DEFINE u == Unread'
<1>5. /\ u \in Seq(Pieces) /\ Len(u) = Len(Unread) - 1
      /\ \A i \in 1 .. Len(u) : u[i] = Unread[i]
  <2>1. u = buf \o stream'
    BY <1>3 DEF Unread
  <2>2. /\ u \in Seq(Pieces) /\ Len(u) = Len(buf) + Len(stream')
        /\ \A i \in 1 .. Len(buf) : u[i] = buf[i]
        /\ \A i \in 1 .. Len(stream') : u[Len(buf) + i] = stream'[i]
    BY <1>2, <1>4, <2>1, Together
  <2>3. /\ \A i \in 1 .. Len(buf) : Unread[i] = buf[i]
        /\ \A i \in 1 .. Len(stream) : Unread[Len(buf) + i] = stream[i]
    BY <1>2, Together DEF Unread
  <2> HIDE DEF u
  <2>4. ASSUME NEW i \in 1 .. Len(u)
        PROVE  u[i] = Unread[i]
    <3>1. CASE i <= Len(buf)
      BY <2>2, <2>3, <3>1
    <3>2. CASE i > Len(buf)
      <4>1. i - Len(buf) \in 1 .. Len(stream') /\ i - Len(buf) \in 1 .. Len(stream)
            /\ Len(buf) + (i - Len(buf)) = i
        <5>1. /\ Len(buf) \in Nat /\ Len(stream') \in Nat /\ Len(stream) \in Nat
              /\ Len(stream') <= Len(stream)
          BY <1>2, <1>4
        <5>2. i \in 1 .. Len(buf) + Len(stream')
          BY <2>2
        <5> QED
          BY <3>2, <5>1, <5>2
      <4> QED
        <5>1. u[i] = stream'[i - Len(buf)]
          BY <2>2, <4>1
        <5>2. Unread[i] = stream[i - Len(buf)]
          BY <2>3, <4>1
        <5> QED
          BY <1>4, <4>1, <5>1, <5>2
    <3> QED
      BY <1>2, <3>1, <3>2
  <2> QED
    BY <1>2, <1>4, <2>2, <2>4
<1> HIDE DEF u
<1>6. \A i \in 1 .. Len(u) : i \in 1 .. Len(Unread) /\ u[i] = Unread[i]
  BY <1>2, <1>5
<1>7. Lines(u)
  <2>1. Len(u) <= Len(Unread)
    BY <1>2, <1>5
  <2> QED
    BY <1>2, <1>5, <2>1, PrefixIsLines
<1>8. Between(u, shown, frame)
  BY <1>2, <1>6 DEF Between
<1>9. Whole(u) \subseteq Whole(Unread)
  <2> SUFFICES ASSUME NEW n \in Whole(u)
               PROVE  n \in Whole(Unread)
    OBVIOUS
  <2>1. PICK i \in 1 .. Len(u) : u[i].part = "tail" /\ u[i].n = n
    BY <1>5, InWhole
  <2>2. i \in 1 .. Len(Unread) /\ Unread[i].part = "tail" /\ Unread[i].n = n
    BY <1>6, <2>1
  <2> QED
    BY <1>2, <2>2, TailCounts
<1>10. StreamInv'
  <2>1. Lines(Unread)' <=> Lines(u)
    BY DEF Lines, u
  <2>2. Between(Unread, shown, frame)' <=> Between(u, shown, frame)
    BY <1>3 DEF Between, u
  <2> QED
    BY <1>3, <1>7, <1>8, <2>1, <2>2 DEF Inv, StreamInv
<1>11. TypeOK'
  BY <1>1, <1>2, <1>3, <1>4 DEF Inv, TypeOK, Newlines
<1>12. SidesInv'
  BY <1>3 DEF Inv, SidesInv
<1>13. Complete' \subseteq Complete
  BY <1>9, CompleteIsWhole DEF u
<1> QED
  BY <1>3, <1>10, <1>11, <1>12, <1>13 DEF Inv, ChannelStep, Channel!Next, Channel!Lose

\* The reader takes a part of the bytes, and the last line they complete.
LEMMA ReceiveStep ==
  ASSUME Inv, NEW k \in 1 .. Len(stream), Receive(k)
  PROVE  Inv' /\ ChannelStep /\ Kept
<1>1. frame \in Nat /\ shown \in Nat /\ Cap \in Nat /\ MaxFrames \in Nat
  BY Numbers DEF Inv
<1>2. /\ Unread \in Seq(Pieces) /\ Len(Unread) = Len(buf) + Len(stream)
      /\ Lines(Unread) /\ Between(Unread, shown, frame) /\ shown <= frame
      /\ stream \in Seq(Pieces) /\ buf \in Seq(Pieces) /\ Len(stream) <= Cap
      /\ frame <= MaxFrames
  BY UnreadType DEF Inv, StreamInv, TypeOK
<1> DEFINE input == buf \o SubSeq(stream, 1, k)
           l == LastNewline(input)
           line == LastLine(input)
           u == Unread'
<1>3. /\ sock \in {"open", "cut"}
      /\ stream' = SubSeq(stream, k + 1, Len(stream))
      /\ buf' = Rest(input)
      /\ UNCHANGED <<frame, unsent, spins, client, sock>>
  BY DEF Receive
<1>4. /\ l \in 0 .. Len(Unread) /\ l % 2 = 0
      /\ Newlines(input) = {} <=> l = 0
      /\ Behind(Rest(input) \o SubSeq(stream, k + 1, Len(stream)), Unread, l)
      /\ l > 0 => line = StateLine(Unread[l].n)
      /\ Rest(input) \in Seq(Pieces) /\ Newlines(Rest(input)) = {}
  BY <1>2, Received DEF Unread
<1>5. \/ Newlines(input) # {} /\ Wellformed(line) /\ latest' = line[1].n /\ shown' = line[1].n
      \/ (Newlines(input) = {} \/ ~Wellformed(line)) /\ UNCHANGED <<latest, shown>>
  BY DEF Receive
<1> HIDE DEF input, l, line
<1>6. Behind(u, Unread, l) /\ u \in Seq(Pieces) /\ Len(u) = Len(Unread) - l
  BY <1>3, <1>4 DEF Unread, Behind
<1> HIDE DEF u
<1>7. Lines(u)
  BY <1>2, <1>4, <1>6, CutIsLines
<1>8. stream' \in Seq(Pieces) /\ Len(stream') <= Cap
  <2>1. Len(stream) \in Nat
    BY <1>2
  <2>2. stream' \in Seq(Pieces) /\ Len(stream') = Len(stream) - k
    BY <1>2, <1>3, Part
  <2> QED
    BY <1>1, <1>2, <2>1, <2>2
<1>9. SidesInv'
  <2>1. ASSUME client = "live", unsent = << >>
        PROVE  Len(u) % 2 = 0
    <3>1. Len(Unread) % 2 = 0
      BY <2>1 DEF Inv, SidesInv
    <3>2. l \in Nat /\ Len(u) \in Nat /\ Len(Unread) = l + Len(u)
      BY <1>2, <1>4, <1>6
    <3> QED
      BY <1>4, <3>1, <3>2, EvenShift
  <2>2. ASSUME client = "live", unsent # << >>
        PROVE  Len(u) % 2 = 1 /\ u[Len(u)].n = frame /\ frame > 0
    <3>1. Len(Unread) % 2 = 1 /\ Unread[Len(Unread)].n = frame /\ frame > 0
      BY <2>2 DEF Inv, SidesInv
    <3>2. l \in Nat /\ Len(u) \in Nat /\ Len(Unread) = l + Len(u)
      BY <1>2, <1>4, <1>6
    <3>3. Len(u) % 2 = 1
      BY <1>4, <3>1, <3>2, EvenShift
    <3>4. Len(u) \in 1 .. Len(u)
      BY <3>2, <3>3
    <3>5. u[Len(u)] = Unread[l + Len(u)]
      BY <1>6, <3>4 DEF Behind
    <3> QED
      BY <3>1, <3>2, <3>3, <3>5
  <2>3. (client # "live" /\ sock = "open") => u = << >>
    <3>1. ASSUME client # "live", sock = "open"
          PROVE  FALSE
      <4>1. Len(Unread) = 0
        BY <3>1 DEF Inv, SidesInv
      <4>2. Len(stream) >= 1 /\ Len(buf) >= 0
        BY <1>2
      <4> QED
        BY <1>2, <4>1, <4>2
    <3> QED
      BY <3>1
  <2> QED
    BY <1>3, <2>1, <2>2, <2>3 DEF Inv, SidesInv, u
<1>10. CASE l = 0
  <2>1. UNCHANGED <<latest, shown>>
    BY <1>4, <1>5, <1>10
  <2>2. u = Unread
    BY <1>2, <1>6, <1>10 DEF Behind
  <2>3. StreamInv'
    <3>1. Unread' = Unread
      BY <2>2 DEF u
    <3>2. Lines(Unread)' <=> Lines(Unread)
      BY <3>1 DEF Lines
    <3>3. Between(Unread, shown, frame)' <=> Between(Unread, shown, frame)
      BY <1>3, <2>1, <3>1 DEF Between
    <3> QED
      BY <1>3, <2>1, <3>2, <3>3 DEF Inv, StreamInv
  <2>4. TypeOK'
    <3>1. Newlines(buf)' = {}
      BY <1>3, <1>4 DEF Newlines
    <3> QED
      BY <1>3, <1>4, <1>8, <2>1, <3>1 DEF Inv, TypeOK
  <2>5. Complete' = Complete
    BY <2>2, CompleteIsWhole DEF u
  <2> QED
    BY <1>3, <1>9, <2>1, <2>3, <2>4, <2>5, MoreIsKept DEF Inv, ChannelStep, Channel!vars
<1>11. CASE l > 0
  <2> DEFINE n == Unread[l].n
  <2>1. l \in 1 .. Len(Unread)
    BY <1>4, <1>11
  <2>2. n \in Nat /\ shown < n /\ n <= frame /\ n \in 1 .. MaxFrames
    <3>1. n \in Nat
      BY <1>2, <2>1, Numbered
    <3>2. shown < n /\ n <= frame
      BY <1>2, <2>1 DEF Between
    <3>3. frame <= MaxFrames /\ MaxFrames \in Nat
      BY BoundsAssumption DEF Inv, TypeOK
    <3> QED
      BY <1>1, <3>1, <3>2, <3>3
  <2>3. line = StateLine(n) /\ Wellformed(line) /\ line[1].n = n
    BY <1>4, <1>11, <2>2 DEF Wellformed, StateLine, HeadOf
  <2> HIDE DEF n
  <2>4. latest' = n /\ shown' = n
    BY <1>4, <1>5, <1>11, <2>3
  <2>5. Between(u, n, frame)
    BY <1>1, <1>2, <1>4, <1>6, <2>1, CutIsBetween DEF n
  <2>6. n \in Whole(Unread) /\ Whole(u) = {m \in Whole(Unread) : m > n}
    BY <1>1, <1>2, <1>4, <1>6, <2>1, CutIsWhole DEF n
  <2>7. StreamInv'
    <3>1. Lines(Unread)' <=> Lines(u)
      BY DEF Lines, u
    <3>2. Between(Unread, shown, frame)' <=> Between(u, n, frame)
      BY <1>3, <2>4 DEF Between, u
    <3> QED
      BY <1>3, <1>7, <2>2, <2>4, <2>5, <3>1, <3>2 DEF StreamInv
  <2>8. TypeOK'
    <3>1. Newlines(buf)' = {}
      BY <1>3, <1>4 DEF Newlines
    <3>2. n \in 0 .. MaxFrames
      BY <2>2
    <3> QED
      BY <1>3, <1>4, <1>8, <2>2, <2>4, <3>1, <3>2 DEF Inv, TypeOK
  <2>9. n \in Complete /\ Complete' = {m \in Complete : m > n}
    BY <2>6, CompleteIsWhole DEF u
  <2>10. Kept
    <3>1. \A m \in Complete : m \in Nat
      BY <1>2, Numbered, CompleteIsWhole, InWhole
    <3>2. n # Offline
      BY <2>2, OfflineAssumption
    <3> QED
      BY <2>2, <2>4, <2>9, <3>1, <3>2 DEF Kept
  <2> QED
    BY <1>3, <1>9, <2>4, <2>7, <2>8, <2>9, <2>10 DEF Inv, ChannelStep, Channel!Next, Channel!Show
<1> QED
  BY <1>4, <1>10, <1>11

\* The reader gives the connection up, and the snapshot with it.
LEMMA GoOfflineStep ==
  ASSUME Inv, GoOffline
  PROVE  Inv' /\ ChannelStep
<1>1. frame \in Nat /\ shown \in Nat /\ Cap \in Nat
  BY Numbers DEF Inv
<1>2. Unread' = << >> /\ stream' = << >> /\ buf' = << >> /\ << >> \in Seq(Pieces)
      /\ Len(<< >>) = 0
  BY DEF GoOffline, Unread
<1>3. TypeOK'
  BY <1>1, <1>2 DEF Inv, TypeOK, Newlines, GoOffline
<1>4. StreamInv'
  BY <1>1, <1>2 DEF Inv, StreamInv, Lines, Between, GoOffline
<1>5. SidesInv'
  BY <1>2 DEF Inv, SidesInv, GoOffline
<1>6. Complete' = {}
  BY <1>2, CompleteIsWhole DEF Whole, Newlines
<1> QED
  BY <1>3, <1>4, <1>5, <1>6 DEF Inv, GoOffline, ChannelStep, Channel!Next, Channel!Lose

-----------------------------------------------------------------------------
\* Nothing is connected at the start, and nothing sent.
LEMMA InitInv == Init => Inv /\ Channel!Init
<1> SUFFICES ASSUME Init
             PROVE  Inv /\ Channel!Init
  OBVIOUS
<1>1. Unread = << >> /\ << >> \in Seq(Pieces) /\ Len(<< >>) = 0
  BY DEF Init, Unread
<1>2. Complete = {}
  BY <1>1 DEF Complete, Newlines
<1> QED
  BY <1>1, <1>2, BoundsAssumption
     DEF Init, Inv, TypeOK, StreamInv, SidesInv, Lines, Between, Newlines, Channel!Init

\* Every step keeps the invariant, and is a step of the channel or of none.
LEMMA NextInv == Inv /\ [Next]_vars => Inv' /\ ChannelStep
<1> SUFFICES ASSUME Inv, [Next]_vars
             PROVE  Inv' /\ ChannelStep
  OBVIOUS
<1> QED
  BY QuietSteps, SendSteps, LoseTailStep, ReceiveStep, GoOfflineStep DEF Next, Reader

\* The invariant holds throughout.
LEMMA Invariance == Spec => []Inv
<1>1. Inv /\ [Next]_vars => Inv'
  BY NextInv
<1> QED
  BY <1>1, InitInv, PTL DEF Spec

(* Types, for every value of the constants.                                  *)
THEOREM TypeCorrect == Spec => []TypeOK
<1>1. Inv => TypeOK
  BY DEF Inv
<1> QED
  BY <1>1, Invariance, PTL

(* However the bytes are cut on their way, the reader never has two halves   *)
(* of different snapshots next to each other, nor a tail without its head.   *)
THEOREM LinesAreWhole == Spec => []NoTornLine
<1>1. Inv => NoTornLine
  <2> SUFFICES ASSUME Inv, NEW i \in DOMAIN Unread
               PROVE  /\ Unread[i].part = "tail" => i > 1 /\ Unread[i - 1] = HeadOf(Unread[i].n)
                      /\ Unread[i].part = "head" /\ i < Len(Unread)
                           => Unread[i + 1] = TailOf(Unread[i].n)
    BY DEF NoTornLine
  <2>1. Unread \in Seq(Pieces) /\ Lines(Unread) /\ i \in 1 .. Len(Unread)
    BY UnreadType DEF Inv, StreamInv
  <2>2. \A p \in Pieces : p = [n |-> p.n, part |-> p.part]
    BY DEF Pieces
  <2>3. ASSUME Unread[i].part = "tail"
        PROVE  i > 1 /\ Unread[i - 1] = HeadOf(Unread[i].n)
    <3>1. i % 2 = 0
      BY <2>1, <2>3 DEF Lines
    <3>2. i - 1 \in 1 .. Len(Unread) /\ (i - 1) % 2 = 1
      BY <2>1, <3>1
    <3>3. Unread[i - 1].part = "head" /\ Unread[i - 1].n = Unread[i].n
      BY <2>1, <3>1, <3>2 DEF Lines
    <3> QED
      BY <2>1, <2>2, <3>2, <3>3, TwoParts DEF HeadOf
  <2>4. ASSUME Unread[i].part = "head", i < Len(Unread)
        PROVE  Unread[i + 1] = TailOf(Unread[i].n)
    <3>1. i % 2 = 1
      BY <2>1, <2>4 DEF Lines
    <3>2. i + 1 \in 1 .. Len(Unread) /\ (i + 1) % 2 = 0 /\ (i + 1) - 1 = i
      BY <2>1, <2>4, <3>1
    <3>3. Unread[i + 1].part = "tail" /\ Unread[i].n = Unread[i + 1].n
      BY <2>1, <3>2, TwoParts DEF Lines
    <3> QED
      BY <2>1, <2>2, <3>2, <3>3, TwoParts DEF TailOf
  <2> QED
    BY <2>3, <2>4
<1> QED
  BY <1>1, Invariance, PTL

(* The push stream implements the channel: what latest_state() shows is      *)
(* never invented, never repeated and never goes back.                       *)
THEOREM StreamImplementsChannel == Spec => ImplementsChannel
<1>1. Inv /\ [Next]_vars => [Channel!Next]_(Channel!vars)
  BY NextInv DEF ChannelStep
<1>2. Init => Channel!Init
  BY InitInv
<1> QED
  BY <1>1, <1>2, Invariance, PTL DEF Spec, ImplementsChannel, Channel!Spec

(* So a reader of latest_state() sees the snapshots of ever later frames,    *)
(* over any number of lost connections and restarts of WA.                   *)
THEOREM NewestOnly == Spec => Channel!NeverGoesBack
<1>1. Inv /\ [Next]_vars
        => [latest' # latest /\ latest' # Offline => latest' > shown]_(Channel!vars)
  <2> SUFFICES ASSUME Inv, [Next]_vars, latest' # latest, latest' # Offline
               PROVE  latest' > shown
    OBVIOUS
  <2>1. ChannelStep
    BY NextInv
  <2>2. PICK n \in Complete : latest' = n
    BY <2>1 DEF ChannelStep, Channel!Next, Channel!Draw, Channel!Finish, Channel!Lose,
                Channel!Show, Channel!vars
  <2>3. /\ Unread \in Seq(Pieces) /\ Between(Unread, shown, frame) /\ shown \in Nat
        /\ n \in Whole(Unread)
    BY <2>2, UnreadType, Numbers, CompleteIsWhole DEF Inv, StreamInv
  <2>4. PICK i \in 1 .. Len(Unread) : Unread[i].n = n
    BY <2>3, InWhole
  <2>5. shown < n /\ n \in Nat
    BY <2>3, <2>4, Numbered DEF Between
  <2> QED
    BY <2>2, <2>3, <2>5
<1> QED
  BY <1>1, Invariance, PTL DEF Spec, Channel!NeverGoesBack

(* A snapshot sent whole is not lost on a connection that lasts: with every  *)
(* step of whatever thread it stays to be read, or the reader has parsed it  *)
(* or a later one.  Once all bytes are read no line is left unread, by       *)
(* TypeCorrect; that the reader reads them is the fairness of PushedIsShown. *)
NothingLostWhileOpen == [][sock = "open" /\ sock' = "open" => Kept]_vars

THEOREM NoSnapshotIsLost == Spec => NothingLostWhileOpen
<1>1. ASSUME Inv, Next
      PROVE  sock = "open" /\ sock' = "open" => Kept
  <2>1. CASE \/ FrameLeftOut \/ PushFails \/ Spin \/ AbandonLine \/ Accept \/ EndService
             \/ DllDies \/ Connect \/ Leave
    BY <1>1, <2>1, QuietSteps
  <2>2. CASE PushWhole \/ PushPart \/ FinishLine
    BY <1>1, <2>2, SendSteps
  <2>3. CASE Reader
    BY <1>1, <2>3, ReceiveStep DEF Reader
  <2>4. CASE LoseTail \/ GoOffline
    BY <2>4 DEF LoseTail, GoOffline
  <2> QED
    BY <1>1, <2>1, <2>2, <2>3, <2>4 DEF Next
<1>2. Inv /\ [Next]_vars => [sock = "open" /\ sock' = "open" => Kept]_vars
  BY <1>1
<1> QED
  BY <1>2, Invariance, PTL DEF Spec, NothingLostWhileOpen
(* The safety half of FrameNeverStalls: while a line is begun and not ended  *)
(* the spins never go back, they never pass MaxSpins (TypeCorrect), and each *)
(* step of pushState's loop ends the line or spends one of them, so that the *)
(* game thread takes no more than MaxSpins + 1 of them for one frame.        *)
SpinsAreSpent ==
  [][unsent # << >>
       => /\ unsent' = << >> \/ (unsent' = unsent /\ spins' >= spins)
          /\ PushOn => unsent' = << >> \/ spins' = spins + 1
          /\ frame' = frame]_vars

THEOREM FramesSpinOutOrEnd == Spec => SpinsAreSpent
<1>1. ASSUME Inv, Next, unsent # << >>
      PROVE  /\ unsent' = << >> \/ (unsent' = unsent /\ spins' >= spins)
             /\ PushOn => unsent' = << >> \/ spins' = spins + 1
             /\ frame' = frame
  <2>1. spins \in Nat
    BY <1>1, Numbers DEF Inv
  <2>2. PushOn => unsent' = << >> \/ spins' = spins + 1
    BY DEF PushOn, FinishLine, Spin, CountSpin, AbandonLine
  <2>3. CASE FrameLeftOut \/ PushWhole \/ PushPart \/ PushFails
    BY <1>1, <2>3 DEF FrameLeftOut, PushWhole, PushPart, PushFails, NextFrame
  <2>4. CASE FinishLine \/ Spin \/ AbandonLine
    BY <2>1, <2>2, <2>4 DEF FinishLine, Spin, CountSpin, AbandonLine
  <2>5. CASE Accept \/ EndService \/ DllDies \/ LoseTail
    BY <2>1, <2>2, <2>5 DEF Accept, EndService, DllDies, LoseTail
  <2>6. CASE Connect \/ Reader \/ Leave \/ GoOffline
    BY <2>1, <2>2, <2>6 DEF Connect, Reader, Receive, Leave, GoOffline
  <2> QED
    BY <1>1, <2>3, <2>4, <2>5, <2>6 DEF Next
<1>2. Inv /\ [Next]_vars
        => [unsent # << >>
              => /\ unsent' = << >> \/ (unsent' = unsent /\ spins' >= spins)
                 /\ PushOn => unsent' = << >> \/ spins' = spins + 1
                 /\ frame' = frame]_vars
  BY <1>1
<1> QED
  BY <1>2, Invariance, PTL DEF Spec, SpinsAreSpent
=============================================================================
