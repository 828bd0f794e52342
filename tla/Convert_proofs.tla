--------------------------- MODULE Convert_proofs ---------------------------
(***************************************************************************)
(* Proofs about conversions: what the readers answer is typed, valid and   *)
(* named whatever the file says, what goes into a pprof file comes out of  *)
(* it or not at all, and what goes into a folded file comes out with the   *)
(* same labels.                                                            *)
(***************************************************************************)
EXTENDS Convert, Selection_proofs, TLAPS

-----------------------------------------------------------------------------
(* Texts                                                                   *)

LEMMA ElementIs ==
    ASSUME NEW X, NEW s \in Seq(X), NEW i \in 1 .. Len(s)
    PROVE  s[i] \in X /\ s[i] \in ToSet(s)
BY DEF ToSet

LEMMA MemberIs ==
    ASSUME NEW X, NEW s \in Seq(X), NEW e \in ToSet(s) PROVE e \in X
BY DEF ToSet

LEMMA MarksAreTokens ==
    /\ Blank \in Tokens /\ NewLine \in Tokens /\ Semicolon \in Tokens /\ Colon \in Tokens
    /\ Open \in Tokens /\ Close \in Tokens
BY DEF Tokens, Blank, NewLine, Semicolon, Colon, Open, Close, Mark

LEMMA NumbersAreTokens ==
    /\ \A n \in Int : Dec(n) \in Tokens
    /\ \A n \in Nat : Hex(n) \in Tokens
BY DEF Tokens, Dec, Hex

LEMMA NoTextIsText == NoText \in Text /\ <<>> \in Text /\ NoText # <<>>
BY DEF NoText, Text, Tokens

\* What a number's token carries.
LEMMA NumberIs ==
    ASSUME NEW t \in Tokens
    PROVE  (t[1] = "dec" => t[2] \in Int) /\ (t[1] = "hex" => t[2] \in Nat)
<1>1. CASE t \in {"word"} \X ({"samples", "count"} \cup STRING)
  <2>1. t[1] = "word"
    BY <1>1
  <2>. QED  BY <2>1
<1>2. CASE t \in {"dec"} \X Int
  <2>1. t[1] = "dec" /\ t[2] \in Int
    BY <1>2
  <2>. QED  BY <2>1
<1>3. CASE t \in {"hex"} \X Nat
  <2>1. t[1] = "hex" /\ t[2] \in Nat
    BY <1>3
  <2>. QED  BY <2>1
<1>4. CASE t \in {"mark"} \X {" ", "\n", ";", ":", "(", ")", "#"}
  <2>1. t[1] = "mark"
    BY <1>4
  <2>. QED  BY <2>1
<1>5. CASE t = <<"none">>
  <2>1. t[1] = "none"
    BY <1>5
  <2>. QED  BY <2>1
<1>. QED  BY <1>1, <1>2, <1>3, <1>4, <1>5 DEF Tokens

LEMMA TrimIs == ASSUME NEW text \in Text PROVE Trim(text) \in Text
<1>. DEFINE kept == {i \in 1 .. Len(text) : text[i] # Blank}
            a == CHOOSE i \in kept : \A j \in kept : i <= j
            b == CHOOSE i \in kept : \A j \in kept : j <= i
<1>1. CASE kept = {}
  BY <1>1, NoTextIsText DEF Trim
<1>2. CASE kept # {}
  <2>1. Len(text) \in Nat /\ kept \subseteq Nat /\ kept \subseteq 0 .. Len(text)
    BY DEF Text
  <2>2. \E i \in kept : \A j \in kept : i <= j
    <3>. HIDE DEF kept
    <3>. QED  BY <1>2, <2>1, Least
  <2>3. \E i \in kept : \A j \in kept : j <= i
    <3>. HIDE DEF kept
    <3>. QED  BY <1>2, <2>1, Largest
  <2>4. a \in kept /\ b \in kept /\ a <= b
    <3>. HIDE DEF kept
    <3>. QED  BY <2>2, <2>3
  <2>5. Trim(text) = SubSeq(text, a, b)
    BY <1>2 DEF Trim
  <2>6. a \in 1 .. Len(text) /\ b \in 1 .. Len(text)
    <3>. HIDE DEF a, b
    <3>. QED  BY <2>4
  <2>. HIDE DEF a, b, kept
  <2>7. a \in Nat /\ b \in Nat /\ 1 <= a /\ a <= b + 1 /\ b <= Len(text)
    BY <2>1, <2>4, <2>6
  <2>8. SubSeq(text, a, b) \in Text
    BY <2>7, PartIs DEF Text
  <2>. QED  BY <2>5, <2>8
<1>. QED  BY <1>1, <1>2

\* What is after a position, and what is before one.
LEMMA EndsAreTexts ==
    ASSUME NEW text \in Text, NEW at \in 0 .. Len(text)
    PROVE  /\ SubSeq(text, at + 1, Len(text)) \in Text
           /\ at # 0 => SubSeq(text, 1, at - 1) \in Text
           /\ SubSeq(text, 1, at) \in Text
<1>1. Len(text) \in Nat /\ at \in Nat
  BY DEF Text
<1>2. SubSeq(text, at + 1, Len(text)) \in Text
  <2>1. at + 1 \in Nat /\ 1 <= at + 1 /\ at + 1 <= Len(text) + 1 /\ Len(text) <= Len(text)
    BY <1>1
  <2>. QED  BY <1>1, <2>1, PartIs DEF Text
<1>3. ASSUME at # 0 PROVE SubSeq(text, 1, at - 1) \in Text
  <2>1. at - 1 \in Nat /\ 1 <= (at - 1) + 1 /\ at - 1 <= Len(text)
    BY <1>1, <1>3
  <2>. QED  BY <1>1, <2>1, PartIs DEF Text
<1>4. SubSeq(text, 1, at) \in Text
  <2>1. 1 <= at + 1 /\ at <= Len(text)
    BY <1>1
  <2>. QED  BY <1>1, <2>1, PartIs DEF Text
<1>. QED  BY <1>2, <1>3, <1>4

\* The pieces of a text.
LEMMA SplitIs ==
    ASSUME NEW text \in Text, NEW mark
    PROVE  Split(text, mark) \in Seq(Text) /\ Len(Split(text, mark)) >= 1
<1>. DEFINE S == {i \in 1 .. Len(text) : text[i] = mark}
            marks == Chosen(Positions(text), S)
            cuts == <<0>> \o marks \o <<Len(text) + 1>>
            piece(k) == SubSeq(text, cuts[k] + 1, cuts[k + 1] - 1)
<1>1. Len(text) \in Nat /\ text \in Seq(Tokens)
  BY DEF Text
<1>2. /\ Positions(text) \in Seq(1 .. Len(text)) /\ Len(Positions(text)) = Len(text)
      /\ \A i \in 1 .. Len(text) : Positions(text)[i] = i
  BY <1>1 DEF Positions
<1>3. /\ marks \in Seq(1 .. Len(text))
      /\ \E p : PickedAt(Positions(text), S \cap (1 .. Len(Positions(text))), marks, p)
  <2>. HIDE DEF S
  <2>. QED  BY <1>2, ChosenIs
<1>4. PICK p : PickedAt(Positions(text), S \cap (1 .. Len(Positions(text))), marks, p)
  BY <1>3
<1>5. Split(text, mark) = [k \in 1 .. Len(marks) + 1 |-> piece(k)]
  BY DEF Split
<1>. HIDE DEF marks
<1>6. Len(marks) \in Nat /\ \A i \in 1 .. Len(marks) : marks[i] \in 1 .. Len(text)
  BY <1>3
<1>7. \A i, j \in 1 .. Len(marks) : i < j => marks[i] < marks[j]
  <2>1. /\ p \in [1 .. Len(marks) -> S \cap (1 .. Len(text))]
        /\ \A i \in 1 .. Len(marks) : marks[i] = Positions(text)[p[i]]
        /\ \A i, j \in 1 .. Len(marks) : i < j => p[i] < p[j]
    BY <1>2, <1>4 DEF PickedAt
  <2>2. \A i \in 1 .. Len(marks) : marks[i] = p[i]
    BY <1>2, <2>1
  <2>. QED  BY <2>1, <2>2
<1>8. ASSUME NEW k \in 1 .. Len(marks) + 1 PROVE piece(k) \in Text
  <2>1. /\ cuts[1] = 0 /\ cuts[Len(marks) + 2] = Len(text) + 1
        /\ \A i \in 1 .. Len(marks) : cuts[i + 1] = marks[i]
    <3>1. marks \in Seq(Nat) /\ Len(text) + 1 \in Nat
      BY <1>1, <1>3
    <3>. QED  BY <1>6, <3>1
  <2>. HIDE DEF cuts
  <2>2. cuts[k] \in 0 .. Len(text) /\ cuts[k + 1] \in 1 .. Len(text) + 1
    <3>1. k = 1 \/ (k - 1 \in 1 .. Len(marks) /\ (k - 1) + 1 = k)
      BY <1>6
    <3>2. cuts[k] \in 0 .. Len(text)
      <4>1. CASE k = 1
        BY <1>1, <2>1, <4>1
      <4>2. CASE k - 1 \in 1 .. Len(marks) /\ (k - 1) + 1 = k
        <5>1. cuts[(k - 1) + 1] = marks[k - 1] /\ marks[k - 1] \in 1 .. Len(text)
          BY <1>6, <2>1, <4>2
        <5>. QED  BY <1>1, <4>2, <5>1
      <4>. QED  BY <3>1, <4>1, <4>2
    <3>3. k \in 1 .. Len(marks) \/ k + 1 = Len(marks) + 2
      BY <1>6
    <3>4. cuts[k + 1] \in 1 .. Len(text) + 1
      BY <1>1, <1>6, <2>1, <3>3
    <3>. QED  BY <3>2, <3>4
  <2>3. cuts[k] < cuts[k + 1]
    <3>1. CASE k = 1
      BY <2>1, <2>2, <3>1
    <3>2. CASE k # 1 /\ k = Len(marks) + 1
      <4>1. k + 1 = Len(marks) + 2
        BY <3>2
      <4>. QED  BY <1>1, <2>1, <2>2, <4>1
    <3>3. CASE k # 1 /\ k # Len(marks) + 1
      <4>1. k - 1 \in 1 .. Len(marks) /\ k \in 1 .. Len(marks) /\ k - 1 < k /\ (k - 1) + 1 = k
        BY <1>6, <3>3
      <4>2. cuts[(k - 1) + 1] = marks[k - 1] /\ cuts[k + 1] = marks[k]
        BY <2>1, <4>1
      <4>. QED  BY <1>7, <4>1, <4>2
    <3>. QED  BY <3>1, <3>2, <3>3
  <2>4. /\ cuts[k] + 1 \in Nat /\ cuts[k + 1] - 1 \in Nat /\ 1 <= cuts[k] + 1
        /\ cuts[k] + 1 <= (cuts[k + 1] - 1) + 1 /\ cuts[k + 1] - 1 <= Len(text)
    <3>1. \A n \in Nat : \A a \in 0 .. n, b \in 1 .. n + 1 :
              a < b => /\ a + 1 \in Nat /\ b - 1 \in Nat /\ 1 <= a + 1
                       /\ a + 1 <= (b - 1) + 1 /\ b - 1 <= n
      OBVIOUS
    <3>. QED  BY ONLY <1>1, <2>2, <2>3, <3>1
  <2>. QED  BY <1>1, <2>4, PartIs DEF Text
<1>. HIDE DEF piece
<1>. QED  BY <1>5, <1>6, <1>8

LEMMA LinesAre ==
    ASSUME NEW text \in Text PROVE Lines(text) \in Seq(Text)
<1>. DEFINE pieces == Split(text, NewLine)
<1>1. pieces \in Seq(Text) /\ Len(pieces) >= 1
  BY SplitIs
<1>2. Lines(text) = pieces \/ Lines(text) = SubSeq(pieces, 1, Len(pieces) - 1)
  BY DEF Lines, Front
<1>. HIDE DEF pieces
<1>3. Len(pieces) - 1 \in Nat /\ 1 <= (Len(pieces) - 1) + 1 /\ Len(pieces) - 1 <= Len(pieces)
  BY <1>1
<1>4. SubSeq(pieces, 1, Len(pieces) - 1) \in Seq(Text)
  BY <1>1, <1>3, PartIs
<1>. QED  BY <1>1, <1>2, <1>4

\* A line of a text, as classify_line tells it.
LEMMA LineIs ==
    ASSUME NEW raw \in Text
    PROVE  classify_line(raw).stack \in Text /\ classify_line(raw).count \in Int
<1>. DEFINE line == Trim(raw)
            at == SelectLastInSeq(line, LAMBDA t : t = Blank)
            count == SubSeq(line, at + 1, Len(line))
<1>1. line \in Text /\ Len(line) \in Nat
  <2>1. line \in Text
    BY TrimIs
  <2>. QED  BY <2>1 DEF Text
<1>2. at \in 0 .. Len(line)
  <2>. DEFINE I == {i \in 1 .. Len(line) : line[i] = Blank}
  <2>1. at = IF I # {} THEN Max(I) ELSE 0
    BY DEF SelectLastInSeq
  <2>2. I \subseteq 1 .. Len(line) /\ I \subseteq 0 .. Len(line)
    OBVIOUS
  <2>. HIDE DEF I, line, at
  <2>3. CASE I = {}
    BY <1>1, <2>1, <2>3
  <2>4. CASE I # {}
    <3>1. Max(I) \in I
      BY <1>1, <2>2, <2>4, MaxIs
    <3>2. at \in 1 .. Len(line)
      BY ONLY <2>1, <2>2, <2>4, <3>1
    <3>. QED  BY <1>1, <3>2
  <2>. QED  BY <2>3, <2>4
<1>. HIDE DEF line, at
<1>3. count \in Text /\ (at # 0 => SubSeq(line, 1, at - 1) \in Text)
  BY <1>1, <1>2, EndsAreTexts
<1>4. at # 0 => Trim(SubSeq(line, 1, at - 1)) \in Text
  BY <1>3, TrimIs
<1>5. IsInteger(count) => count[1][2] \in Int
  <2>. HIDE DEF count
  <2>1. ASSUME IsInteger(count) PROVE count[1] \in Tokens /\ count[1][1] = "dec"
    BY <1>3, <2>1 DEF Text, IsInteger
  <2>. QED  BY <2>1, NumberIs
<1>. DEFINE skip == line = <<>> \/ Head(line) = Hash
            number == IsInteger(count) /\ ~(count[1][2] < 0)
            stack == [kind |-> "stack", stack |-> Trim(SubSeq(line, 1, at - 1)),
                      count |-> count[1][2]]
<1>6. \/ classify_line(raw) \in {Skip, Invalid}
      \/ number /\ at # 0 /\ classify_line(raw) = stack
  <2>1. skip => classify_line(raw) = Skip
    BY Zenon DEF classify_line, line
  <2>2. ~skip /\ ~number => classify_line(raw) = Invalid
    BY Zenon DEF classify_line, line, at
  <2>3. ~skip /\ number /\ at = 0 => classify_line(raw) = Skip
    BY Zenon DEF classify_line, line, at
  <2>4. ~skip /\ number /\ at # 0 => classify_line(raw) = stack
    BY Zenon DEF classify_line, line, at
  <2>. HIDE DEF skip, number, stack
  <2>. QED  BY ONLY <2>1, <2>2, <2>3, <2>4
<1>. HIDE DEF count
<1>. QED  BY <1>4, <1>5, <1>6, NoTextIsText DEF Skip, Invalid

LEMMA PlaceIs ==
    ASSUME NEW text \in Text, split_file_line(text) # <<>>
    PROVE  /\ split_file_line(text)[1].file \in Text
           /\ split_file_line(text)[1].line \in 0 .. MaxLine
<1>. DEFINE at == SelectLastInSeq(text, LAMBDA t : t = Colon)
            line == SubSeq(text, at + 1, Len(text))
<1>1. Len(text) \in Nat
  BY DEF Text
<1>2. at \in 0 .. Len(text)
  <2>. DEFINE I == {i \in 1 .. Len(text) : text[i] = Colon}
  <2>1. at = IF I # {} THEN Max(I) ELSE 0
    BY DEF SelectLastInSeq
  <2>2. I \subseteq 1 .. Len(text) /\ I \subseteq 0 .. Len(text)
    OBVIOUS
  <2>. HIDE DEF I, at
  <2>3. CASE I = {}
    BY <1>1, <2>1, <2>3
  <2>4. CASE I # {}
    <3>1. Max(I) \in I
      BY <1>1, <2>2, <2>4, MaxIs
    <3>2. at \in 1 .. Len(text)
      BY ONLY <2>1, <2>2, <2>4, <3>1
    <3>. QED  BY <1>1, <3>2
  <2>. QED  BY <2>3, <2>4
<1>3. /\ at > 1 /\ line[1][2] \in 0 .. MaxLine
      /\ split_file_line(text) = <<[file |-> SubSeq(text, 1, at - 1), line |-> line[1][2]]>>
  BY DEF split_file_line
<1>. HIDE DEF at
<1>4. SubSeq(text, 1, at - 1) \in Text
  BY <1>2, <1>3, EndsAreTexts
<1>. HIDE DEF line
<1>5. split_file_line(text)[1] = [file |-> SubSeq(text, 1, at - 1), line |-> line[1][2]]
  BY ONLY <1>3
<1>6. /\ split_file_line(text)[1].file = SubSeq(text, 1, at - 1)
      /\ split_file_line(text)[1].line = line[1][2]
  <2>. DEFINE r == split_file_line(text)[1]
              a == SubSeq(text, 1, at - 1)
              b == line[1][2]
  <2>1. r = [file |-> a, line |-> b]
    BY <1>5
  <2>. HIDE DEF r, a, b
  <2>2. r.file = a /\ r.line = b
    BY ONLY <2>1
  <2>. QED  BY <2>2 DEF r, a, b
<1>7. split_file_line(text)[1].file \in Text
  BY ONLY <1>4, <1>6
<1>8. split_file_line(text)[1].line \in 0 .. MaxLine
  BY ONLY <1>3, <1>6
<1>. QED  BY <1>7, <1>8

\* The frame of a label, which keeps the label.
LEMMA ParsedIs ==
    ASSUME NEW label \in Text
    PROVE  /\ parse_frame(label) \in Frames
           /\ label # <<>> => frame_name(parse_frame(label)) # <<>>
<1>. DEFINE rest == IF label # <<>> /\ Last(label) = Close THEN Front(label) ELSE <<>>
            opens == {i \in 1 .. Len(rest) - 1 : rest[i] = Blank /\ rest[i + 1] = Open}
            open == IF opens = {} THEN Len(label) + 1 ELSE CHOOSE i \in opens : \A j \in opens : j <= i
            symbol == Trim(SubSeq(label, 1, open - 1))
            annotation == SubSeq(rest, open + 2, Len(rest))
            place == split_file_line(annotation)
            isHex == Len(symbol) = 1 /\ symbol[1][1] = "hex"
            f == parse_frame(label)
<1>1. Len(label) \in Nat /\ (label # <<>> => Len(label) >= 1)
  BY DEF Text
<1>2. rest \in Text /\ Len(rest) \in Nat /\ Len(rest) <= Len(label)
  <2>1. CASE label # <<>> /\ Last(label) = Close
    <3>1. rest = SubSeq(label, 1, Len(label) - 1)
      BY <2>1 DEF Front
    <3>2. Len(label) - 1 \in Nat /\ 1 <= (Len(label) - 1) + 1 /\ Len(label) - 1 <= Len(label)
      BY <1>1, <2>1
    <3>. HIDE DEF rest
    <3>3. rest \in Text /\ Len(rest) = (Len(label) - 1) - 1 + 1
      <4>1. label \in Seq(Tokens) /\ 1 \in Nat /\ 1 <= 1
        BY DEF Text
      <4>2. /\ SubSeq(label, 1, Len(label) - 1) \in Seq(Tokens)
            /\ Len(SubSeq(label, 1, Len(label) - 1)) = (Len(label) - 1) - 1 + 1
        BY ONLY <3>2, <4>1, PartIs
      <4>. QED  BY ONLY <3>1, <4>2 DEF Text
    <3>. QED  BY <1>1, <3>2, <3>3
  <2>2. CASE ~(label # <<>> /\ Last(label) = Close)
    <3>1. rest = <<>>
      BY <2>2
    <3>. QED  BY <1>1, <3>1, NoTextIsText
  <2>. QED  BY <2>1, <2>2
<1>. HIDE DEF rest
<1>3. open \in 1 .. Len(label) + 1 /\ (opens # {} => open + 1 <= Len(rest))
  <2>1. CASE opens = {}
    BY <1>1, <2>1
  <2>2. CASE opens # {}
    <3>1. opens \subseteq 1 .. Len(rest) - 1 /\ opens \subseteq 0 .. Len(rest)
      BY <1>2
    <3>2. \E i \in opens : \A j \in opens : j <= i
      <4>. HIDE DEF opens
      <4>. QED  BY <1>2, <2>2, <3>1, Largest
    <3>3. open \in opens
      <4>. HIDE DEF opens
      <4>. QED  BY <2>2, <3>2
    <3>. HIDE DEF opens, open
    <3>. QED  BY <1>1, <1>2, <3>1, <3>3
  <2>. QED  BY <2>1, <2>2
<1>4. f = [raw |-> label,
           function |-> IF isHex \/ symbol = <<>> THEN NoText ELSE symbol,
           address |-> IF isHex THEN symbol[1][2] ELSE NoNumber,
           file |-> IF place = <<>> THEN NoText ELSE place[1].file,
           line |-> IF place = <<>> THEN NoNumber ELSE place[1].line,
           module |-> IF opens # {} /\ place = <<>> THEN annotation ELSE NoText]
  BY DEF parse_frame, rest
<1>5. symbol \in Text
  <2>. HIDE DEF open
  <2>1. open - 1 \in 0 .. Len(label)
    BY <1>1, <1>3
  <2>2. SubSeq(label, 1, open - 1) \in Text
    BY <2>1, EndsAreTexts
  <2>. QED  BY <2>2, TrimIs
<1>6. annotation \in Text
  <2>. HIDE DEF open, opens
  <2>1. CASE open + 1 <= Len(rest)
    <3>1. open + 1 \in 0 .. Len(rest) /\ (open + 1) + 1 = open + 2
      BY <1>1, <1>2, <1>3, <2>1
    <3>2. SubSeq(rest, (open + 1) + 1, Len(rest)) \in Text
      BY <1>2, <3>1, EndsAreTexts
    <3>. QED  BY <3>1, <3>2
  <2>2. CASE ~(open + 1 <= Len(rest))
    <3>1. open + 2 > Len(rest) /\ open + 2 \in Nat
      BY <1>1, <1>2, <1>3, <2>2
    <3>2. annotation = <<>>
      BY <1>2, <3>1 DEF Text
    <3>. QED  BY <3>2, NoTextIsText
  <2>. QED  BY <2>1, <2>2
<1>. HIDE DEF symbol, annotation, opens
<1>7. isHex => symbol[1][2] \in Nat
  <2>1. Len(symbol) = 1 => symbol[1] \in Tokens
    <3>1. \A i \in 1 .. Len(symbol) : symbol[i] \in Tokens
      BY <1>5 DEF Text
    <3>. QED  BY ONLY <3>1
  <2>. QED  BY <2>1, NumberIs
<1>8. place # <<>> => place[1].file \in Text /\ place[1].line \in 0 .. MaxLine
  BY <1>6, PlaceIs
<1>. HIDE DEF isHex, place
<1>9. f \in Frames
  BY <1>4, <1>5, <1>6, <1>7, <1>8, NoTextIsText DEF Frames
<1>10. ASSUME label # <<>> PROVE frame_name(f) # <<>>
  <2>1. f.raw = label /\ f.function # <<>>
    BY <1>4, NoTextIsText
  <2>. HIDE DEF f
  <2>. QED  BY <1>10, <2>1 DEF frame_name, IsSome
<1>. QED  BY <1>9, <1>10

-----------------------------------------------------------------------------
(* What the readers answer                                                 *)

\* A profile that is typed, valid and named.
Sound(p) == p \in Profiles /\ validate(p) /\ AllNamed(p)

SampleOver(n, k) == [stack : Seq(0 .. n - 1), values : {v \in Seq(Int) : Len(v) = k}]

NamedFrames == {f \in Frames : frame_name(f) # <<>>}

Kinds == [kind : Text, unit : Text]

\* A profile is sound when its parts fit.
LEMMA SoundFrom ==
    ASSUME NEW frames \in Seq(NamedFrames), NEW kinds \in Seq(Kinds),
           NEW samples \in Seq(SampleOver(Len(frames), Len(kinds)))
    PROVE  Sound([frames |-> frames, samples |-> samples, value_kinds |-> kinds])
<1>. DEFINE p == [frames |-> frames, samples |-> samples, value_kinds |-> kinds]
<1>1. /\ p.frames = frames /\ p.samples = samples /\ p.value_kinds = kinds
      /\ Len(frames) \in Nat
  OBVIOUS
<1>2. p \in Profiles
  <2>1. frames \in Seq(Frames)
    BY DEF NamedFrames
  <2>2. SampleOver(Len(frames), Len(kinds)) \subseteq [stack : Seq(Nat), values : Seq(Int)]
    <3>1. \A s \in Seq(0 .. Len(frames) - 1) : s \in Seq(Nat)
      BY <1>1
    <3>. QED  BY <3>1 DEF SampleOver
  <2>3. samples \in Seq([stack : Seq(Nat), values : Seq(Int)])
    <3>1. /\ Len(samples) \in Nat /\ DOMAIN samples = 1 .. Len(samples)
          /\ \A i \in 1 .. Len(samples) : samples[i] \in SampleOver(Len(frames), Len(kinds))
      OBVIOUS
    <3>. DEFINE R == [stack : Seq(Nat), values : Seq(Int)]
    <3>2. \A i \in 1 .. Len(samples) : samples[i] \in R
      BY ONLY <2>2, <3>1
    <3>. HIDE DEF R
    <3>3. samples \in Seq(R)
      BY <3>1, <3>2
    <3>. QED  BY <3>3 DEF R
  <2>. QED  BY <2>1, <2>3 DEF Profiles, Kinds
<1>3. validate(p)
  <2>. SUFFICES ASSUME NEW s \in ToSet(samples)
                PROVE  /\ Len(s.values) = Len(kinds)
                       /\ \A id \in ToSet(s.stack) : id < Len(frames)
    BY <1>1 DEF validate
  <2>1. s \in SampleOver(Len(frames), Len(kinds))
    BY DEF ToSet
  <2>2. s.stack \in Seq(0 .. Len(frames) - 1) /\ Len(s.values) = Len(kinds)
    BY <2>1 DEF SampleOver
  <2>3. \A id \in ToSet(s.stack) : id \in 0 .. Len(frames) - 1
    BY <2>2 DEF ToSet
  <2>. QED  BY <1>1, <2>2, <2>3
<1>4. AllNamed(p)
  <2>1. \A f \in ToSet(frames) : f \in NamedFrames
    BY DEF ToSet
  <2>. QED  BY <1>1, <2>1 DEF AllNamed, NamedFrames
<1>. QED  BY <1>2, <1>3, <1>4 DEF Sound

\* A table interned from blocks of elements has them all.
LEMMA InBlocks ==
    ASSUME NEW X, NEW ss \in Seq(Seq(X)), NEW k \in 1 .. Len(ss), NEW j \in 1 .. Len(ss[k])
    PROVE  /\ IndexOf(Interned(FlattenSeq(ss)), ss[k][j]) \in 1 .. Len(Interned(FlattenSeq(ss)))
           /\ Interned(FlattenSeq(ss))[IndexOf(Interned(FlattenSeq(ss)), ss[k][j])] = ss[k][j]
<1>1. FlattenSeq(ss) \in Seq(X) /\ MadeOf(FlattenSeq(ss), ss, Len(ss))
  BY FlattenIs
<1>2. PICK i \in 1 .. Len(FlattenSeq(ss)) : FlattenSeq(ss)[i] = ss[k][j]
  BY <1>1 DEF MadeOf
<1>. QED  BY <1>1, <1>2, InTableOnce

\* The labels on a line.
LabelsOf(line) ==
    Only([i \in 1 .. Len(Split(line.stack, Semicolon)) |->
             Trim(Split(line.stack, Semicolon)[i])],
         LAMBDA label : label # <<>>)

LEMMA LabelsAre ==
    ASSUME NEW line, line.stack \in Text PROVE LabelsOf(line) \in Seq(Text \ {<<>>})
<1>. DEFINE pieces == Split(line.stack, Semicolon)
            trimmed == [i \in 1 .. Len(pieces) |-> Trim(pieces[i])]
            S == {i \in 1 .. Len(trimmed) : trimmed[i] # <<>>}
            c == Chosen(trimmed, S)
<1>1. pieces \in Seq(Text) /\ Len(pieces) \in Nat
  <2>1. pieces \in Seq(Text)
    BY SplitIs
  <2>. QED  BY <2>1
<1>2. LabelsOf(line) = c
  BY DEF LabelsOf, Only
<1>3. trimmed \in Seq(Text)
  <2>1. \A i \in 1 .. Len(pieces) : Trim(pieces[i]) \in Text
    BY <1>1, TrimIs
  <2>. HIDE DEF pieces
  <2>. QED  BY <1>1, <2>1
<1>. HIDE DEF trimmed
<1>4. /\ c \in Seq(Text)
      /\ \A i \in 1 .. Len(c) : \E k \in 1 .. Len(trimmed) : k \in S /\ c[i] = trimmed[k]
  <2>. HIDE DEF S
  <2>. QED  BY <1>3, ChosenElements
<1>. HIDE DEF c
<1>5. \A i \in 1 .. Len(c) : c[i] \in Text \ {<<>>}
  <2>1. \A i \in 1 .. Len(c) : c[i] \in Text /\ c[i] # <<>>
    BY <1>4
  <2>. QED  BY <2>1
<1>6. c \in Seq(Text \ {<<>>})
  BY <1>4, <1>5
<1>. QED  BY <1>2, <1>6

\* Whatever a text says, what the folded reader makes of it is sound.
LEMMA FoldedReadIs ==
    ASSUME NEW text \in Text, folded_read(text) # Err
    PROVE  \E p : folded_read(text) = Ok(p) /\ Sound(p)
<1>. DEFINE lines == [i \in 1 .. Len(Lines(text)) |-> classify_line(Lines(text)[i])]
            kept == Only(lines, LAMBDA line : line.kind = "stack" /\ LabelsOf(line) # <<>>)
            S == {i \in 1 .. Len(lines) : lines[i].kind = "stack" /\ LabelsOf(lines[i]) # <<>>}
            blocks == [i \in 1 .. Len(kept) |-> LabelsOf(kept[i])]
            table == Interned(FlattenSeq(blocks))
            frames == [i \in 1 .. Len(table) |-> parse_frame(table[i])]
            sample(i) == [stack |-> [j \in 1 .. Len(LabelsOf(kept[i])) |->
                                        IndexOf(table, LabelsOf(kept[i])[j]) - 1],
                          values |-> <<kept[i].count>>]
            samples == [i \in 1 .. Len(kept) |-> sample(i)]
            kinds == <<[kind |-> <<Word("samples")>>, unit |-> <<Word("count")>>]>>
            p == [frames |-> frames, samples |-> samples, value_kinds |-> kinds]
            LineSet == {line \in {classify_line(raw) : raw \in Text} :
                            line.stack \in Text /\ line.count \in Int}
            X == Text \ {<<>>}
<1>1. folded_read(text) = Ok(p)
  BY DEF folded_read, LabelsOf
<1>2. lines \in Seq(LineSet)
  <2>1. Lines(text) \in Seq(Text)
    BY LinesAre
  <2>2. \A i \in 1 .. Len(Lines(text)) : Lines(text)[i] \in Text
    BY <2>1
  <2>3. \A i \in 1 .. Len(Lines(text)) : classify_line(Lines(text)[i]) \in LineSet
    BY <2>2, LineIs
  <2>. HIDE DEF LineSet
  <2>. QED  BY <2>1, <2>3
<1>3. kept \in Seq(LineSet)
  <2>1. kept = Chosen(lines, S)
    BY DEF Only
  <2>. HIDE DEF S, lines, LineSet, kept
  <2>. QED  BY <1>2, <2>1, ChosenIs
<1>. HIDE DEF kept
<1>4. /\ Len(kept) \in Nat
      /\ \A i \in 1 .. Len(kept) : kept[i].stack \in Text /\ kept[i].count \in Int
  BY <1>3
<1>5. blocks \in Seq(Seq(X)) /\ Len(blocks) = Len(kept)
  <2>1. \A i \in 1 .. Len(kept) : LabelsOf(kept[i]) \in Seq(X)
    BY <1>4, LabelsAre
  <2>. HIDE DEF X
  <2>. QED  BY <1>4, <2>1
<1>6. table \in Seq(X) /\ Len(table) \in Nat
  <2>. HIDE DEF blocks, X
  <2>1. FlattenSeq(blocks) \in Seq(X)
    BY <1>5, FlattenIs
  <2>2. table \in Seq(X)
    BY <2>1, InternedIs
  <2>. QED  BY <2>2
<1>7. frames \in Seq(NamedFrames) /\ Len(frames) = Len(table)
  <2>. HIDE DEF table
  <2>1. \A i \in 1 .. Len(table) : table[i] \in X
    BY <1>6
  <2>2. \A i \in 1 .. Len(table) : parse_frame(table[i]) \in NamedFrames
    BY <2>1, ParsedIs DEF NamedFrames
  <2>. QED  BY <1>6, <2>2
<1>8. kinds \in Seq(Kinds) /\ Len(kinds) = 1
  <2>1. <<Word("samples")>> \in Text /\ <<Word("count")>> \in Text
    <3>1. \A w \in {"samples", "count"} \cup STRING : Word(w) \in Tokens
      BY DEF Tokens, Word
    <3>2. Word("samples") \in Tokens /\ Word("count") \in Tokens
      BY <3>1
    <3>. QED  BY <3>2 DEF Text
  <2>. QED  BY <2>1 DEF Kinds
<1>9. ASSUME NEW i \in 1 .. Len(kept)
      PROVE  sample(i) \in SampleOver(Len(frames), Len(kinds))
  <2>. HIDE DEF kinds, frames
  <2>1. LabelsOf(kept[i]) \in Seq(X)
    BY <1>4, LabelsAre
  <2>2. ASSUME NEW j \in 1 .. Len(LabelsOf(kept[i]))
        PROVE  IndexOf(table, LabelsOf(kept[i])[j]) - 1 \in 0 .. Len(frames) - 1
    <3>1. i \in 1 .. Len(blocks) /\ blocks[i] = LabelsOf(kept[i]) /\ j \in 1 .. Len(blocks[i])
      BY <1>5
    <3>. HIDE DEF blocks, X
    <3>2. IndexOf(table, blocks[i][j]) \in 1 .. Len(table)
      BY <1>5, <3>1, InBlocks
    <3>. HIDE DEF table
    <3>. QED  BY <1>6, <1>7, <3>1, <3>2
  <2>. HIDE DEF table, X
  <2>3. [j \in 1 .. Len(LabelsOf(kept[i])) |-> IndexOf(table, LabelsOf(kept[i])[j]) - 1]
            \in Seq(0 .. Len(frames) - 1)
    BY <2>1, <2>2
  <2>4. <<kept[i].count>> \in Seq(Int) /\ Len(<<kept[i].count>>) = Len(kinds)
    BY <1>4, <1>8
  <2>. QED  BY <2>3, <2>4 DEF SampleOver
<1>10. samples \in Seq(SampleOver(Len(frames), Len(kinds)))
  <2>. HIDE DEF sample, frames, kinds
  <2>. QED  BY <1>4, <1>9
<1>11. Sound(p)
  <2>. HIDE DEF samples, frames, kinds
  <2>. QED  BY <1>7, <1>8, <1>10, SoundFrom
<1>. HIDE DEF p
<1>. QED  BY <1>1, <1>11

-----------------------------------------------------------------------------
(* What the pprof reader answers                                           *)

LEMMA TagsAre ==
    /\ ToSet(Tags) = {"sample_type", "sample", "mapping", "location", "function", "string_table"}
    /\ \A tag \in ToSet(Tags) : \E t \in 1 .. 6 : Tags[t] = tag
    /\ \A t \in 1 .. 6 : Tags[t] \in ToSet(Tags)
    /\ Len(Tags) = 6
<1>1. /\ Len(Tags) = 6 /\ DOMAIN Tags = 1 .. 6 /\ 1 .. 6 = {1, 2, 3, 4, 5, 6}
      /\ Tags[1] = "sample_type" /\ Tags[2] = "sample" /\ Tags[3] = "mapping"
      /\ Tags[4] = "location" /\ Tags[5] = "function" /\ Tags[6] = "string_table"
  BY DEF Tags
<1>2. \A x : x \in ToSet(Tags) <=> \E t \in 1 .. 6 : x = Tags[t]
  BY ONLY <1>1 DEF ToSet
<1>3. \A x : x \in ToSet(Tags) <=>
          x \in {"sample_type", "sample", "mapping", "location", "function", "string_table"}
  BY ONLY <1>1, <1>2
<1>. QED  BY <1>1, <1>2, <1>3

LEMMA FieldsAre ==
    \A x : x \in Fields <=> \E tag \in ToSet(Tags) : x \in {tag} \X FieldTypes[tag]
<1>. DEFINE F == FieldTypes
<1>1. Fields = ({"sample_type"} \X F["sample_type"]) \cup ({"sample"} \X F["sample"])
               \cup ({"mapping"} \X F["mapping"]) \cup ({"location"} \X F["location"])
               \cup ({"function"} \X F["function"])
               \cup ({"string_table"} \X F["string_table"])
  BY DEF Fields
<1>2. ToSet(Tags) = {"sample_type", "sample", "mapping", "location", "function", "string_table"}
  BY TagsAre
<1>. HIDE DEF F
<1>3. \A x : x \in Fields <=>
          \E tag \in {"sample_type", "sample", "mapping", "location", "function", "string_table"} :
              x \in {tag} \X F[tag]
  BY ONLY <1>1
<1>. QED  BY <1>2, <1>3 DEF F

IsProto(proto) == \A tag \in ToSet(Tags) : proto[tag] \in Seq(FieldTypes[tag])

LEMMA ProtoFields ==
    ASSUME NEW proto, IsProto(proto)
    PROVE  /\ proto.sample_type \in Seq([type : Int, unit : Int])
           /\ proto.sample \in Seq([location_id : Seq(Nat), value : Seq(Int)])
           /\ proto.mapping \in Seq([id : Nat, filename : Int])
           /\ proto.location \in Seq([id : Nat, mapping_id : Nat, address : Nat,
                                      line : Seq([function_id : Nat, line : Int])])
           /\ proto.function \in Seq([id : Nat, name : Int, filename : Int])
           /\ proto.string_table \in Seq(Text)
BY TagsAre DEF IsProto, FieldTypes

\* What the decoder makes of any fields.
LEMMA DecodedIs ==
    ASSUME NEW fields \in Seq(Fields) PROVE IsProto(decode(fields))
<1>. SUFFICES ASSUME NEW tag \in ToSet(Tags)
              PROVE  decode(fields)[tag] \in Seq(FieldTypes[tag])
  BY DEF IsProto
<1>. DEFINE S == {i \in 1 .. Len(fields) : fields[i][1] = tag}
            these == Chosen(fields, S)
            X == FieldTypes[tag]
<1>1. decode(fields)[tag] = [i \in 1 .. Len(these) |-> these[i][2]]
  BY DEF decode, Only
<1>2. /\ these \in Seq(Fields)
      /\ \A i \in 1 .. Len(these) : \E k \in 1 .. Len(fields) : k \in S /\ these[i] = fields[k]
  <2>. HIDE DEF S
  <2>. QED  BY ChosenElements
<1>. HIDE DEF these
<1>3. ASSUME NEW i \in 1 .. Len(these) PROVE these[i][2] \in X
  <2>1. these[i] \in Fields /\ these[i][1] = tag
    BY <1>2
  <2>2. PICK t \in ToSet(Tags) : these[i] \in {t} \X FieldTypes[t]
    BY <2>1, FieldsAre
  <2>3. t = tag
    BY <2>1, <2>2
  <2>. QED  BY <2>2, <2>3
<1>. HIDE DEF X
<1>4. [i \in 1 .. Len(these) |-> these[i][2]] \in Seq(X)
  BY <1>2, <1>3
<1>. QED  BY <1>1, <1>4 DEF X

\* A frame as the pprof reader makes it.
NormalFrames ==
    {f \in Frames : /\ f.raw = <<>> /\ f.function # <<>> /\ f.file # <<>> /\ f.module # <<>>
                    /\ f.line # 0 /\ f.address # 0}

LEMMA NormalIsNamed == NormalFrames \subseteq NamedFrames
<1>. SUFFICES ASSUME NEW f \in NormalFrames PROVE frame_name(f) # <<>>
  BY DEF NormalFrames, NamedFrames
<1>1. f.function # <<>> /\ f.module # <<>> /\ f.raw = <<>>
  BY DEF NormalFrames
<1>. QED  BY <1>1 DEF frame_name, IsSome

\* Any one of the strings that a reference leads to.
OneOf(strings, some) ==
    IF some = {} THEN NoText ELSE resolve_opt(strings, CHOOSE i \in some : TRUE)

LEMMA OneOfIs ==
    ASSUME NEW strings \in Seq(Text), NEW some, \A i \in some : InTable(strings, i)
    PROVE  OneOf(strings, some) \in Text /\ OneOf(strings, some) # <<>>
<1>1. CASE some = {}
  BY <1>1, NoTextIsText DEF OneOf
<1>2. CASE some # {}
  <2>1. PICK i \in some : i = CHOOSE n \in some : TRUE
    BY <1>2
  <2>2. i \in 0 .. Len(strings) - 1 /\ Len(strings) \in Nat
    BY <2>1 DEF InTable
  <2>3. strings[i + 1] \in Text
    BY <2>2
  <2>4. OneOf(strings, some) = resolve_opt(strings, i)
    BY <1>2, <2>1 DEF OneOf
  <2>. QED  BY <2>3, <2>4, NoTextIsText DEF resolve_opt
<1>. QED  BY <1>1, <1>2

LEMMA NumbersAre ==
    /\ \A n \in Int : line_number(n) \in (0 .. MaxLine \cup {NoNumber}) /\ line_number(n) # 0
    /\ \A n \in Nat : nonzero(n) \in (Nat \cup {NoNumber}) /\ nonzero(n) # 0
BY ProfileAssumption DEF line_number, nonzero, NoNumber

\* The frames of a location whose strings there are.
LEMMA ExpandedIs ==
    ASSUME NEW proto, IsProto(proto),
           NEW location \in [id : Nat, mapping_id : Nat, address : Nat,
                             line : Seq([function_id : Nat, line : Int])],
           \A index \in LocationStrings(proto, location) : InTable(proto.string_table, index)
    PROVE  expand_location(proto, location) \in Seq(NormalFrames)
<1>. DEFINE strings == proto.string_table
            mapped == {m.filename : m \in Named(proto.mapping, location.mapping_id)}
            names(line) == {f.name : f \in Named(proto.function, line.function_id)}
            files(line) == {f.filename : f \in Named(proto.function, line.function_id)}
            module == OneOf(strings, mapped)
            bare == [EmptyFrame EXCEPT !.module = module, !.address = nonzero(location.address)]
            inlined(i, line) ==
                [raw |-> <<>>, function |-> OneOf(strings, names(line)),
                 file |-> OneOf(strings, files(line)), line |-> line_number(line.line),
                 module |-> module,
                 address |-> IF i = 1 THEN nonzero(location.address) ELSE NoNumber]
<1>1. expand_location(proto, location) =
          IF location.line = <<>> THEN <<bare>>
          ELSE [i \in 1 .. Len(location.line) |-> inlined(i, location.line[i])]
  BY DEF expand_location, OneOf
<1>2. strings \in Seq(Text)
  BY ProtoFields
<1>3. module \in Text /\ module # <<>>
  <2>1. \A i \in mapped : InTable(strings, i)
    BY DEF LocationStrings
  <2>. HIDE DEF mapped, strings
  <2>. QED  BY <1>2, <2>1, OneOfIs
<1>4. /\ nonzero(location.address) \in (Nat \cup {NoNumber})
      /\ nonzero(location.address) # 0
  BY NumbersAre
<1>5. bare \in NormalFrames
  <2>. HIDE DEF module
  <2>. DEFINE a == nonzero(location.address)
  <2>1. EmptyFrame \in Frames
    BY NoTextIsText DEF EmptyFrame, Frames
  <2>2. NoNumber # 0
    BY DEF NoNumber
  <2>3. /\ EmptyFrame.raw = <<>> /\ EmptyFrame.function = NoText /\ EmptyFrame.file = NoText
        /\ EmptyFrame.line = NoNumber
    BY DEF EmptyFrame
  <2>4. a \in Nat \cup {NoNumber} /\ a # 0
    BY <1>4
  <2>. HIDE DEF a
  <2>5. /\ bare \in Frames /\ bare.raw = <<>> /\ bare.function = NoText /\ bare.file = NoText
        /\ bare.line = NoNumber /\ bare.module = module /\ bare.address = a
    BY <1>3, <2>1, <2>3, <2>4 DEF Frames, a
  <2>. HIDE DEF bare
  <2>. QED  BY <1>3, <2>2, <2>4, <2>5, NoTextIsText DEF NormalFrames
<1>6. ASSUME NEW i \in 1 .. Len(location.line)
      PROVE  inlined(i, location.line[i]) \in NormalFrames
  <2>. DEFINE line == location.line[i]
  <2>1. line \in ToSet(location.line) /\ line.line \in Int
    <3>1. location.line \in Seq([function_id : Nat, line : Int])
      OBVIOUS
    <3>3. line \in ToSet(location.line)
      BY <3>1, ElementIs
    <3>4. line \in [function_id : Nat, line : Int]
      BY <3>1, ElementIs
    <3>. QED  BY <3>3, <3>4
  <2>2. \A n \in names(line) \cup files(line) : InTable(strings, n)
    <3>. HIDE DEF line
    <3>1. \A f \in Named(proto.function, line.function_id) :
              f.name \in LocationStrings(proto, location)
              /\ f.filename \in LocationStrings(proto, location)
      BY <2>1 DEF LocationStrings
    <3>. QED  BY <3>1
  <2>. HIDE DEF line
  <2>3. OneOf(strings, names(line)) \in Text /\ OneOf(strings, names(line)) # <<>>
    <3>1. \A n \in names(line) : InTable(strings, n)
      BY <2>2
    <3>. HIDE DEF names, strings
    <3>. QED  BY <1>2, <3>1, OneOfIs
  <2>4. OneOf(strings, files(line)) \in Text /\ OneOf(strings, files(line)) # <<>>
    <3>1. \A n \in files(line) : InTable(strings, n)
      BY <2>2
    <3>. HIDE DEF files, strings
    <3>. QED  BY <1>2, <3>1, OneOfIs
  <2>5. line_number(line.line) \in (0 .. MaxLine \cup {NoNumber}) /\ line_number(line.line) # 0
    BY <2>1, NumbersAre
  <2>6. NoNumber # 0
    BY DEF NoNumber
  <2>. HIDE DEF names, files, module, strings
  <2>7. inlined(i, line) \in NormalFrames
    BY <1>3, <1>4, <2>3, <2>4, <2>5, <2>6, NoTextIsText DEF NormalFrames, Frames
  <2>. QED  BY <2>7 DEF line
<1>7. CASE location.line = <<>>
  <2>. HIDE DEF bare
  <2>1. expand_location(proto, location) = <<bare>>
    BY <1>1, <1>7
  <2>. QED  BY <1>5, <2>1
<1>8. CASE location.line # <<>>
  <2>. HIDE DEF inlined, bare
  <2>1. expand_location(proto, location) =
            [i \in 1 .. Len(location.line) |-> inlined(i, location.line[i])]
    BY <1>1, <1>8
  <2>2. Len(location.line) \in Nat
    OBVIOUS
  <2>. QED  BY <1>6, <2>1, <2>2
<1>. QED  BY <1>7, <1>8

\* Samples of the frames that a table was interned from.
Normal(p) ==
    /\ p.frames \in Seq(NormalFrames)
    /\ \A i, j \in 1 .. Len(p.frames) : i < j => p.frames[i] # p.frames[j]

\* The locations that are read are some of those there are.
LEMMA LocationsReadAre ==
    ASSUME NEW X, NEW proto, proto.location \in Seq(X) PROVE LocationsRead(proto) \in Seq(X)
<1>. DEFINE S == {i \in 1 .. Len(Positions(proto.location)) :
                    \A j \in 1 .. Positions(proto.location)[i] - 1 :
                        proto.location[j].id # proto.location[Positions(proto.location)[i]].id}
            firsts == Chosen(Positions(proto.location), S)
<1>1. LocationsRead(proto) = [i \in 1 .. Len(firsts) |-> proto.location[firsts[i]]]
  BY DEF LocationsRead, Only
<1>2. firsts \in Seq(1 .. Len(proto.location))
  <2>1. Len(proto.location) \in Nat
    OBVIOUS
  <2>2. Positions(proto.location) \in Seq(1 .. Len(proto.location))
    BY <2>1 DEF Positions
  <2>. HIDE DEF S
  <2>. QED  BY <2>2, ChosenIs
<1>. HIDE DEF firsts
<1>3. ASSUME NEW i \in 1 .. Len(firsts) PROVE proto.location[firsts[i]] \in X
  <2>1. firsts[i] \in 1 .. Len(proto.location)
    BY <1>2
  <2>. QED  BY <2>1, ElementIs
<1>. QED  BY <1>1, <1>2, <1>3

\* Whatever a message says, what the pprof reader makes of it is sound.
LEMMA ProtoReadIs ==
    ASSUME NEW proto, IsProto(proto), convert_from_proto(proto) # Err
    PROVE  \E p : convert_from_proto(proto) = Ok(p) /\ Sound(p) /\ Normal(p)
<1>. DEFINE locations == LocationsRead(proto)
            expanded == [i \in 1 .. Len(locations) |-> expand_location(proto, locations[i])]
            table == Interned(FlattenSeq(expanded))
            at(id) == SelectInSeq(locations, LAMBDA l : l.id = id)
            blocks(s) == [j \in 1 .. Len(s.location_id) |-> expanded[at(s.location_id[j])]]
            stack(s) == Gathered(blocks(s))
            needed == NeededStrings(proto, locations)
            known == {l.id : l \in ToSet(locations)}
            sample(s) == [stack |-> [j \in 1 .. Len(stack(s)) |-> IndexOf(table, stack(s)[j]) - 1],
                          values |-> s.value]
            samples == [i \in 1 .. Len(proto.sample) |->
                           [stack |-> [j \in 1 .. Len(stack(proto.sample[i])) |->
                                          IndexOf(table, stack(proto.sample[i])[j]) - 1],
                            values |-> proto.sample[i].value]]
            kinds == [i \in 1 .. Len(proto.sample_type) |->
                        [kind |-> proto.string_table[proto.sample_type[i].type + 1],
                         unit |-> proto.string_table[proto.sample_type[i].unit + 1]]]
            p == [frames |-> table, samples |-> samples, value_kinds |-> kinds]
            bad == \/ \E index \in needed : ~InTable(proto.string_table, index)
                   \/ \E s \in ToSet(proto.sample) : ~Readable(proto, known, s)
            Loc == [id : Nat, mapping_id : Nat, address : Nat,
                    line : Seq([function_id : Nat, line : Int])]
            Smp == [location_id : Seq(Nat), value : Seq(Int)]
<1>1. convert_from_proto(proto) = IF bad THEN Err ELSE Ok(p)
  BY DEF convert_from_proto
<1>2. /\ \A index \in needed : InTable(proto.string_table, index)
      /\ \A s \in ToSet(proto.sample) : Readable(proto, known, s)
      /\ convert_from_proto(proto) = Ok(p)
  <2>1. ~bad /\ convert_from_proto(proto) = Ok(p)
    <3>. HIDE DEF bad, p
    <3>. QED  BY <1>1
  <2>. HIDE DEF p, needed, known
  <2>. QED  BY <2>1
<1>3. /\ proto.location \in Seq(Loc) /\ proto.sample \in Seq(Smp)
      /\ proto.sample_type \in Seq([type : Int, unit : Int])
      /\ proto.string_table \in Seq(Text)
  BY ProtoFields
<1>5. locations \in Seq(Loc) /\ Len(locations) \in Nat
  <2>. HIDE DEF locations, Loc
  <2>1. locations \in Seq(Loc)
    BY <1>3, LocationsReadAre DEF locations
  <2>. QED  BY <2>1
<1>6. \A i \in 1 .. Len(locations) : locations[i] \in ToSet(locations) /\ locations[i] \in Loc
  <2>. HIDE DEF locations, Loc
  <2>. QED  BY <1>5 DEF ToSet
<1>. HIDE DEF locations
<1>7. expanded \in Seq(Seq(NormalFrames)) /\ Len(expanded) = Len(locations)
  <2>1. ASSUME NEW i \in 1 .. Len(locations)
        PROVE  expand_location(proto, locations[i]) \in Seq(NormalFrames)
    <3>1. \A index \in LocationStrings(proto, locations[i]) : InTable(proto.string_table, index)
      <4>1. LocationStrings(proto, locations[i]) \subseteq needed
        <5>1. \A l \in ToSet(locations) : LocationStrings(proto, l) \subseteq needed
          BY DEF NeededStrings
        <5>. HIDE DEF needed
        <5>. QED  BY <1>6, <5>1
      <4>. HIDE DEF needed
      <4>. QED  BY <1>2, <4>1
    <3>. QED  BY <1>6, <3>1, ExpandedIs
  <2>2. Len(locations) \in Nat
    BY <1>5
  <2>. QED  BY <2>1, <2>2
<1>. HIDE DEF expanded
<1>8. /\ table \in Seq(NormalFrames) /\ Len(table) \in Nat
      /\ \A i, j \in 1 .. Len(table) : i < j => table[i] # table[j]
  <2>1. FlattenSeq(expanded) \in Seq(NormalFrames)
    BY <1>7, FlattenIs
  <2>2. /\ table \in Seq(NormalFrames)
        /\ \A i, j \in 1 .. Len(table) : i < j => table[i] # table[j]
    BY <2>1, InternedIs
  <2>. QED  BY <2>2
<1>9. ASSUME NEW id \in known PROVE at(id) \in 1 .. Len(locations)
  <2>. DEFINE I == {i \in 1 .. Len(locations) : locations[i].id = id}
  <2>1. PICK l \in ToSet(locations) : l.id = id
    OBVIOUS
  <2>2. PICK i \in 1 .. Len(locations) : l = locations[i]
    BY <1>5 DEF ToSet
  <2>3. I # {} /\ I \subseteq Nat /\ I \subseteq 1 .. Len(locations)
    BY <2>1, <2>2
  <2>4. at(id) = Min(I)
    BY <2>3 DEF SelectInSeq
  <2>. HIDE DEF I, at
  <2>5. Min(I) \in I
    BY <2>3, MinIs
  <2>. QED  BY <2>3, <2>4, <2>5
<1>. HIDE DEF at
<1>10. ASSUME NEW s \in Smp, Readable(proto, known, s)
       PROVE  /\ Len(stack(s)) \in Nat
              /\ \A j \in 1 .. Len(stack(s)) : IndexOf(table, stack(s)[j]) \in 1 .. Len(table)
  <2>1. Len(s.location_id) \in Nat /\ \A j \in 1 .. Len(s.location_id) : s.location_id[j] \in known
    <3>1. s.location_id \in Seq(Nat)
      OBVIOUS
    <3>2. \A id \in ToSet(s.location_id) : id \in known
      BY <1>10 DEF Readable
    <3>. HIDE DEF known
    <3>. QED  BY <3>1, <3>2 DEF ToSet
  <2>2. \A j \in 1 .. Len(s.location_id) : at(s.location_id[j]) \in 1 .. Len(expanded)
    BY <1>7, <1>9, <2>1
  <2>3. blocks(s) \in Seq(Seq(NormalFrames)) /\ Len(blocks(s)) = Len(s.location_id)
    <3>1. \A j \in 1 .. Len(s.location_id) : expanded[at(s.location_id[j])] \in Seq(NormalFrames)
      BY <1>7, <2>2
    <3>. QED  BY <2>1, <3>1
  <2>4. \A k \in 1 .. Len(blocks(s)) :
            at(s.location_id[k]) \in 1 .. Len(expanded)
            /\ blocks(s)[k] = expanded[at(s.location_id[k])]
    BY <2>2, <2>3
  <2>. DEFINE b == blocks(s)
              flat == FlattenSeq(b)
  <2>. HIDE DEF blocks
  <2>5. flat \in Seq(NormalFrames) /\ MadeOf(flat, b, Len(b)) /\ Len(flat) \in Nat
    <3>1. flat \in Seq(NormalFrames) /\ MadeOf(flat, b, Len(b))
      BY <2>3, FlattenIs
    <3>. QED  BY <3>1
  <2>6. stack(s) = [j \in 1 .. Len(flat) |-> flat[(Len(flat) - j) + 1]]
    BY DEF Gathered, Reverse
  <2>7. Len(stack(s)) = Len(flat)
    <3>. HIDE DEF stack, flat
    <3>. QED  BY <2>5, <2>6
  <2>8. ASSUME NEW j \in 1 .. Len(stack(s))
        PROVE  IndexOf(table, stack(s)[j]) \in 1 .. Len(table)
    <3>. HIDE DEF stack, flat, b
    <3>1. /\ (Len(flat) - j) + 1 \in 1 .. Len(flat)
          /\ stack(s)[j] = flat[(Len(flat) - j) + 1]
      BY <2>5, <2>6, <2>7
    <3>2. PICK k \in 1 .. Len(b) : \E m \in 1 .. Len(b[k]) : stack(s)[j] = b[k][m]
      <4>1. \A i \in 1 .. Len(flat) : \E k \in 1 .. Len(b) : \E m \in 1 .. Len(b[k]) :
                flat[i] = b[k][m]
        BY ONLY <2>5 DEF MadeOf
      <4>2. PICK i \in 1 .. Len(flat) : stack(s)[j] = flat[i]
        BY ONLY <3>1
      <4>3. \E k \in 1 .. Len(b) : \E m \in 1 .. Len(b[k]) : flat[i] = b[k][m]
        BY ONLY <4>1, <4>2, Zenon
      <4>. QED  BY ONLY <4>2, <4>3, Zenon
    <3>3. PICK m \in 1 .. Len(b[k]) : stack(s)[j] = b[k][m]
      BY <3>2
    <3>4. PICK e \in 1 .. Len(expanded) : b[k] = expanded[e]
      BY <2>4, <3>2 DEF b
    <3>5. m \in 1 .. Len(expanded[e]) /\ stack(s)[j] = expanded[e][m]
      BY <3>3, <3>4
    <3>. QED  BY <1>7, <3>5, InBlocks
  <2>. QED  BY <2>5, <2>7, <2>8
<1>. HIDE DEF stack, table
<1>11. Len(kinds) = Len(proto.sample_type) /\ kinds \in Seq(Kinds)
  <2>1. ASSUME NEW i \in 1 .. Len(proto.sample_type)
        PROVE  /\ proto.string_table[proto.sample_type[i].type + 1] \in Text
               /\ proto.string_table[proto.sample_type[i].unit + 1] \in Text
    <3>. DEFINE k == proto.sample_type[i]
    <3>1. k \in ToSet(proto.sample_type)
      BY <1>3, ElementIs
    <3>2. InTable(proto.string_table, k.type) /\ InTable(proto.string_table, k.unit)
      <4>1. k.type \in needed /\ k.unit \in needed
        <5>. HIDE DEF k
        <5>1. \A t \in ToSet(proto.sample_type) : {t.type, t.unit} \subseteq needed
          BY DEF NeededStrings
        <5>. HIDE DEF needed
        <5>. QED  BY <3>1, <5>1
      <4>. HIDE DEF k, needed
      <4>. QED  BY <1>2, <4>1
    <3>. HIDE DEF k
    <3>3. Len(proto.string_table) \in Nat
      BY <1>3
    <3>4. k.type + 1 \in 1 .. Len(proto.string_table) /\ k.unit + 1 \in 1 .. Len(proto.string_table)
      BY <3>2, <3>3 DEF InTable
    <3>5. /\ proto.string_table[k.type + 1] \in Text
          /\ proto.string_table[k.unit + 1] \in Text
      BY <1>3, <3>4
    <3>. QED  BY <3>5 DEF k
  <2>2. Len(proto.sample_type) \in Nat
    BY <1>3
  <2>. QED  BY <2>1, <2>2 DEF Kinds
<1>12. ASSUME NEW i \in 1 .. Len(proto.sample)
       PROVE  sample(proto.sample[i]) \in SampleOver(Len(table), Len(kinds))
  <2>. DEFINE s == proto.sample[i]
  <2>1. s \in Smp /\ s \in ToSet(proto.sample)
    <3>. HIDE DEF Smp
    <3>. QED  BY <1>3, ElementIs
  <2>2. Readable(proto, known, s)
    <3>. HIDE DEF s, known
    <3>. QED  BY <1>2, <2>1
  <2>. HIDE DEF s, known, kinds
  <2>3. s.value \in Seq(Int) /\ Len(s.value) = Len(kinds)
    BY <1>11, <2>1, <2>2 DEF Readable
  <2>4. [j \in 1 .. Len(stack(s)) |-> IndexOf(table, stack(s)[j]) - 1] \in Seq(0 .. Len(table) - 1)
    <3>1. /\ Len(stack(s)) \in Nat
          /\ \A j \in 1 .. Len(stack(s)) : IndexOf(table, stack(s)[j]) \in 1 .. Len(table)
      BY <1>10, <2>1, <2>2
    <3>2. \A j \in 1 .. Len(stack(s)) : IndexOf(table, stack(s)[j]) - 1 \in 0 .. Len(table) - 1
      BY <1>8, <3>1
    <3>. QED  BY <3>1, <3>2
  <2>. QED  BY <2>3, <2>4 DEF SampleOver, s
<1>13. samples \in Seq(SampleOver(Len(table), Len(kinds)))
  <2>1. samples = [i \in 1 .. Len(proto.sample) |-> sample(proto.sample[i])]
    OBVIOUS
  <2>2. Len(proto.sample) \in Nat
    BY <1>3
  <2>. HIDE DEF sample, samples, kinds
  <2>. QED  BY <1>12, <2>1, <2>2
<1>14. Sound(p)
  <2>1. table \in Seq(NamedFrames)
    BY <1>8, NormalIsNamed
  <2>. HIDE DEF samples, kinds
  <2>. QED  BY <1>11, <1>13, <2>1, SoundFrom
<1>15. Normal(p)
  <2>1. p.frames = table
    OBVIOUS
  <2>. HIDE DEF p
  <2>. QED  BY <1>8, <2>1 DEF Normal
<1>. HIDE DEF p
<1>. QED  BY <1>2, <1>14, <1>15

LEMMA PprofReadIs ==
    ASSUME NEW message \in Messages, pprof_read(message) # Err
    PROVE  \E p : pprof_read(message) = Ok(p) /\ Sound(p) /\ Normal(p)
<1>. DEFINE payload == decode_payload(message)
            fields == message.fields
<1>1. fields \in Seq(Fields) /\ Len(fields) \in Nat
  <2>1. fields \in Seq(Fields)
    BY DEF Messages
  <2>. QED  BY <2>1
<1>2. payload # Err
  BY DEF pprof_read
<1>3. payload[1] \in Seq(Fields)
  <2>1. CASE payload = Ok(fields)
    BY <1>1, <2>1 DEF Ok
  <2>2. CASE Len(fields) >= MAX_DECOMPRESSED /\ payload = Ok(SubSeq(fields, 1, MAX_DECOMPRESSED))
    <3>1. /\ MAX_DECOMPRESSED \in Nat /\ 1 <= MAX_DECOMPRESSED + 1
          /\ MAX_DECOMPRESSED <= Len(fields)
      BY <1>1, <2>2, PprofAssumption
    <3>2. SubSeq(fields, 1, MAX_DECOMPRESSED) \in Seq(Fields)
      BY <1>1, <3>1, PartIs
    <3>. HIDE DEF payload
    <3>. QED  BY <2>2, <3>2 DEF Ok
  <2>. QED  BY <1>2, <2>1, <2>2 DEF decode_payload
<1>4. pprof_read(message) = convert_from_proto(decode(payload[1]))
  BY <1>2 DEF pprof_read
<1>5. IsProto(decode(payload[1]))
  BY <1>3, DecodedIs
<1>. QED  BY <1>4, <1>5, ProtoReadIs

-----------------------------------------------------------------------------
(* What the folded writer writes                                           *)

LEMMA ConcatIsText == ASSUME NEW a \in Text, NEW b \in Text PROVE a \o b \in Text
BY DEF Text

LEMMA RenderedIs == ASSUME NEW f \in Frames PROVE render_frame(f) \in Text
<1>. DEFINE symbol == IF IsSome(f.function) THEN f.function
                      ELSE IF f.address # NoNumber THEN <<Hex(f.address)>>
                      ELSE <<>>
            note(text) == symbol \o <<Blank, Open>> \o text \o <<Close>>
            place == f.file \o <<Colon, Dec(f.line)>>
<1>1. f.raw \in Text /\ f.function \in Text /\ f.file \in Text /\ f.module \in Text
  BY DEF Frames
<1>2. symbol \in Text
  <2>1. f.address # NoNumber => <<Hex(f.address)>> \in Text
    BY NumbersAreTokens DEF Frames, Text
  <2>. QED  BY <1>1, <2>1, NoTextIsText
<1>. HIDE DEF symbol
<1>3. <<Blank, Open>> \in Text /\ <<Close>> \in Text
  BY MarksAreTokens DEF Text
<1>4. ASSUME NEW text \in Text PROVE note(text) \in Text
  BY <1>2, <1>3, ConcatIsText
<1>5. f.line # NoNumber => place \in Text
  <2>1. f.line # NoNumber => Dec(f.line) \in Tokens
    <3>1. f.line # NoNumber => f.line \in Int
      BY DEF Frames
    <3>. QED  BY <3>1, NumbersAreTokens
  <2>2. f.line # NoNumber => <<Colon, Dec(f.line)>> \in Text
    BY <2>1, MarksAreTokens DEF Text
  <2>. QED  BY <1>1, <2>2, ConcatIsText
<1>. HIDE DEF place
<1>6. render_frame(f) =
          IF f.raw # <<>> THEN f.raw
          ELSE IF IsSome(f.file) /\ f.line # NoNumber THEN note(place)
          ELSE IF IsSome(f.file) THEN note(f.file)
          ELSE IF IsSome(f.module) THEN note(f.module)
          ELSE symbol
  BY DEF render_frame, symbol, place
<1>. HIDE DEF note
<1>. QED  BY <1>1, <1>2, <1>4, <1>5, <1>6 DEF IsSome

LEMMA JoinedIs ==
    ASSUME NEW pieces \in Seq(Text), NEW mark \in Tokens PROVE Join(pieces, mark) \in Text
<1>. DEFINE ss == [i \in 1 .. Len(pieces) |-> IF i = 1 THEN pieces[i] ELSE <<mark>> \o pieces[i]]
<1>1. ASSUME NEW i \in 1 .. Len(pieces)
      PROVE  (IF i = 1 THEN pieces[i] ELSE <<mark>> \o pieces[i]) \in Seq(Tokens)
  <2>1. pieces[i] \in Text /\ <<mark>> \in Text
    BY DEF Text
  <2>2. <<mark>> \o pieces[i] \in Text
    BY <2>1, ConcatIsText
  <2>. QED  BY <2>1, <2>2 DEF Text
<1>2. ss \in Seq(Seq(Tokens))
  <2>1. Len(pieces) \in Nat
    OBVIOUS
  <2>. QED  BY <1>1, <2>1
<1>. HIDE DEF ss
<1>3. FlattenSeq(ss) \in Seq(Tokens)
  BY <1>2, FlattenIs
<1>. QED  BY <1>3 DEF Join, ss, Text

\* What the folded writer writes of a profile is a text.
LEMMA FoldedWriteIs ==
    ASSUME NEW p \in Profiles, folded_write(p) # Err
    PROVE  \E text \in Text : folded_write(p) = Ok(text)
<1>. DEFINE labels(s) == [i \in 1 .. Len(s.stack) |-> render_frame(p.frames[s.stack[i] + 1])]
            line(s) == Join(labels(s), Semicolon) \o <<Blank, Dec(s.values[1]), NewLine>>
            ss == [i \in 1 .. Len(p.samples) |-> line(p.samples[i])]
            bad == \E s \in ToSet(p.samples) :
                      s.values = <<>> \/ \E id \in ToSet(s.stack) : id >= Len(p.frames)
            Smp == [stack : Seq(Nat), values : Seq(Int)]
<1>1. folded_write(p) = IF bad THEN Err ELSE Ok(FlattenSeq(ss))
  BY DEF folded_write
<1>2. folded_write(p) = Ok(FlattenSeq(ss)) /\ ~bad
  <2>. HIDE DEF bad, ss
  <2>. QED  BY <1>1
<1>3. p.frames \in Seq(Frames) /\ p.samples \in Seq(Smp) /\ Len(p.frames) \in Nat
  <2>1. p.frames \in Seq(Frames) /\ p.samples \in Seq(Smp)
    BY DEF Profiles
  <2>. QED  BY <2>1
<1>4. ASSUME NEW i \in 1 .. Len(p.samples) PROVE line(p.samples[i]) \in Text
  <2>. DEFINE s == p.samples[i]
  <2>1. s \in Smp /\ s \in ToSet(p.samples)
    <3>. HIDE DEF Smp
    <3>. QED  BY <1>3, ElementIs
  <2>2. s.values # <<>> /\ \A id \in ToSet(s.stack) : ~(id >= Len(p.frames))
    BY <1>2, <2>1
  <2>. HIDE DEF s
  <2>3. s.stack \in Seq(Nat) /\ s.values \in Seq(Int) /\ Len(s.stack) \in Nat
    BY <2>1
  <2>4. ASSUME NEW j \in 1 .. Len(s.stack) PROVE render_frame(p.frames[s.stack[j] + 1]) \in Text
    <3>1. s.stack[j] \in Nat /\ s.stack[j] \in ToSet(s.stack)
      BY <2>3, ElementIs
    <3>2. s.stack[j] + 1 \in 1 .. Len(p.frames)
      <4>1. ~(s.stack[j] >= Len(p.frames))
        BY <2>2, <3>1
      <4>2. Len(p.frames) \in Nat
        BY <1>3
      <4>. QED  BY ONLY <3>1, <4>1, <4>2
    <3>3. p.frames[s.stack[j] + 1] \in Frames
      BY <1>3, <3>2, ElementIs
    <3>. QED  BY <3>3, RenderedIs
  <2>5. labels(s) \in Seq(Text)
    BY <2>3, <2>4
  <2>. HIDE DEF labels
  <2>6. Join(labels(s), Semicolon) \in Text
    BY <2>5, MarksAreTokens, JoinedIs
  <2>7. Dec(s.values[1]) \in Tokens
    <3>1. 1 \in 1 .. Len(s.values)
      BY <2>2, <2>3
    <3>2. s.values[1] \in Int
      BY <2>3, <3>1
    <3>. QED  BY <3>2, NumbersAreTokens
  <2>8. <<Blank, Dec(s.values[1]), NewLine>> \in Text
    BY <2>7, MarksAreTokens DEF Text
  <2>9. line(s) \in Text
    BY <2>6, <2>8, ConcatIsText
  <2>. QED  BY <2>9 DEF s
<1>5. ss \in Seq(Seq(Tokens))
  <2>1. Len(p.samples) \in Nat
    <3>. HIDE DEF Smp
    <3>. QED  BY <1>3
  <2>2. \A i \in 1 .. Len(p.samples) : line(p.samples[i]) \in Seq(Tokens)
    BY <1>4 DEF Text
  <2>. HIDE DEF line
  <2>. QED  BY <2>1, <2>2
<1>6. FlattenSeq(ss) \in Text
  <2>. HIDE DEF ss
  <2>. QED  BY <1>5, FlattenIs DEF Text
<1>. QED  BY <1>2, <1>6

-----------------------------------------------------------------------------
(* A folded text, put together and taken apart                              *)

\* The pieces between the marks of a text: piece k lies after position m[k - 1] and
\* before m[k], where the next mark is, or the end.
Cut(text, mark, pieces, m) ==
    /\ m \in [0 .. Len(pieces) -> Nat] /\ m[0] = 0 /\ m[Len(pieces)] = Len(text) + 1
    /\ \A k \in 1 .. Len(pieces) :
          /\ m[k] = m[k - 1] + Len(pieces[k]) + 1
          /\ k < Len(pieces) => text[m[k]] = mark
          /\ \A i \in 1 .. Len(pieces[k]) :
                text[m[k - 1] + i] = pieces[k][i] /\ pieces[k][i] # mark

\* Marks rise, and every position is in a piece or is a mark's.
LEMMA CutRises ==
    ASSUME NEW N \in Nat, NEW m \in [0 .. N -> Nat], \A k \in 1 .. N : m[k - 1] < m[k]
    PROVE  /\ \A i, j \in 0 .. N : i < j => m[i] < m[j]
           /\ \A x \in Nat : m[0] < x /\ x <= m[N] =>
                 \E k \in 1 .. N : m[k - 1] < x /\ x <= m[k]
<1>1. ASSUME NEW i \in 0 .. N, NEW j \in 0 .. N, i < j PROVE m[i] < m[j]
  <2>. DEFINE R == {k \in Nat : i + 1 + k <= N => m[i] < m[i + 1 + k]}
  <2>0. \A k \in 0 .. N : m[k] \in Nat
    OBVIOUS
  <2>1. 0 \in R
    <3>1. i + 1 \in 1 .. N /\ (i + 1) - 1 = i
      BY <1>1
    <3>2. m[(i + 1) - 1] < m[i + 1]
      BY ONLY <3>1, \A k \in 1 .. N : m[k - 1] < m[k]
    <3>. QED  BY <3>1, <3>2
  <2>2. ASSUME NEW k \in Nat, k \in R PROVE k + 1 \in R
    <3>. SUFFICES ASSUME i + 1 + (k + 1) <= N PROVE m[i] < m[i + 1 + (k + 1)]
      OBVIOUS
    <3>1. /\ i + 1 + (k + 1) \in 1 .. N /\ (i + 1 + (k + 1)) - 1 = i + 1 + k
          /\ i + 1 + k \in 0 .. N /\ i + 1 + (k + 1) \in 0 .. N
      OBVIOUS
    <3>2. m[(i + 1 + (k + 1)) - 1] < m[i + 1 + (k + 1)]
      BY ONLY <3>1, \A n \in 1 .. N : m[n - 1] < m[n]
    <3>3. m[i] < m[i + 1 + k]
      BY <2>2, <3>1
    <3>. QED  BY <2>0, <3>1, <3>2, <3>3
  <2>3. j - (i + 1) \in Nat /\ i + 1 + (j - (i + 1)) = j
    BY <1>1
  <2>4. j - (i + 1) \in R
    <3>. HIDE DEF R
    <3>. QED  BY <2>1, <2>2, <2>3, Induction
  <2>. QED  BY <2>3, <2>4
<1>2. ASSUME NEW x \in Nat, m[0] < x, x <= m[N]
      PROVE  \E k \in 1 .. N : m[k - 1] < x /\ x <= m[k]
  <2>. DEFINE S == {k \in 0 .. N : x <= m[k]}
  <2>1. S \subseteq Nat /\ N \in S
    BY <1>2
  <2>2. PICK k \in S : \A j \in S : k <= j
    <3>. HIDE DEF S
    <3>. QED  BY <2>1, Least
  <2>3. k \in 1 .. N
    <3>1. 0 \notin S
      BY <1>2
    <3>. QED  BY <3>1
  <2>4. k - 1 \in 0 .. N /\ k - 1 \notin S
    BY <2>2, <2>3
  <2>5. m[k - 1] \in Nat
    BY <2>4
  <2>6. m[k - 1] < x
    BY <2>4, <2>5
  <2>. QED  BY <2>3, <2>6
<1>. QED  BY <1>1, <1>2

\* Splitting gives the pieces between the marks.
LEMMA SplitCut ==
    ASSUME NEW text \in Text, NEW mark, NEW pieces \in Seq(Text), pieces # <<>>,
           NEW m, Cut(text, mark, pieces, m)
    PROVE  Split(text, mark) = pieces
<1>. DEFINE N == Len(pieces)
            S == {i \in 1 .. Len(text) : text[i] = mark}
            marks == Chosen(Positions(text), S)
            cuts == <<0>> \o marks \o <<Len(text) + 1>>
<1>1. /\ Len(text) \in Nat /\ text \in Seq(Tokens) /\ N \in Nat \ {0}
      /\ \A k \in 1 .. N : pieces[k] \in Text /\ Len(pieces[k]) \in Nat
  BY DEF Text
<1>2. /\ m \in [0 .. N -> Nat] /\ m[0] = 0 /\ m[N] = Len(text) + 1
      /\ \A k \in 1 .. N :
            /\ m[k] = m[k - 1] + Len(pieces[k]) + 1
            /\ k < N => text[m[k]] = mark
            /\ \A i \in 1 .. Len(pieces[k]) :
                  text[m[k - 1] + i] = pieces[k][i] /\ pieces[k][i] # mark
  BY DEF Cut
<1>. HIDE DEF N
<1>3. \A k \in 0 .. N : m[k] \in Nat
  BY <1>2
<1>4. \A k \in 1 .. N : m[k - 1] < m[k] /\ k - 1 \in 0 .. N /\ k \in 0 .. N
  <2>. SUFFICES ASSUME NEW k \in 1 .. N
                PROVE  m[k - 1] < m[k] /\ k - 1 \in 0 .. N /\ k \in 0 .. N
    OBVIOUS
  <2>1. k - 1 \in 0 .. N /\ k \in 0 .. N
    BY <1>1
  <2>2. m[k] = m[k - 1] + Len(pieces[k]) + 1 /\ Len(pieces[k]) \in Nat
    BY <1>1, <1>2
  <2>3. m[k - 1] \in Nat
    BY <1>3, <2>1
  <2>. QED  BY ONLY <2>1, <2>2, <2>3
<1>5. /\ \A i, j \in 0 .. N : i < j => m[i] < m[j]
      /\ \A x \in Nat : m[0] < x /\ x <= m[N] => \E k \in 1 .. N : m[k - 1] < x /\ x <= m[k]
  BY <1>1, <1>2, <1>4, CutRises
<1>. DEFINE q == [k \in 1 .. N - 1 |-> m[k]]
<1>6. Lists(q, N - 1, S)
  <2>1. ASSUME NEW k \in 1 .. N - 1 PROVE m[k] \in S
    <3>1. 0 \in 0 .. N /\ k \in 0 .. N /\ N \in 0 .. N /\ 0 < k /\ k < N /\ k \in 1 .. N
      BY <1>1
    <3>2. m[0] < m[k] /\ m[k] < m[N] /\ m[k] \in Nat /\ text[m[k]] = mark
      BY <1>2, <1>3, <1>5, <3>1
    <3>. QED  BY <1>1, <1>2, <3>2
  <2>2. \A i, j \in 1 .. N - 1 : i < j => q[i] < q[j]
    BY <1>1, <1>5
  <2>3. ASSUME NEW x \in S PROVE \E k \in 1 .. N - 1 : q[k] = x
    <3>1. x \in 1 .. Len(text) /\ text[x] = mark /\ x \in Nat /\ m[0] < x /\ x <= m[N]
      BY <1>1, <1>2
    <3>2. PICK k \in 1 .. N : m[k - 1] < x /\ x <= m[k]
      BY <1>5, <3>1
    <3>3. m[k - 1] \in Nat /\ m[k] \in Nat /\ m[k] = m[k - 1] + Len(pieces[k]) + 1
      BY <1>2, <1>3, <1>4
    <3>4. x = m[k]
      <4>. SUFFICES ASSUME x # m[k] PROVE FALSE
        OBVIOUS
      <4>1. x - m[k - 1] \in 1 .. Len(pieces[k]) /\ m[k - 1] + (x - m[k - 1]) = x
        BY <1>1, <3>1, <3>2, <3>3
      <4>. QED  BY <1>2, <3>1, <4>1
    <3>5. k # N
      BY <1>1, <1>2, <3>1, <3>4
    <3>6. k \in 1 .. N - 1
      BY <1>1, <3>5
    <3>. QED  BY <3>4, <3>6
  <2>4. q \in [1 .. N - 1 -> S]
    BY <2>1
  <2>. HIDE DEF q, S
  <2>. QED  BY <2>2, <2>3, <2>4 DEF Lists
<1>7. /\ Positions(text) \in Seq(1 .. Len(text)) /\ Len(Positions(text)) = Len(text)
      /\ \A i \in 1 .. Len(text) : Positions(text)[i] = i
  BY <1>1 DEF Positions
<1>8. S \cap (1 .. Len(Positions(text))) = S /\ \A k \in 1 .. N - 1 : q[k] \in S
  BY <1>6, <1>7 DEF Lists
<1>9. /\ marks \in Seq(1 .. Len(text)) /\ Len(marks) = N - 1
      /\ \A k \in 1 .. N - 1 : marks[k] = Positions(text)[q[k]]
  <2>1. N - 1 \in Nat
    BY <1>1
  <2>. HIDE DEF q, S
  <2>2. Lists(q, N - 1, S \cap (1 .. Len(Positions(text))))
    BY <1>6, <1>8
  <2>3. marks \in Seq(1 .. Len(text)) /\ ListedBy(marks, Positions(text), q, N - 1)
    BY ONLY <1>7, <2>1, <2>2, ChosenListed
  <2>. QED  BY <2>3 DEF ListedBy
<1>10. \A k \in 1 .. N - 1 : marks[k] = m[k]
  <2>1. \A k \in 1 .. N - 1 : q[k] \in 1 .. Len(text) /\ q[k] = m[k]
    BY <1>8
  <2>. HIDE DEF q, marks
  <2>. QED  BY <1>7, <1>9, <2>1
<1>11. Split(text, mark) = [k \in 1 .. Len(marks) + 1 |-> SubSeq(text, cuts[k] + 1, cuts[k + 1] - 1)]
  BY DEF Split
<1>. HIDE DEF marks, S, q
<1>12. \A k \in 0 .. N : cuts[k + 1] = m[k]
  <2>. SUFFICES ASSUME NEW k \in 0 .. N PROVE cuts[k + 1] = m[k]
    OBVIOUS
  <2>1. /\ cuts[1] = 0 /\ cuts[(N - 1) + 2] = Len(text) + 1
        /\ \A i \in 1 .. N - 1 : cuts[i + 1] = marks[i]
    <3>1. marks \in Seq(Nat) /\ Len(text) + 1 \in Nat /\ Len(marks) \in Nat
      BY <1>1, <1>9
    <3>2. /\ cuts[1] = 0 /\ cuts[Len(marks) + 2] = Len(text) + 1
          /\ \A i \in 1 .. Len(marks) : cuts[i + 1] = marks[i]
      BY ONLY <3>1
    <3>. HIDE DEF cuts
    <3>. QED  BY ONLY <1>9, <3>2
  <2>. HIDE DEF cuts
  <2>2. k = 0 \/ k = N \/ k \in 1 .. N - 1
    BY <1>1
  <2>3. (N - 1) + 2 = N + 1 /\ 0 + 1 = 1
    BY <1>1
  <2>. QED  BY <1>2, <1>10, <2>1, <2>2, <2>3
<1>. HIDE DEF cuts
<1>13. ASSUME NEW k \in 1 .. N PROVE SubSeq(text, cuts[k] + 1, cuts[k + 1] - 1) = pieces[k]
  <2>1. cuts[k] = m[k - 1] /\ cuts[k + 1] = m[k] /\ m[k - 1] \in Nat /\ m[k] \in Nat
    <3>1. (k - 1) + 1 = k
      OBVIOUS
    <3>2. cuts[(k - 1) + 1] = m[k - 1]
      BY <1>4, <1>12
    <3>. QED  BY <1>3, <1>4, <1>12, <3>1, <3>2
  <2>2. m[k] <= Len(text) + 1
    <3>1. k = N \/ k < N
      BY <1>1
    <3>2. N \in 0 .. N /\ k \in 0 .. N /\ m[N] \in Nat
      BY <1>1, <1>3
    <3>3. k < N => m[k] < m[N]
      BY <1>5, <3>2
    <3>. QED  BY <1>1, <1>2, <2>1, <3>1, <3>2, <3>3
  <2>. DEFINE a == m[k - 1]
              len == Len(pieces[k])
  <2>3. a \in Nat /\ len \in Nat /\ m[k] = a + len + 1 /\ a + len <= Len(text)
    <3>1. m[k] = m[k - 1] + Len(pieces[k]) + 1
      BY <1>2
    <3>2. Len(pieces[k]) \in Nat
      BY <1>1
    <3>. QED  BY ONLY <1>1, <2>1, <2>2, <3>1, <3>2
  <2>4. \A i \in 1 .. len : text[a + i] = pieces[k][i]
    BY <1>2
  <2>5. pieces[k] \in Seq(Tokens) /\ Len(pieces[k]) = len
    BY <1>1 DEF Text
  <2>6. m[k] - 1 = a + len
    BY <2>3
  <2>. HIDE DEF a, len
  <2>7. /\ SubSeq(text, a + 1, a + len) \in Seq(Tokens)
        /\ Len(SubSeq(text, a + 1, a + len)) = len
        /\ \A i \in 1 .. len : SubSeq(text, a + 1, a + len)[i] = text[a + i]
    <3>1. /\ a + 1 \in Nat /\ a + len \in Nat /\ 1 <= a + 1 /\ a + 1 <= (a + len) + 1
          /\ (a + len) - (a + 1) + 1 = len /\ \A i \in 1 .. len : a + 1 + i - 1 = a + i
      BY <2>3
    <3>. QED  BY ONLY <1>1, <2>3, <3>1, PartIs
  <2>. DEFINE b == SubSeq(text, a + 1, a + len)
  <2>8. b \in Seq(Tokens) /\ Len(b) = len /\ \A i \in 1 .. len : b[i] = pieces[k][i]
    BY <2>4, <2>7
  <2>. HIDE DEF b
  <2>9. b = pieces[k]
    BY ONLY <2>5, <2>8, len \in Nat
  <2>. QED  BY <2>1, <2>6, <2>9 DEF a, b
<1>14. (N - 1) + 1 = N
  BY <1>1
<1>15. Split(text, mark) = [k \in 1 .. N |-> pieces[k]]
  BY <1>9, <1>11, <1>13, <1>14
<1>. QED  BY <1>15 DEF N

\* Where the blocks of a text are.
LEMMA LaidOut ==
    ASSUME NEW ss \in Seq(Text)
    PROVE  /\ FlattenSeq(ss) \in Text
           /\ \E o : /\ Laid(FlattenSeq(ss), ss, o)
                     /\ \A k \in 1 .. Len(ss) : o[k - 1] \in Nat /\ o[k] \in Nat
<1>1. ss \in Seq(Seq(Tokens)) /\ Len(ss) \in Nat
  BY DEF Text
<1>2. FlattenSeq(ss) \in Seq(Tokens)
  BY <1>1, FlattenIs
<1>3. PICK o : Laid(FlattenSeq(ss), ss, o)
  BY <1>1, FlattenLaid
<1>4. \A k \in 1 .. Len(ss) : o[k - 1] \in Nat /\ o[k] \in Nat
  <2>1. o \in [0 .. Len(ss) -> Nat]
    BY <1>3 DEF Laid
  <2>2. \A k \in 1 .. Len(ss) : k - 1 \in 0 .. Len(ss) /\ k \in 0 .. Len(ss)
    BY <1>1
  <2>. QED  BY <2>1, <2>2
<1>. QED  BY <1>2, <1>3, <1>4 DEF Text

LEMMA NotIn ==
    ASSUME NEW text \in Text, NEW mark, ~Contains(text, mark), NEW i \in 1 .. Len(text)
    PROVE  text[i] # mark
BY DEF Contains

\* The text before a mark and after one.
LEMMA AroundMark ==
    ASSUME NEW a \in Text, NEW t \in Tokens
    PROVE  /\ <<t>> \o a \in Text /\ Len(<<t>> \o a) = Len(a) + 1 /\ (<<t>> \o a)[1] = t
           /\ \A i \in 1 .. Len(a) : (<<t>> \o a)[1 + i] = a[i]
           /\ a \o <<t>> \in Text /\ Len(a \o <<t>>) = Len(a) + 1 /\ (a \o <<t>>)[Len(a) + 1] = t
           /\ \A i \in 1 .. Len(a) : (a \o <<t>>)[i] = a[i]
<1>1. a \in Seq(Tokens) /\ <<t>> \in Seq(Tokens) /\ Len(<<t>>) = 1 /\ Len(a) \in Nat /\ <<t>>[1] = t
  BY DEF Text
<1>2. /\ <<t>> \o a \in Seq(Tokens) /\ Len(<<t>> \o a) = Len(a) + 1
      /\ \A i \in 1 .. Len(a) : (<<t>> \o a)[1 + i] = a[i]
  BY ONLY <1>1
<1>3. (<<t>> \o a)[1] = t
  BY ONLY <1>1
<1>4. /\ a \o <<t>> \in Seq(Tokens) /\ Len(a \o <<t>>) = Len(a) + 1
      /\ \A i \in 1 .. Len(a) : (a \o <<t>>)[i] = a[i]
  BY ONLY <1>1
<1>5. (a \o <<t>>)[Len(a) + 1] = t
  BY ONLY <1>1
<1>. QED  BY <1>2, <1>3, <1>4, <1>5 DEF Text

\* The blocks of a joined text: each piece but the first with the mark before it.
Blocks(pieces, mark) ==
    [k \in 1 .. Len(pieces) |-> IF k = 1 THEN pieces[k] ELSE <<mark>> \o pieces[k]]

LEMMA BlocksAre ==
    ASSUME NEW pieces \in Seq(Text), pieces # <<>>, NEW mark \in Tokens
    PROVE  /\ Blocks(pieces, mark) \in Seq(Text) /\ Len(Blocks(pieces, mark)) = Len(pieces)
           /\ Blocks(pieces, mark)[1] = pieces[1]
           /\ \A k \in 2 .. Len(pieces) : Blocks(pieces, mark)[k] = <<mark>> \o pieces[k]
           /\ Join(pieces, mark) = FlattenSeq(Blocks(pieces, mark))
<1>. DEFINE N == Len(pieces)
            ss == [k \in 1 .. N |-> IF k = 1 THEN pieces[k] ELSE <<mark>> \o pieces[k]]
<1>1. N \in Nat /\ 1 \in 1 .. N /\ \A k \in 1 .. N : pieces[k] \in Text
  OBVIOUS
<1>2. /\ \A k \in 1 .. N : ss[k] \in Text
      /\ ss[1] = pieces[1] /\ \A k \in 2 .. N : ss[k] = <<mark>> \o pieces[k]
  <2>. HIDE DEF N
  <2>1. ss[1] = pieces[1] /\ ss[1] \in Text
    BY <1>1
  <2>2. \A k \in 2 .. N : ss[k] = <<mark>> \o pieces[k]
    BY <1>1
  <2>3. \A k \in 2 .. N : ss[k] \in Text
    <3>. SUFFICES ASSUME NEW k \in 2 .. N PROVE ss[k] \in Text
      OBVIOUS
    <3>1. k \in 1 .. N
      BY <1>1
    <3>. HIDE DEF ss
    <3>2. pieces[k] \in Text /\ ss[k] = <<mark>> \o pieces[k]
      BY <1>1, <2>2, <3>1
    <3>3. <<mark>> \o pieces[k] \in Text
      BY ONLY <3>2, mark \in Tokens, AroundMark
    <3>. QED  BY <3>2, <3>3
  <2>4. \A k \in 1 .. N : k = 1 \/ k \in 2 .. N
    BY <1>1
  <2>. QED  BY <2>1, <2>2, <2>3, <2>4
<1>3. ss \in Seq(Text) /\ Len(ss) = N
  <2>. HIDE DEF N
  <2>. QED  BY <1>1, <1>2
<1>4. Blocks(pieces, mark) = ss /\ Join(pieces, mark) = FlattenSeq(ss)
  BY DEF Blocks, Join
<1>. HIDE DEF ss
<1>. QED  BY <1>2, <1>3, <1>4 DEF N

\* Splitting undoes joining, where no piece has the mark.
LEMMA SplitJoin ==
    ASSUME NEW pieces \in Seq(Text), pieces # <<>>, NEW mark \in Tokens,
           \A k \in 1 .. Len(pieces) : ~Contains(pieces[k], mark)
    PROVE  Join(pieces, mark) \in Text /\ Split(Join(pieces, mark), mark) = pieces
<1>. DEFINE N == Len(pieces)
            ss == Blocks(pieces, mark)
            text == FlattenSeq(ss)
<1>1. N \in Nat /\ 1 \in 1 .. N /\ \A k \in 1 .. N : pieces[k] \in Text /\ Len(pieces[k]) \in Nat
  <2>1. N \in Nat /\ 1 \in 1 .. N /\ \A k \in 1 .. N : pieces[k] \in Text
    OBVIOUS
  <2>. QED  BY <2>1 DEF Text
<1>2. ss[1] = pieces[1] /\ \A k \in 2 .. N : ss[k] = <<mark>> \o pieces[k]
  BY BlocksAre
<1>3. ss \in Seq(Text) /\ Len(ss) = N
  BY BlocksAre
<1>. HIDE DEF ss
<1>4. text \in Text
  BY <1>3, LaidOut
<1>5. PICK o : /\ Laid(text, ss, o) /\ \A k \in 1 .. N : o[k - 1] \in Nat /\ o[k] \in Nat
  BY <1>3, LaidOut
<1>6. /\ o[0] = 0 /\ Len(text) = o[N]
      /\ \A k \in 1 .. N : o[k] = o[k - 1] + Len(ss[k])
      /\ \A k \in 1 .. N : \A i \in 1 .. Len(ss[k]) : text[o[k - 1] + i] = ss[k][i]
  BY <1>3, <1>5 DEF Laid
<1>. DEFINE m == [k \in 0 .. N |-> IF k = 0 THEN 0 ELSE o[k] + 1]
<1>. HIDE DEF text, N
<1>7. m[0] = 0 /\ m[N] = Len(text) + 1 /\ \A k \in 1 .. N : m[k] = o[k] + 1
  BY <1>1, <1>6
<1>8. m \in [0 .. N -> Nat]
  <2>1. \A k \in 0 .. N : k = 0 \/ k \in 1 .. N
    BY <1>1
  <2>. QED  BY <1>5, <2>1
<1>. HIDE DEF m
<1>9. ASSUME NEW k \in 1 .. N
      PROVE  /\ m[k] = m[k - 1] + Len(pieces[k]) + 1
             /\ k < N => text[m[k]] = mark
             /\ \A i \in 1 .. Len(pieces[k]) :
                   text[m[k - 1] + i] = pieces[k][i] /\ pieces[k][i] # mark
  <2>1. /\ o[k] = o[k - 1] + Len(ss[k]) /\ \A i \in 1 .. Len(ss[k]) : text[o[k - 1] + i] = ss[k][i]
        /\ m[k] = o[k] + 1 /\ o[k - 1] \in Nat /\ o[k] \in Nat
    BY <1>5, <1>6, <1>7
  <2>2. pieces[k] \in Text /\ Len(pieces[k]) \in Nat
        /\ \A i \in 1 .. Len(pieces[k]) : pieces[k][i] # mark
    BY <1>1, NotIn DEF N
  <2>3. m[k] = m[k - 1] + Len(pieces[k]) + 1
        /\ \A i \in 1 .. Len(pieces[k]) : text[m[k - 1] + i] = pieces[k][i]
    <3>1. CASE k = 1
      <4>1. m[k - 1] = 0 /\ o[k - 1] = 0 /\ ss[k] = pieces[k]
        BY <1>2, <1>6, <1>7, <3>1
      <4>. QED  BY ONLY <2>1, <2>2, <4>1
    <3>2. CASE k # 1
      <4>1. k \in 2 .. N /\ k - 1 \in 1 .. N
        BY <1>1, <3>2
      <4>2. m[k - 1] = o[k - 1] + 1 /\ ss[k] = <<mark>> \o pieces[k]
        BY <1>2, <1>7, <4>1
      <4>3. Len(ss[k]) = Len(pieces[k]) + 1 /\ \A i \in 1 .. Len(pieces[k]) : ss[k][1 + i] = pieces[k][i]
        BY <2>2, <4>2, AroundMark
      <4>4. \A i \in 1 .. Len(pieces[k]) : text[o[k - 1] + (1 + i)] = pieces[k][i]
        <5>1. \A i \in 1 .. Len(pieces[k]) : 1 + i \in 1 .. Len(ss[k])
          BY <2>2, <4>3
        <5>. QED  BY <2>1, <4>3, <5>1
      <4>5. \A i \in 1 .. Len(pieces[k]) : o[k - 1] + (1 + i) = (o[k - 1] + 1) + i
        <5>1. o[k - 1] \in Nat
          BY <2>1
        <5>. QED  BY ONLY <5>1, <2>2, SMTT(30)
      <4>6. \A i \in 1 .. Len(pieces[k]) : text[m[k - 1] + i] = pieces[k][i]
        BY ONLY <4>2, <4>4, <4>5
      <4>7. m[k] = m[k - 1] + Len(pieces[k]) + 1
        <5>1. o[k] = o[k - 1] + Len(ss[k]) /\ m[k] = o[k] + 1 /\ o[k - 1] \in Nat
          BY <2>1
        <5>2. Len(pieces[k]) \in Nat /\ Len(ss[k]) = Len(pieces[k]) + 1 /\ m[k - 1] = o[k - 1] + 1
          BY <2>2, <4>2, <4>3
        <5>. QED  BY ONLY <5>1, <5>2, SMTT(30)
      <4>. QED  BY <4>6, <4>7
    <3>. QED  BY <3>1, <3>2
  <2>4. ASSUME k < N PROVE text[m[k]] = mark
    <3>1. k + 1 \in 2 .. N /\ k + 1 \in 1 .. N /\ (k + 1) - 1 = k
      BY <1>1, <2>4
    <3>2. ss[k + 1] = <<mark>> \o pieces[k + 1] /\ pieces[k + 1] \in Text
      BY <1>1, <1>2, <3>1
    <3>3. ss[k + 1][1] = mark /\ Len(ss[k + 1]) = Len(pieces[k + 1]) + 1
      BY <3>2, AroundMark
    <3>4. 1 \in 1 .. Len(ss[k + 1])
      BY <1>1, <3>1, <3>3
    <3>5. text[o[(k + 1) - 1] + 1] = ss[k + 1][1]
      BY <1>6, <3>1, <3>4
    <3>. QED  BY <2>1, <3>1, <3>3, <3>5
  <2>. QED  BY <2>2, <2>3, <2>4
<1>10. Cut(text, mark, pieces, m)
  BY <1>7, <1>8, <1>9 DEF Cut, N
<1>11. Join(pieces, mark) = text
  BY BlocksAre DEF ss, text
<1>. QED  BY <1>4, <1>10, <1>11, SplitCut

\* Where a joined text starts and ends, and what there is between.
LEMMA JoinEnds ==
    ASSUME NEW pieces \in Seq(Text), pieces # <<>>, NEW mark \in Tokens,
           \A k \in 1 .. Len(pieces) : pieces[k] # <<>>
    PROVE  /\ Join(pieces, mark) \in Text /\ Join(pieces, mark) # <<>>
           /\ Join(pieces, mark)[1] = pieces[1][1]
           /\ Join(pieces, mark)[Len(Join(pieces, mark))] =
                  pieces[Len(pieces)][Len(pieces[Len(pieces)])]
           /\ \A i \in 1 .. Len(Join(pieces, mark)) :
                 \/ Join(pieces, mark)[i] = mark
                 \/ \E k \in 1 .. Len(pieces) : \E j \in 1 .. Len(pieces[k]) :
                       Join(pieces, mark)[i] = pieces[k][j]
<1>. DEFINE N == Len(pieces)
            ss == Blocks(pieces, mark)
            text == FlattenSeq(ss)
<1>1. /\ N \in Nat /\ 1 \in 1 .. N /\ N \in 1 .. N
      /\ \A k \in 1 .. N : pieces[k] \in Text /\ Len(pieces[k]) \in Nat \ {0}
  <2>1. N \in Nat /\ 1 \in 1 .. N /\ N \in 1 .. N /\ \A k \in 1 .. N : pieces[k] \in Text
    OBVIOUS
  <2>. QED  BY <2>1 DEF Text
<1>2. ss[1] = pieces[1] /\ \A k \in 2 .. N : ss[k] = <<mark>> \o pieces[k]
  BY BlocksAre
<1>3. ss \in Seq(Text) /\ Len(ss) = N /\ Join(pieces, mark) = text
  BY BlocksAre
<1>. HIDE DEF ss
<1>4. text \in Text /\ Len(text) \in Nat
  BY <1>3, LaidOut DEF Text
<1>5. PICK o : /\ Laid(text, ss, o) /\ \A k \in 1 .. N : o[k - 1] \in Nat /\ o[k] \in Nat
  BY <1>3, LaidOut
<1>6. /\ o[0] = 0 /\ Len(text) = o[N]
      /\ \A k \in 1 .. N : o[k] = o[k - 1] + Len(ss[k])
      /\ \A k \in 1 .. N : \A i \in 1 .. Len(ss[k]) : text[o[k - 1] + i] = ss[k][i]
  BY <1>3, <1>5 DEF Laid
<1>7. MadeOf(text, ss, N)
  <2>1. ss \in Seq(Seq(Tokens))
    BY <1>3 DEF Text
  <2>. QED  BY <1>3, <2>1, FlattenIs
<1>. HIDE DEF text, N
<1>8. ASSUME NEW k \in 1 .. N
      PROVE  /\ Len(ss[k]) \in Nat \ {0} /\ ss[k][Len(ss[k])] = pieces[k][Len(pieces[k])]
             /\ \A i \in 1 .. Len(ss[k]) :
                   ss[k][i] = mark \/ \E j \in 1 .. Len(pieces[k]) : ss[k][i] = pieces[k][j]
  <2>1. CASE k = 1
    BY <1>1, <1>2, <2>1
  <2>2. CASE k # 1
    <3>1. k \in 2 .. N
      BY <1>1, <2>2
    <3>2. ss[k] = <<mark>> \o pieces[k] /\ pieces[k] \in Text /\ Len(pieces[k]) \in Nat \ {0}
      BY <1>1, <1>2, <3>1
    <3>. DEFINE b == <<mark>> \o pieces[k]
    <3>3. Len(b) = Len(pieces[k]) + 1 /\ b[1] = mark
          /\ \A i \in 1 .. Len(pieces[k]) : b[1 + i] = pieces[k][i]
      BY ONLY <3>2, mark \in Tokens, AroundMark
    <3>. HIDE DEF b
    <3>4. b[Len(b)] = pieces[k][Len(pieces[k])]
      <4>1. Len(b) = 1 + Len(pieces[k]) /\ Len(pieces[k]) \in 1 .. Len(pieces[k])
        BY ONLY <3>2, <3>3
      <4>. QED  BY ONLY <3>3, <4>1
    <3>5. ASSUME NEW i \in 1 .. Len(b)
          PROVE  b[i] = mark \/ \E j \in 1 .. Len(pieces[k]) : b[i] = pieces[k][j]
      <4>1. i = 1 \/ (i - 1 \in 1 .. Len(pieces[k]) /\ 1 + (i - 1) = i)
        BY ONLY <3>2, <3>3, i \in 1 .. Len(b)
      <4>. QED  BY <3>3, <4>1
    <3>6. ss[k] = b
      BY <3>2 DEF b
    <3>. DEFINE P(x) == /\ Len(x) \in Nat \ {0} /\ x[Len(x)] = pieces[k][Len(pieces[k])]
                        /\ \A i \in 1 .. Len(x) :
                              x[i] = mark \/ \E j \in 1 .. Len(pieces[k]) : x[i] = pieces[k][j]
    <3>7. Len(b) \in Nat \ {0}
      BY ONLY <3>2, <3>3
    <3>8. P(b)
      BY ONLY <3>4, <3>5, <3>7
    <3>. HIDE DEF P
    <3>9. P(ss[k])
      BY ONLY <3>6, <3>8
    <3>. QED  BY ONLY <3>9 DEF P
  <2>. QED  BY <2>1, <2>2
<1>9. text[1] = pieces[1][1] /\ text # <<>>
  <2>1. Len(ss[1]) \in Nat \ {0} /\ 1 \in 1 .. Len(ss[1]) /\ ss[1][1] = pieces[1][1]
    BY <1>1, <1>2, <1>8
  <2>2. \A k \in 1 .. N : k = 1 => k - 1 = 0
    BY <1>1
  <2>3. text[0 + 1] = ss[1][1]
    BY <1>1, <1>6, <2>1, <2>2
  <2>4. Len(text) # 0
    <3>1. o[N] = o[N - 1] + Len(ss[N]) /\ o[N - 1] \in Nat /\ Len(ss[N]) \in Nat \ {0}
      BY <1>1, <1>5, <1>6, <1>8
    <3>. QED  BY ONLY <1>6, <3>1
  <2>. QED  BY <2>1, <2>3, <2>4
<1>10. text[Len(text)] = pieces[N][Len(pieces[N])]
  <2>1. o[N] = o[N - 1] + Len(ss[N]) /\ Len(ss[N]) \in 1 .. Len(ss[N])
    BY <1>1, <1>6, <1>8
  <2>2. text[o[N - 1] + Len(ss[N])] = ss[N][Len(ss[N])]
    BY <1>1, <1>6, <2>1
  <2>. QED  BY <1>1, <1>6, <1>8, <2>1, <2>2
<1>11. ASSUME NEW i \in 1 .. Len(text)
       PROVE  text[i] = mark \/ \E k \in 1 .. N : \E j \in 1 .. Len(pieces[k]) : text[i] = pieces[k][j]
  <2>1. PICK k \in 1 .. N : \E j \in 1 .. Len(ss[k]) : text[i] = ss[k][j]
    BY <1>7 DEF MadeOf
  <2>2. PICK j \in 1 .. Len(ss[k]) : text[i] = ss[k][j]
    BY <2>1
  <2>. QED  BY <1>8, <2>2
<1>. QED  BY <1>3, <1>4, <1>9, <1>10, <1>11 DEF N

\* Each of the lines, ended.
Ended(lines) == [k \in 1 .. Len(lines) |-> lines[k] \o <<NewLine>>]

\* The lines of a text are those it was made of.
LEMMA LinesBack ==
    ASSUME NEW lines \in Seq(Text), \A k \in 1 .. Len(lines) : ~Contains(lines[k], NewLine)
    PROVE  FlattenSeq(Ended(lines)) \in Text /\ Lines(FlattenSeq(Ended(lines))) = lines
<1>. DEFINE N == Len(lines)
            ss == Ended(lines)
            text == FlattenSeq(ss)
            pieces == Append(lines, <<>>)
<1>1. N \in Nat /\ \A k \in 1 .. N : lines[k] \in Text /\ Len(lines[k]) \in Nat
  <2>1. N \in Nat /\ \A k \in 1 .. N : lines[k] \in Text
    OBVIOUS
  <2>. QED  BY <2>1 DEF Text
<1>2. ASSUME NEW k \in 1 .. N
      PROVE  /\ ss[k] \in Text /\ Len(ss[k]) = Len(lines[k]) + 1 /\ ss[k][Len(lines[k]) + 1] = NewLine
             /\ \A i \in 1 .. Len(lines[k]) : ss[k][i] = lines[k][i]
  <2>1. ss[k] = lines[k] \o <<NewLine>>
    BY DEF Ended
  <2>2. lines[k] \in Text /\ NewLine \in Tokens
    BY <1>1, MarksAreTokens
  <2>. DEFINE e == lines[k] \o <<NewLine>>
  <2>3. /\ e \in Text /\ Len(e) = Len(lines[k]) + 1 /\ e[Len(lines[k]) + 1] = NewLine
        /\ \A i \in 1 .. Len(lines[k]) : e[i] = lines[k][i]
    BY ONLY <2>2, AroundMark
  <2>. HIDE DEF ss, e
  <2>4. ss[k] = e
    BY <2>1 DEF e
  <2>. QED  BY ONLY <2>3, <2>4
<1>3. ss \in Seq(Text) /\ Len(ss) = N
  <2>1. ss = [k \in 1 .. N |-> ss[k]]
    BY DEF Ended
  <2>. HIDE DEF ss, N
  <2>2. \A k \in 1 .. N : ss[k] \in Text
    BY <1>2
  <2>3. N \in Nat
    BY <1>1
  <2>. QED  BY ONLY <2>1, <2>2, <2>3
<1>. HIDE DEF ss
<1>4. text \in Text
  BY <1>3, LaidOut
<1>5. PICK o : /\ Laid(text, ss, o) /\ \A k \in 1 .. N : o[k - 1] \in Nat /\ o[k] \in Nat
  BY <1>3, LaidOut
<1>6. /\ o[0] = 0 /\ Len(text) = o[N] /\ o[N] \in Nat
      /\ \A k \in 1 .. N : o[k] = o[k - 1] + Len(ss[k])
      /\ \A k \in 1 .. N : \A i \in 1 .. Len(ss[k]) : text[o[k - 1] + i] = ss[k][i]
  <2>1. N \in 0 .. N
    BY <1>1
  <2>. QED  BY <1>3, <1>5, <2>1 DEF Laid
<1>7. /\ pieces \in Seq(Text) /\ pieces # <<>> /\ Len(pieces) = N + 1 /\ pieces[N + 1] = <<>>
      /\ \A k \in 1 .. N : pieces[k] = lines[k]
  <2>1. <<>> \in Text
    BY NoTextIsText
  <2>. QED  BY ONLY <1>1, <2>1, lines \in Seq(Text)
<1>. DEFINE m == [k \in 0 .. N + 1 |-> IF k = N + 1 THEN o[N] + 1 ELSE o[k]]
<1>. HIDE DEF text, N, pieces
<1>8. m[N + 1] = o[N] + 1 /\ \A k \in 0 .. N : m[k] = o[k]
  BY <1>1
<1>9. m \in [0 .. N + 1 -> Nat]
  <2>1. \A k \in 0 .. N + 1 : k = 0 \/ k \in 1 .. N \/ k = N + 1
    BY <1>1
  <2>. QED  BY <1>5, <1>6, <2>1
<1>. HIDE DEF m
<1>10. ASSUME NEW k \in 1 .. N + 1
      PROVE  /\ m[k] = m[k - 1] + Len(pieces[k]) + 1
             /\ k < N + 1 => text[m[k]] = NewLine
             /\ \A i \in 1 .. Len(pieces[k]) :
                   text[m[k - 1] + i] = pieces[k][i] /\ pieces[k][i] # NewLine
  <2>1. CASE k = N + 1
    <3>1. pieces[k] = <<>> /\ Len(pieces[k]) = 0 /\ m[k - 1] = o[N] /\ m[k] = o[N] + 1
      <4>1. k - 1 = N /\ N \in 0 .. N
        BY <1>1, <2>1
      <4>2. m[k - 1] = o[N] /\ m[k] = o[N] + 1 /\ pieces[k] = <<>>
        BY <1>7, <1>8, <2>1, <4>1
      <4>. QED  BY <4>2
    <3>. QED  BY <1>1, <1>6, <2>1, <3>1
  <2>2. CASE k # N + 1
    <3>1. k \in 1 .. N /\ k \in 0 .. N /\ k - 1 \in 0 .. N
      BY <1>1, <2>2
    <3>2. m[k] = o[k] /\ m[k - 1] = o[k - 1] /\ pieces[k] = lines[k] /\ o[k - 1] \in Nat
      BY <1>5, <1>7, <1>8, <3>1
    <3>3. /\ o[k] = o[k - 1] + Len(ss[k]) /\ \A i \in 1 .. Len(ss[k]) : text[o[k - 1] + i] = ss[k][i]
      BY <1>6, <3>1
    <3>4. /\ Len(ss[k]) = Len(lines[k]) + 1 /\ ss[k][Len(lines[k]) + 1] = NewLine
          /\ \A i \in 1 .. Len(lines[k]) : ss[k][i] = lines[k][i]
      BY <1>2, <3>1
    <3>5. lines[k] \in Text /\ Len(lines[k]) \in Nat
          /\ \A i \in 1 .. Len(lines[k]) : lines[k][i] # NewLine
      BY <1>1, <3>1, NotIn DEF N
    <3>6. m[k] = m[k - 1] + Len(pieces[k]) + 1
      <4>1. /\ o[k] = o[k - 1] + Len(ss[k]) /\ m[k] = o[k] /\ m[k - 1] = o[k - 1]
            /\ Len(ss[k]) = Len(lines[k]) + 1 /\ Len(lines[k]) \in Nat /\ o[k - 1] \in Nat
            /\ pieces[k] = lines[k]
        BY <3>2, <3>3, <3>4, <3>5
      <4>. QED  BY ONLY <4>1
    <3>7. text[m[k]] = NewLine
      <4>1. Len(lines[k]) + 1 \in 1 .. Len(ss[k]) /\ m[k] = o[k - 1] + (Len(lines[k]) + 1)
        <5>1. /\ o[k] = o[k - 1] + Len(ss[k]) /\ m[k] = o[k] /\ o[k - 1] \in Nat
              /\ Len(ss[k]) = Len(lines[k]) + 1 /\ Len(lines[k]) \in Nat
          BY <3>2, <3>3, <3>4, <3>5
        <5>. QED  BY ONLY <5>1
      <4>. QED  BY ONLY <3>3, <3>4, <4>1
    <3>8. \A i \in 1 .. Len(lines[k]) : text[o[k - 1] + i] = lines[k][i]
      <4>1. \A i \in 1 .. Len(lines[k]) : i \in 1 .. Len(ss[k])
        BY ONLY <3>4, <3>5
      <4>. QED  BY ONLY <3>3, <3>4, <4>1
    <3>. QED  BY ONLY <3>2, <3>5, <3>6, <3>7, <3>8
  <2>. QED  BY <2>1, <2>2
<1>11. Cut(text, NewLine, pieces, m)
  <2>1. 0 \in 0 .. N
    BY <1>1
  <2>. QED  BY <1>6, <1>7, <1>8, <1>9, <1>10, <2>1 DEF Cut
<1>12. Split(text, NewLine) = pieces
  BY <1>4, <1>7, <1>11, SplitCut
<1>13. Last(pieces) = <<>> /\ Front(pieces) = lines
  <2>1. Last(pieces) = <<>>
    BY <1>7 DEF Last
  <2>2. Front(pieces) = SubSeq(pieces, 1, N)
    <3>1. (N + 1) - 1 = N
      BY <1>1
    <3>. QED  BY <1>7, <3>1 DEF Front
  <2>. DEFINE b == SubSeq(pieces, 1, N)
  <2>3. b \in Seq(Text) /\ Len(b) = N /\ \A i \in 1 .. N : b[i] = pieces[i]
    <3>1. 1 \in Nat /\ N \in Nat /\ 1 <= 1 /\ 1 <= N + 1 /\ N <= Len(pieces) /\ N - 1 + 1 = N
          /\ \A i \in 1 .. N : 1 + i - 1 = i
      BY <1>1, <1>7
    <3>. QED  BY ONLY <1>7, <3>1, PartIs
  <2>. HIDE DEF b
  <2>4. b = lines
    <3>1. lines \in Seq(Text) /\ Len(lines) = N /\ \A i \in 1 .. N : b[i] = lines[i]
      BY <1>7, <2>3 DEF N
    <3>. QED  BY ONLY <1>1, <2>3, <3>1
  <2>. QED  BY <2>1, <2>2, <2>4 DEF b
<1>14. Lines(text) = lines
  BY <1>12, <1>13 DEF Lines
<1>. QED  BY <1>4, <1>14 DEF text, ss

LEMMA TokensDiffer ==
    /\ \A n : Dec(n)[1] = "dec" /\ Dec(n)[2] = n /\ Hex(n)[1] = "hex" /\ Hex(n)[2] = n
    /\ \A n : \A t \in {Blank, NewLine, Semicolon, Colon, Open, Close, Hash} :
          Dec(n) # t /\ Hex(n) # t
    /\ Blank # Open /\ Blank # Close /\ Open # Colon /\ Close # Open /\ Colon # Blank
    /\ NewLine # Blank /\ Semicolon # Blank /\ Semicolon # Hash /\ Hash # Blank
    /\ NewLine # Semicolon
<1>1. \A n : Dec(n)[1] = "dec" /\ Dec(n)[2] = n /\ Hex(n)[1] = "hex" /\ Hex(n)[2] = n
  BY DEF Dec, Hex
<1>2. \A t \in {Blank, NewLine, Semicolon, Colon, Open, Close, Hash} : t[1] = "mark"
  <2>1. \A m : Mark(m)[1] = "mark"
    BY DEF Mark
  <2>. QED  BY ONLY <2>1 DEF Blank, NewLine, Semicolon, Colon, Open, Close, Hash
<1>3. /\ Blank[2] = " " /\ NewLine[2] = "\n" /\ Semicolon[2] = ";" /\ Colon[2] = ":"
      /\ Open[2] = "(" /\ Close[2] = ")" /\ Hash[2] = "#"
  <2>1. \A m : Mark(m)[2] = m
    BY DEF Mark
  <2>. QED  BY ONLY <2>1 DEF Blank, NewLine, Semicolon, Colon, Open, Close, Hash
<1>4. \A n : \A t \in {Blank, NewLine, Semicolon, Colon, Open, Close, Hash} :
          Dec(n) # t /\ Hex(n) # t
  <2>. SUFFICES ASSUME NEW n, NEW t \in {Blank, NewLine, Semicolon, Colon, Open, Close, Hash}
                PROVE  Dec(n) # t /\ Hex(n) # t
    OBVIOUS
  <2>1. t[1] = "mark" /\ Dec(n)[1] = "dec" /\ Hex(n)[1] = "hex"
    BY <1>1, <1>2
  <2>. QED  BY ONLY <2>1
<1>5. /\ Blank # Open /\ Blank # Close /\ Open # Colon /\ Close # Open /\ Colon # Blank
      /\ NewLine # Blank /\ Semicolon # Blank /\ Semicolon # Hash /\ Hash # Blank
      /\ NewLine # Semicolon
  BY ONLY <1>3
<1>. QED  BY ONLY <1>1, <1>4, <1>5

\* What trimming leaves of a text that is not blank.
TrimmedTo(text, a, b) ==
    /\ a \in 1 .. Len(text) /\ b \in 1 .. Len(text) /\ a <= b
    /\ text[a] # Blank /\ text[b] # Blank
    /\ \A i \in 1 .. Len(text) : text[i] # Blank => a <= i /\ i <= b
    /\ Trim(text) = SubSeq(text, a, b)

LEMMA TrimPart ==
    ASSUME NEW text \in Text, NEW x \in 1 .. Len(text), text[x] # Blank
    PROVE  \E a, b : TrimmedTo(text, a, b)
<1>. DEFINE kept == {i \in 1 .. Len(text) : text[i] # Blank}
            a == CHOOSE i \in kept : \A j \in kept : i <= j
            b == CHOOSE i \in kept : \A j \in kept : j <= i
<1>1. kept # {}
  OBVIOUS
<1>2. Len(text) \in Nat /\ kept \subseteq Nat /\ kept \subseteq 0 .. Len(text)
  BY DEF Text
<1>3. \E i \in kept : \A j \in kept : i <= j
  <2>. HIDE DEF kept
  <2>. QED  BY <1>1, <1>2, Least
<1>4. \E i \in kept : \A j \in kept : j <= i
  <2>. HIDE DEF kept
  <2>. QED  BY <1>1, <1>2, Largest
<1>5. a \in kept /\ b \in kept /\ \A j \in kept : a <= j /\ j <= b
  <2>. HIDE DEF kept
  <2>1. a \in kept /\ \A j \in kept : a <= j
    BY ONLY <1>3
  <2>2. b \in kept /\ \A j \in kept : j <= b
    BY ONLY <1>4
  <2>. QED  BY <2>1, <2>2
<1>6. Trim(text) = SubSeq(text, a, b)
  BY <1>1 DEF Trim
<1>. HIDE DEF a, b
<1>7. TrimmedTo(text, a, b)
  <2>1. a \in 1 .. Len(text) /\ b \in 1 .. Len(text) /\ a <= b /\ text[a] # Blank /\ text[b] # Blank
    BY <1>5
  <2>2. \A i \in 1 .. Len(text) : text[i] # Blank => a <= i /\ i <= b
    BY <1>5
  <2>. QED  BY <1>6, <2>1, <2>2 DEF TrimmedTo
<1>. QED  BY <1>7

LEMMA WholeIs ==
    ASSUME NEW text \in Text PROVE SubSeq(text, 1, Len(text)) = text
BY DEF Text

\* A text with no blank at its ends stays as it is.
LEMMA TrimSelf ==
    ASSUME NEW text \in Text, text # <<>>, text[1] # Blank, text[Len(text)] # Blank
    PROVE  Trim(text) = text
<1>1. Len(text) \in Nat /\ 1 \in 1 .. Len(text) /\ Len(text) \in 1 .. Len(text)
  BY DEF Text
<1>2. PICK a, b : TrimmedTo(text, a, b)
  BY <1>1, TrimPart
<1>3. a = 1 /\ b = Len(text)
  <2>1. a <= 1 /\ Len(text) <= b /\ a \in 1 .. Len(text) /\ b \in 1 .. Len(text)
    BY <1>1, <1>2 DEF TrimmedTo
  <2>. QED  BY ONLY <1>1, <2>1
<1>. QED  BY <1>2, <1>3, WholeIs DEF TrimmedTo

\* And one that stays as it is has none there.
LEMMA TrimmedEnds ==
    ASSUME NEW text \in Text, text # <<>>, Len(Trim(text)) = Len(text)
    PROVE  text[1] # Blank /\ text[Len(text)] # Blank /\ Trim(text) = text
<1>1. Len(text) \in Nat /\ Len(text) # 0
  BY DEF Text
<1>2. \E x \in 1 .. Len(text) : text[x] # Blank
  <2>. SUFFICES ASSUME \A x \in 1 .. Len(text) : text[x] = Blank PROVE FALSE
    OBVIOUS
  <2>1. {i \in 1 .. Len(text) : text[i] # Blank} = {}
    OBVIOUS
  <2>2. Trim(text) = <<>>
    BY <2>1 DEF Trim
  <2>. QED  BY <1>1, <2>2
<1>3. PICK a, b : TrimmedTo(text, a, b)
  BY <1>2, TrimPart
<1>4. a \in 1 .. Len(text) /\ b \in 1 .. Len(text) /\ a <= b /\ Trim(text) = SubSeq(text, a, b)
  BY <1>3 DEF TrimmedTo
<1>5. Len(SubSeq(text, a, b)) = b - a + 1
  <2>1. a \in Nat /\ b \in Nat /\ 1 <= a /\ a <= b + 1 /\ b <= Len(text)
    BY ONLY <1>1, <1>4
  <2>2. text \in Seq(Tokens)
    BY DEF Text
  <2>. QED  BY ONLY <2>1, <2>2, PartIs
<1>6. a = 1 /\ b = Len(text)
  BY <1>1, <1>4, <1>5
<1>. QED  BY <1>3, <1>4, <1>6, WholeIs DEF TrimmedTo

LEMMA TrimShorter ==
    ASSUME NEW text \in Text PROVE Trim(text) \in Text /\ Len(Trim(text)) <= Len(text)
<1>1. Len(text) \in Nat /\ Trim(text) \in Text
  BY TrimIs DEF Text
<1>2. CASE \E x \in 1 .. Len(text) : text[x] # Blank
  <2>1. PICK a, b : TrimmedTo(text, a, b)
    BY <1>2, TrimPart
  <2>2. a \in 1 .. Len(text) /\ b \in 1 .. Len(text) /\ a <= b /\ Trim(text) = SubSeq(text, a, b)
    BY <2>1 DEF TrimmedTo
  <2>3. Len(SubSeq(text, a, b)) = b - a + 1
    <3>1. a \in Nat /\ b \in Nat /\ 1 <= a /\ a <= b + 1 /\ b <= Len(text)
      BY ONLY <1>1, <2>2
    <3>2. text \in Seq(Tokens)
      BY DEF Text
    <3>. QED  BY ONLY <3>1, <3>2, PartIs
  <2>. QED  BY <1>1, <2>2, <2>3
<1>3. CASE ~\E x \in 1 .. Len(text) : text[x] # Blank
  <2>1. {i \in 1 .. Len(text) : text[i] # Blank} = {}
    BY <1>3
  <2>2. Trim(text) = <<>>
    BY <2>1 DEF Trim
  <2>. QED  BY <1>1, <2>2
<1>. QED  BY <1>2, <1>3

LEMMA LargestIs ==
    ASSUME NEW b \in Nat, NEW I, I \subseteq 0 .. b, NEW at \in I, \A i \in I : i <= at
    PROVE  Max(I) = at
<1>1. Max(I) \in I /\ \A y \in I : y <= Max(I)
  BY MaxIs
<1>2. Max(I) \in 0 .. b /\ at \in 0 .. b
  BY <1>1
<1>. QED  BY <1>1, <1>2

\* Two texts, one after the other.
LEMMA ConcatIs ==
    ASSUME NEW a \in Text, NEW b \in Text
    PROVE  /\ a \o b \in Text /\ Len(a \o b) = Len(a) + Len(b)
           /\ \A i \in 1 .. Len(a) : (a \o b)[i] = a[i]
           /\ \A i \in 1 .. Len(b) : (a \o b)[Len(a) + i] = b[i]
BY DEF Text

\* The two parts of it again.
LEMMA ConcatParts ==
    ASSUME NEW a \in Text, NEW b \in Text
    PROVE  /\ SubSeq(a \o b, 1, Len(a)) = a
           /\ SubSeq(a \o b, Len(a) + 1, Len(a) + Len(b)) = b
<1>. DEFINE c == a \o b
<1>1. /\ c \in Seq(Tokens) /\ Len(c) = Len(a) + Len(b) /\ Len(a) \in Nat /\ Len(b) \in Nat
      /\ \A i \in 1 .. Len(a) : c[i] = a[i]
      /\ \A i \in 1 .. Len(b) : c[Len(a) + i] = b[i]
      /\ a \in Seq(Tokens) /\ b \in Seq(Tokens)
  BY DEF Text
<1>. HIDE DEF c
<1>. DEFINE d == SubSeq(c, 1, Len(a))
            e == SubSeq(c, Len(a) + 1, Len(a) + Len(b))
<1>2. d \in Seq(Tokens) /\ Len(d) = Len(a) /\ \A i \in 1 .. Len(a) : d[i] = c[i]
  <2>1. /\ 1 \in Nat /\ 1 <= 1 /\ 1 <= Len(a) + 1 /\ Len(a) <= Len(c) /\ Len(a) - 1 + 1 = Len(a)
        /\ \A i \in 1 .. Len(a) : 1 + i - 1 = i
    BY <1>1
  <2>. QED  BY ONLY <1>1, <2>1, PartIs
<1>3. e \in Seq(Tokens) /\ Len(e) = Len(b) /\ \A i \in 1 .. Len(b) : e[i] = c[Len(a) + i]
  <2>1. /\ Len(a) + 1 \in Nat /\ Len(a) + Len(b) \in Nat /\ 1 <= Len(a) + 1
        /\ Len(a) + 1 <= (Len(a) + Len(b)) + 1 /\ Len(a) + Len(b) <= Len(c)
        /\ (Len(a) + Len(b)) - (Len(a) + 1) + 1 = Len(b)
        /\ \A i \in 1 .. Len(b) : (Len(a) + 1) + i - 1 = Len(a) + i
    <3>1. Len(a) \in Nat /\ Len(b) \in Nat /\ Len(c) = Len(a) + Len(b)
      BY <1>1
    <3>. QED  BY ONLY <3>1
  <2>. QED  BY ONLY <1>1, <2>1, PartIs
<1>. HIDE DEF d, e
<1>4. d = a
  BY <1>1, <1>2
<1>5. e = b
  BY <1>1, <1>3
<1>. QED  BY <1>4, <1>5 DEF d, e, c

\* The count is found behind the last blank.
LEMMA ClassifyBack ==
    ASSUME NEW stack \in Text, stack # <<>>, stack[1] # Blank, stack[1] # Hash,
           stack[Len(stack)] # Blank, NEW v \in Nat
    PROVE  classify_line(stack \o <<Blank, Dec(v)>>) =
               [kind |-> "stack", stack |-> stack, count |-> v]
<1>. DEFINE end == <<Blank, Dec(v)>>
            raw == stack \o end
            n == Len(stack)
<1>1. /\ end \in Text /\ Len(end) = 2 /\ end[1] = Blank /\ end[2] = Dec(v)
      /\ n \in Nat /\ n # 0
  <2>1. Dec(v) \in Tokens /\ Blank \in Tokens
    BY NumbersAreTokens, MarksAreTokens
  <2>. QED  BY <2>1 DEF Text
<1>. HIDE DEF end
<1>2. /\ raw \in Text /\ Len(raw) = n + 2 /\ raw[n + 1] = Blank /\ raw[n + 2] = Dec(v)
      /\ \A i \in 1 .. n : raw[i] = stack[i]
  <2>1. 1 \in 1 .. Len(end) /\ 2 \in 1 .. Len(end)
    BY <1>1
  <2>. QED  BY <1>1, <2>1, ConcatIs
<1>3. SubSeq(raw, 1, n) = stack
  BY <1>1, ConcatParts
<1>. HIDE DEF raw, n
<1>4. raw # <<>> /\ raw[1] = stack[1] /\ raw[Len(raw)] # Blank
  <2>1. 1 \in 1 .. n
    BY <1>1
  <2>2. raw[Len(raw)] = Dec(v)
    BY <1>2
  <2>3. raw # <<>>
    BY <1>1, <1>2
  <2>. QED  BY <1>2, <2>1, <2>2, <2>3, TokensDiffer
<1>5. Trim(raw) = raw
  BY <1>2, <1>4, TrimSelf
<1>. DEFINE I == {i \in 1 .. Len(raw) : raw[i] = Blank}
<1>6. SelectLastInSeq(raw, LAMBDA t : t = Blank) = n + 1
  <2>1. n + 1 \in I /\ I \subseteq 0 .. Len(raw) /\ Len(raw) \in Nat
    BY <1>1, <1>2
  <2>2. ASSUME NEW i \in I PROVE i <= n + 1
    <3>1. i \in 1 .. n + 2 /\ raw[i] = Blank
      BY <1>2
    <3>2. i # n + 2
      BY <1>2, <3>1, TokensDiffer
    <3>. QED  BY <1>1, <3>1, <3>2
  <2>. HIDE DEF I
  <2>3. Max(I) = n + 1
    BY <2>1, <2>2, LargestIs
  <2>. QED  BY <2>1, <2>3 DEF SelectLastInSeq, I
<1>. DEFINE count == SubSeq(raw, (n + 1) + 1, Len(raw))
<1>7. Len(count) = 1 /\ count[1] = Dec(v)
  <2>1. /\ (n + 1) + 1 \in Nat /\ Len(raw) \in Nat /\ 1 <= (n + 1) + 1
        /\ (n + 1) + 1 <= Len(raw) + 1 /\ Len(raw) <= Len(raw)
        /\ Len(raw) - ((n + 1) + 1) + 1 = 1 /\ ((n + 1) + 1) + 1 - 1 = n + 2 /\ 1 \in 1 .. 1
    BY <1>1, <1>2
  <2>2. raw \in Seq(Tokens)
    BY <1>2 DEF Text
  <2>3. /\ Len(count) = Len(raw) - ((n + 1) + 1) + 1
        /\ \A i \in 1 .. Len(raw) - ((n + 1) + 1) + 1 : count[i] = raw[((n + 1) + 1) + i - 1]
    BY ONLY <2>1, <2>2, PartIs, ZenonT(30)
  <2>. HIDE DEF count
  <2>4. count[1] = raw[n + 2]
    BY ONLY <2>1, <2>3
  <2>. QED  BY <1>2, <2>1, <2>3, <2>4
<1>. HIDE DEF count
<1>8. IsInteger(count) /\ count[1][2] = v /\ ~(count[1][2] < 0)
  <2>1. count[1][1] = "dec" /\ count[1][2] = v
    BY <1>7, TokensDiffer
  <2>. QED  BY <1>7, <2>1 DEF IsInteger
<1>9. ~(Trim(raw) = <<>> \/ Head(Trim(raw)) = Hash) /\ n + 1 # 0
  <2>1. Head(raw) = raw[1]
    BY <1>2, <1>4 DEF Text
  <2>. QED  BY <1>1, <1>4, <1>5, <2>1
<1>10. Trim(SubSeq(raw, 1, (n + 1) - 1)) = stack
  <2>1. (n + 1) - 1 = n
    BY <1>1
  <2>. QED  BY <1>3, <2>1, TrimSelf DEF n
<1>11. classify_line(raw) = [kind |-> "stack", stack |-> Trim(SubSeq(raw, 1, (n + 1) - 1)),
                             count |-> count[1][2]]
  <2>. DEFINE at == SelectLastInSeq(raw, LAMBDA t : t = Blank)
  <2>1. classify_line(raw) =
            IF raw = <<>> \/ Head(raw) = Hash THEN Skip
            ELSE IF ~IsInteger(SubSeq(raw, at + 1, Len(raw))) \/ SubSeq(raw, at + 1, Len(raw))[1][2] < 0
            THEN Invalid
            ELSE IF at = 0 THEN Skip
            ELSE [kind |-> "stack", stack |-> Trim(SubSeq(raw, 1, at - 1)),
                  count |-> SubSeq(raw, at + 1, Len(raw))[1][2]]
    BY <1>5, Zenon DEF classify_line
  <2>2. at = n + 1
    BY <1>6
  <2>. HIDE DEF at
  <2>3. SubSeq(raw, at + 1, Len(raw)) = count
    BY <2>2 DEF count
  <2>. QED  BY <1>5, <1>8, <1>9, <2>1, <2>2, <2>3
<1>. QED  BY <1>8, <1>10, <1>11 DEF raw, end

-----------------------------------------------------------------------------
(* Lines of a folded text                                                  *)

\* Labels the folded format can carry.
Carried(ls) ==
    /\ ls \in Seq(Text) /\ ls # <<>>
    /\ \A k \in 1 .. Len(ls) :
          /\ ls[k] # <<>> /\ Trim(ls[k]) = ls[k]
          /\ ~Contains(ls[k], Semicolon) /\ ~Contains(ls[k], NewLine)
    /\ ls[1][1] # Hash

LineOf(ls, v) == Join(ls, Semicolon) \o <<Blank, Dec(v)>>

\* A line is read as a stack of these labels, this often.
ReadsAs(line, ls, v) ==
    /\ classify_line(line).kind = "stack" /\ classify_line(line).count = v
    /\ LabelsOf(classify_line(line)) = ls

LEMMA StackLine ==
    ASSUME NEW ls, Carried(ls), NEW v \in Nat
    PROVE  /\ LineOf(ls, v) \in Text /\ ~Contains(LineOf(ls, v), NewLine)
           /\ ReadsAs(LineOf(ls, v), ls, v)
<1>. DEFINE stack == Join(ls, Semicolon)
            N == Len(ls)
            end == <<Blank, Dec(v)>>
            line == stack \o end
            c == classify_line(line)
<1>1. /\ ls \in Seq(Text) /\ ls # <<>> /\ N \in Nat /\ 1 \in 1 .. N /\ N \in 1 .. N
      /\ \A k \in 1 .. N : ls[k] \in Text /\ ls[k] # <<>> /\ Trim(ls[k]) = ls[k]
      /\ \A k \in 1 .. N : ~Contains(ls[k], Semicolon) /\ ~Contains(ls[k], NewLine)
      /\ ls[1][1] # Hash /\ Semicolon \in Tokens
  <2>1. ls \in Seq(Text) /\ ls # <<>> => \A k \in 1 .. Len(ls) : ls[k] \in Text
    OBVIOUS
  <2>. QED  BY <2>1, MarksAreTokens DEF Carried
<1>. HIDE DEF N
<1>2. \A k \in 1 .. N : ls[k][1] # Blank /\ ls[k][Len(ls[k])] # Blank
  BY <1>1, TrimmedEnds
<1>3. /\ stack \in Text /\ stack # <<>> /\ stack[1] = ls[1][1]
      /\ stack[Len(stack)] = ls[N][Len(ls[N])]
      /\ \A i \in 1 .. Len(stack) :
            \/ stack[i] = Semicolon
            \/ \E k \in 1 .. N : \E j \in 1 .. Len(ls[k]) : stack[i] = ls[k][j]
  BY <1>1, JoinEnds DEF N
<1>4. Split(stack, Semicolon) = ls
  BY <1>1, SplitJoin DEF N
<1>. HIDE DEF stack
<1>5. ~Contains(stack, NewLine)
  <2>. SUFFICES ASSUME NEW i \in 1 .. Len(stack), stack[i] = NewLine PROVE FALSE
    BY DEF Contains
  <2>1. PICK k \in 1 .. N : \E j \in 1 .. Len(ls[k]) : stack[i] = ls[k][j]
    BY <1>3, TokensDiffer
  <2>2. PICK j \in 1 .. Len(ls[k]) : stack[i] = ls[k][j]
    BY <2>1
  <2>. QED  BY <1>1, <2>2, NotIn
<1>6. end \in Text /\ Len(end) = 2 /\ end[1] = Blank /\ end[2] = Dec(v)
  <2>1. Dec(v) \in Tokens /\ Blank \in Tokens
    BY NumbersAreTokens, MarksAreTokens
  <2>. QED  BY <2>1 DEF Text
<1>7. line \in Text /\ ~Contains(line, NewLine)
  <2>. HIDE DEF end
  <2>1. /\ line \in Text /\ Len(line) = Len(stack) + 2
        /\ \A i \in 1 .. Len(stack) : line[i] = stack[i]
        /\ \A i \in 1 .. 2 : line[Len(stack) + i] = end[i]
    <3>1. /\ line \in Text /\ Len(line) = Len(stack) + Len(end)
          /\ \A i \in 1 .. Len(stack) : line[i] = stack[i]
          /\ \A i \in 1 .. Len(end) : line[Len(stack) + i] = end[i]
      BY ONLY <1>3, <1>6, ConcatIs
    <3>. HIDE DEF line
    <3>. QED  BY <1>6, <3>1
  <2>. HIDE DEF line
  <2>2. ASSUME NEW i \in 1 .. Len(line), line[i] = NewLine PROVE FALSE
    <3>0. Len(stack) \in Nat
      BY <1>3 DEF Text
    <3>1. i \in 1 .. Len(stack) \/ i = Len(stack) + 1 \/ i = Len(stack) + 2
      BY <2>1, <3>0
    <3>2. CASE i \in 1 .. Len(stack)
      BY <1>3, <1>5, <2>1, <2>2, <3>2, NotIn
    <3>3. CASE i = Len(stack) + 1 \/ i = Len(stack) + 2
      <4>1. line[i] = end[1] \/ line[i] = end[2]
        BY <2>1, <3>3
      <4>. QED  BY <1>6, <2>2, <4>1, TokensDiffer
    <3>. QED  BY <3>1, <3>2, <3>3
  <2>. QED  BY <2>1, <2>2 DEF Contains
<1>8. c = [kind |-> "stack", stack |-> stack, count |-> v]
  <2>1. stack[1] # Blank /\ stack[1] # Hash /\ stack[Len(stack)] # Blank
    BY <1>1, <1>2, <1>3
  <2>. QED  BY <1>3, <2>1, ClassifyBack
<1>. HIDE DEF c
<1>9. c.kind = "stack" /\ c.stack = stack /\ c.count = v
  BY <1>8
<1>10. LabelsOf(c) = ls
  <2>. DEFINE trimmed == [i \in 1 .. Len(Split(c.stack, Semicolon)) |->
                             Trim(Split(c.stack, Semicolon)[i])]
              S == {i \in 1 .. Len(trimmed) : trimmed[i] # <<>>}
  <2>1. LabelsOf(c) = Chosen(trimmed, S)
    BY DEF LabelsOf, Only
  <2>2. trimmed = [i \in 1 .. N |-> Trim(ls[i])]
    BY <1>4, <1>9 DEF N
  <2>3. trimmed = ls
    <3>1. [i \in 1 .. N |-> Trim(ls[i])] = [i \in 1 .. N |-> ls[i]]
      BY <1>1
    <3>2. [i \in 1 .. N |-> ls[i]] = ls
      BY <1>1 DEF N
    <3>. QED  BY <2>2, <3>1, <3>2
  <2>. HIDE DEF trimmed
  <2>4. \A k \in 1 .. Len(ls) : k \in S
    BY <1>1, <2>3 DEF N
  <2>. HIDE DEF S
  <2>5. Chosen(ls, S) = ls
    BY ONLY <1>1, <2>4, AllChosen
  <2>. QED  BY <2>1, <2>3, <2>5
<1>. QED  BY <1>7, <1>9, <1>10 DEF ReadsAs, LineOf, c, stack

LinesOf(lss, vs) == [i \in 1 .. Len(lss) |-> LineOf(lss[i], vs[i])]

\* Stacks the folded format can carry, and how often each comes.
AllCarried(lss, vs) ==
    /\ Len(lss) \in Nat /\ lss = [i \in 1 .. Len(lss) |-> lss[i]]
    /\ \A i \in 1 .. Len(lss) : Carried(lss[i]) /\ vs[i] \in Nat

LEMMA LinesOfAre ==
    ASSUME NEW lss, NEW vs, AllCarried(lss, vs)
    PROVE  /\ LinesOf(lss, vs) \in Seq(Text) /\ Len(LinesOf(lss, vs)) = Len(lss)
           /\ \A i \in 1 .. Len(lss) :
                 /\ LinesOf(lss, vs)[i] \in Text /\ ~Contains(LinesOf(lss, vs)[i], NewLine)
                 /\ ReadsAs(LinesOf(lss, vs)[i], lss[i], vs[i])
<1>. DEFINE lines == LinesOf(lss, vs)
<1>1. Len(lss) \in Nat /\ \A i \in 1 .. Len(lss) : Carried(lss[i]) /\ vs[i] \in Nat
  BY DEF AllCarried
<1>2. lines = [i \in 1 .. Len(lss) |-> LineOf(lss[i], vs[i])]
  BY DEF LinesOf
<1>3. \A i \in 1 .. Len(lss) :
          /\ LineOf(lss[i], vs[i]) \in Text /\ ~Contains(LineOf(lss[i], vs[i]), NewLine)
          /\ ReadsAs(LineOf(lss[i], vs[i]), lss[i], vs[i])
  BY <1>1, StackLine
<1>. HIDE DEF lines
<1>4. lines \in Seq(Text) /\ Len(lines) = Len(lss)
  BY <1>1, <1>2, <1>3
<1>5. \A i \in 1 .. Len(lss) : lines[i] = LineOf(lss[i], vs[i])
  BY <1>2
<1>. QED  BY <1>3, <1>4, <1>5 DEF lines

\* What is read from those lines.
ReadOf(lss, vs) ==
    LET table == Interned(FlattenSeq(lss))
    IN  [frames |-> [i \in 1 .. Len(table) |-> parse_frame(table[i])],
         samples |-> [i \in 1 .. Len(lss) |->
             [stack |-> [j \in 1 .. Len(lss[i]) |-> IndexOf(table, lss[i][j]) - 1],
              values |-> <<vs[i]>>]],
         value_kinds |-> <<[kind |-> <<Word("samples")>>, unit |-> <<Word("count")>>]>>]

TextOf(lss, vs) == FlattenSeq(Ended(LinesOf(lss, vs)))

LEMMA LinesRead ==
    ASSUME NEW lss, NEW vs, AllCarried(lss, vs)
    PROVE  TextOf(lss, vs) \in Text /\ folded_read(TextOf(lss, vs)) = Ok(ReadOf(lss, vs))
<1>. DEFINE text == TextOf(lss, vs)
            lines == [i \in 1 .. Len(Lines(text)) |-> classify_line(Lines(text)[i])]
            kept == Only(lines, LAMBDA line : line.kind = "stack" /\ LabelsOf(line) # <<>>)
            S == {i \in 1 .. Len(lines) : lines[i].kind = "stack" /\ LabelsOf(lines[i]) # <<>>}
            table == Interned(FlattenSeq([i \in 1 .. Len(kept) |-> LabelsOf(kept[i])]))
            kinds == <<[kind |-> <<Word("samples")>>, unit |-> <<Word("count")>>]>>
            N == Len(lss)
<1>1. /\ LinesOf(lss, vs) \in Seq(Text) /\ Len(LinesOf(lss, vs)) = N
      /\ \A i \in 1 .. N : /\ ~Contains(LinesOf(lss, vs)[i], NewLine)
                           /\ ReadsAs(LinesOf(lss, vs)[i], lss[i], vs[i])
  BY LinesOfAre
<1>2. text \in Text /\ Lines(text) = LinesOf(lss, vs)
  BY <1>1, LinesBack DEF TextOf
<1>3. N \in Nat /\ lss = [i \in 1 .. N |-> lss[i]] /\ \A i \in 1 .. N : lss[i] # <<>>
  BY DEF AllCarried, Carried
<1>4. folded_read(text) =
          IF \E i \in 1 .. Len(lines) : lines[i].kind = "invalid" THEN Err
          ELSE Ok([frames |-> [i \in 1 .. Len(table) |-> parse_frame(table[i])],
                   samples |-> [i \in 1 .. Len(kept) |->
                       [stack |-> [j \in 1 .. Len(LabelsOf(kept[i])) |->
                                       IndexOf(table, LabelsOf(kept[i])[j]) - 1],
                        values |-> <<kept[i].count>>]],
                   value_kinds |-> kinds])
  BY DEF folded_read, LabelsOf
<1>5. lines = [i \in 1 .. N |-> classify_line(LinesOf(lss, vs)[i])]
  BY <1>1, <1>2
<1>. HIDE DEF text, kinds
<1>6. kept = Chosen(lines, S)
  BY DEF Only
<1>. HIDE DEF kept, lines, N
<1>7. /\ Len(lines) = N
      /\ \A i \in 1 .. N : /\ lines[i].kind = "stack" /\ lines[i].count = vs[i]
                           /\ LabelsOf(lines[i]) = lss[i]
  <2>1. Len(lines) = N /\ \A i \in 1 .. N : lines[i] = classify_line(LinesOf(lss, vs)[i])
    BY <1>3, <1>5
  <2>. QED  BY <1>1, <2>1 DEF ReadsAs
<1>8. ~\E i \in 1 .. Len(lines) : lines[i].kind = "invalid"
  BY <1>7
<1>9. kept = lines
  <2>. DEFINE X == {lines[i] : i \in 1 .. N}
  <2>1. lines \in Seq(X)
    <3>1. \A i \in 1 .. N : classify_line(LinesOf(lss, vs)[i]) = lines[i] /\ lines[i] \in X
      BY <1>5
    <3>2. lines \in [1 .. N -> X]
      <4>. HIDE DEF X
      <4>. QED  BY <1>5, <3>1
    <3>. HIDE DEF X
    <3>. QED  BY <1>3, <3>2
  <2>2. \A k \in 1 .. Len(lines) : k \in S
    BY <1>3, <1>7
  <2>. HIDE DEF S, X
  <2>. QED  BY <1>6, <2>1, <2>2, AllChosen
<1>10. [i \in 1 .. Len(kept) |-> LabelsOf(kept[i])] = lss
  <2>1. [i \in 1 .. N |-> LabelsOf(lines[i])] = [i \in 1 .. N |-> lss[i]]
    BY <1>7
  <2>. QED  BY <1>3, <1>7, <1>9, <2>1
<1>11. table = Interned(FlattenSeq(lss))
  BY <1>10
<1>. HIDE DEF table
<1>12. [i \in 1 .. Len(kept) |->
           [stack |-> [j \in 1 .. Len(LabelsOf(kept[i])) |-> IndexOf(table, LabelsOf(kept[i])[j]) - 1],
            values |-> <<kept[i].count>>]]
       = [i \in 1 .. N |->
           [stack |-> [j \in 1 .. Len(lss[i]) |-> IndexOf(table, lss[i][j]) - 1],
            values |-> <<vs[i]>>]]
  BY <1>7, <1>9
<1>13. folded_read(text) =
          Ok([frames |-> [i \in 1 .. Len(table) |-> parse_frame(table[i])],
              samples |-> [i \in 1 .. N |->
                  [stack |-> [j \in 1 .. Len(lss[i]) |-> IndexOf(table, lss[i][j]) - 1],
                   values |-> <<vs[i]>>]],
              value_kinds |-> kinds])
  BY <1>4, <1>8, <1>12
<1>. QED  BY <1>2, <1>11, <1>13 DEF ReadOf, N, kinds, text

\* r has a frame of each label, where the label was.
Reads(r, lss, vs) ==
    /\ Len(r.samples) = Len(lss)
    /\ \A i \in 1 .. Len(lss) :
          /\ r.samples[i].values = <<vs[i]>> /\ Len(r.samples[i].stack) = Len(lss[i])
          /\ \A j \in 1 .. Len(lss[i]) :
                r.frames[r.samples[i].stack[j] + 1] = parse_frame(lss[i][j])

LEMMA ReadSays ==
    ASSUME NEW lss, NEW vs, AllCarried(lss, vs)
    PROVE  Reads(ReadOf(lss, vs), lss, vs)
<1>. DEFINE r == ReadOf(lss, vs)
            table == Interned(FlattenSeq(lss))
            N == Len(lss)
<1>1. N \in Nat /\ lss = [i \in 1 .. N |-> lss[i]]
      /\ \A i \in 1 .. N : lss[i] \in Seq(Text)
  BY DEF AllCarried, Carried
<1>2. /\ r.frames = [i \in 1 .. Len(table) |-> parse_frame(table[i])]
      /\ r.samples = [i \in 1 .. N |->
             [stack |-> [j \in 1 .. Len(lss[i]) |-> IndexOf(table, lss[i][j]) - 1],
              values |-> <<vs[i]>>]]
  BY DEF ReadOf
<1>. HIDE DEF r
<1>3. lss \in Seq(Seq(Text))
  <2>. HIDE DEF N
  <2>. QED  BY <1>1 DEF N
<1>4. Len(r.samples) = N
  BY <1>1, <1>2
<1>5. ASSUME NEW i \in 1 .. N
      PROVE  /\ r.samples[i].values = <<vs[i]>> /\ Len(r.samples[i].stack) = Len(lss[i])
             /\ \A j \in 1 .. Len(lss[i]) : r.samples[i].stack[j] = IndexOf(table, lss[i][j]) - 1
  <2>. HIDE DEF table
  <2>1. r.samples[i] = [stack |-> [j \in 1 .. Len(lss[i]) |-> IndexOf(table, lss[i][j]) - 1],
                        values |-> <<vs[i]>>]
    BY <1>2
  <2>2. Len(lss[i]) \in Nat
    BY <1>1
  <2>3. /\ r.samples[i].values = <<vs[i]>>
        /\ r.samples[i].stack = [j \in 1 .. Len(lss[i]) |-> IndexOf(table, lss[i][j]) - 1]
    BY <2>1
  <2>. QED  BY <2>2, <2>3
<1>6. ASSUME NEW i \in 1 .. N, NEW j \in 1 .. Len(lss[i])
      PROVE  r.frames[r.samples[i].stack[j] + 1] = parse_frame(lss[i][j])
  <2>1. /\ IndexOf(table, lss[i][j]) \in 1 .. Len(table)
        /\ table[IndexOf(table, lss[i][j])] = lss[i][j]
    BY <1>3, InBlocks
  <2>2. r.samples[i].stack[j] = IndexOf(table, lss[i][j]) - 1
    BY <1>5
  <2>. DEFINE at == IndexOf(table, lss[i][j])
  <2>. HIDE DEF table, at
  <2>3. at \in 1 .. Len(table) /\ table[at] = lss[i][j] /\ r.samples[i].stack[j] = at - 1
    BY <2>1, <2>2 DEF at
  <2>4. (at - 1) + 1 = at
    BY <2>3
  <2>5. r.frames[at] = parse_frame(table[at])
    BY <1>2, <2>3
  <2>. QED  BY <2>3, <2>4, <2>5
<1>. HIDE DEF N, table
<1>7. Reads(r, lss, vs)
  BY <1>4, <1>5, <1>6 DEF Reads, N
<1>. QED  BY <1>7 DEF r

\* A text of such lines is found to be folded, if it has a line.
LEMMA LinesFound ==
    ASSUME NEW lss, NEW vs, AllCarried(lss, vs), lss # <<>>
    PROVE  folded_probe(TextOf(lss, vs)) = "Likely"
<1>. DEFINE text == TextOf(lss, vs)
            N == Len(lss)
            kinds == [i \in 1 .. Len(Lines(text)) |-> classify_line(Lines(text)[i]).kind]
            stacks(n) == Len(Only(SubSeq(kinds, 1, n), LAMBDA k : k = "stack"))
            seen == {i \in 1 .. Len(kinds) :
                        /\ stacks(i - 1) < PROBE_LINE_BUDGET
                        /\ i < Len(kinds) \/ Last(text) = NewLine}
<1>1. /\ LinesOf(lss, vs) \in Seq(Text) /\ Len(LinesOf(lss, vs)) = N
      /\ \A i \in 1 .. N : /\ LinesOf(lss, vs)[i] \in Text
                           /\ ~Contains(LinesOf(lss, vs)[i], NewLine)
                           /\ ReadsAs(LinesOf(lss, vs)[i], lss[i], vs[i])
  BY LinesOfAre
<1>2. text \in Text /\ Lines(text) = LinesOf(lss, vs)
  BY <1>1, LinesBack DEF TextOf
<1>3. N \in Nat /\ N # 0
  <2>1. N \in Nat /\ lss = [i \in 1 .. N |-> lss[i]]
    BY DEF AllCarried
  <2>. HIDE DEF N
  <2>2. lss \in Seq({lss[i] : i \in 1 .. N})
    BY <2>1
  <2>. QED  BY <2>1, <2>2 DEF N
<1>4. kinds = [i \in 1 .. N |-> "stack"]
  <2>1. \A i \in 1 .. N : classify_line(LinesOf(lss, vs)[i]).kind = "stack"
    BY <1>1 DEF ReadsAs
  <2>2. kinds = [i \in 1 .. N |-> classify_line(LinesOf(lss, vs)[i]).kind]
    BY <1>1, <1>2
  <2>. QED  BY <2>1, <2>2
<1>5. Judged(text) = {kinds[i] : i \in seen}
  BY DEF Judged
<1>6. text # <<>> /\ Last(text) = NewLine
  <2>. DEFINE ss == Ended(LinesOf(lss, vs))
              end == LinesOf(lss, vs)[N]
  <2>1. /\ ss \in Seq(Text) /\ Len(ss) = N
        /\ ss[N] = end \o <<NewLine>> /\ end \in Text
    <3>1. ss = [k \in 1 .. N |-> LinesOf(lss, vs)[k] \o <<NewLine>>]
      BY <1>1 DEF Ended
    <3>2. \A k \in 1 .. N : LinesOf(lss, vs)[k] \o <<NewLine>> \in Text
      BY <1>1, MarksAreTokens, AroundMark
    <3>3. N \in 1 .. N
      BY <1>3
    <3>. HIDE DEF ss, N
    <3>4. \A k \in 1 .. N : ss[k] = LinesOf(lss, vs)[k] \o <<NewLine>>
      BY ONLY <3>1
    <3>5. \A k \in 1 .. N : ss[k] \in Text
      BY ONLY <3>2, <3>4
    <3>6. ss = [k \in 1 .. N |-> ss[k]]
      BY ONLY <3>1
    <3>7. ss \in Seq(Text) /\ Len(ss) = N
      BY ONLY <1>3, <3>5, <3>6
    <3>. QED  BY <1>1, <3>3, <3>4, <3>7
  <2>. HIDE DEF end
  <2>2. /\ Len(ss[N]) = Len(end) + 1 /\ ss[N][Len(end) + 1] = NewLine /\ Len(end) \in Nat
    <3>. DEFINE e == end \o <<NewLine>>
    <3>1. Len(e) = Len(end) + 1 /\ e[Len(end) + 1] = NewLine
      BY <2>1, MarksAreTokens, AroundMark
    <3>2. Len(end) \in Nat
      BY <2>1 DEF Text
    <3>3. ss[N] = e
      BY <2>1
    <3>. HIDE DEF e, ss
    <3>. QED  BY <3>1, <3>2, <3>3
  <2>3. text = FlattenSeq(ss)
    BY DEF TextOf
  <2>. HIDE DEF ss, N, text
  <2>4. PICK o : /\ Laid(FlattenSeq(ss), ss, o)
                 /\ \A k \in 1 .. N : o[k - 1] \in Nat /\ o[k] \in Nat
    BY <2>1, LaidOut
  <2>5. N \in 1 .. N
    BY <1>3
  <2>6. /\ Len(text) = o[N] /\ o[N] = o[N - 1] + Len(ss[N]) /\ o[N - 1] \in Nat
        /\ \A i \in 1 .. Len(ss[N]) : text[o[N - 1] + i] = ss[N][i]
    BY <2>1, <2>3, <2>4, <2>5 DEF Laid
  <2>7. Len(end) + 1 \in 1 .. Len(ss[N]) /\ Len(text) = o[N - 1] + (Len(end) + 1)
    BY ONLY <2>2, <2>6
  <2>8. text[Len(text)] = NewLine
    BY ONLY <2>2, <2>6, <2>7
  <2>9. Len(text) # 0
    BY ONLY <2>2, <2>6, <2>7
  <2>. QED  BY <2>8, <2>9 DEF Last
<1>7. 1 \in seen
  <2>1. kinds \in Seq({"stack"}) /\ Len(kinds) = N
    BY <1>3, <1>4
  <2>. HIDE DEF kinds
  <2>2. SubSeq(kinds, 1, 0) = <<>>
    BY <2>1
  <2>3. stacks(0) = 0
    <3>. DEFINE e == SubSeq(kinds, 1, 0)
                S == {i \in 1 .. Len(e) : e[i] = "stack"}
    <3>1. Only(e, LAMBDA k : k = "stack") = Chosen(e, S)
      BY DEF Only
    <3>2. e = <<>> /\ e \in Seq({"stack"}) /\ \A k \in 1 .. Len(e) : k \in S
      BY <2>2
    <3>. HIDE DEF e, S
    <3>3. Chosen(e, S) = e
      BY <3>2, AllChosen
    <3>. QED  BY <3>1, <3>2, <3>3 DEF e
  <2>. HIDE DEF stacks
  <2>4. stacks(1 - 1) < PROBE_LINE_BUDGET
    BY <2>3, FoldedAssumption
  <2>. QED  BY <1>3, <1>6, <2>1, <2>4
<1>8. Judged(text) = {"stack"}
  <2>1. \A i \in seen : kinds[i] = "stack"
    <3>1. Len(kinds) = N
      BY <1>3, <1>4
    <3>. QED  BY <1>4, <3>1
  <2>. HIDE DEF seen, kinds
  <2>. QED  BY <1>5, <1>7, <2>1
<1>. HIDE DEF text
<1>9. folded_probe(text) = "Likely"
  BY <1>6, <1>8 DEF folded_probe
<1>. QED  BY <1>9 DEF text

Counts(p) == [i \in 1 .. Len(p.samples) |-> p.samples[i].values[1]]

\* The labels of a profile that can be carried.
LEMMA LabelsCarried ==
    ASSUME NEW p, p \in Profiles, validate(p), Tame(p)
    PROVE  /\ AllCarried(Labels(p), Counts(p))
           /\ \A i \in 1 .. Len(p.samples) :
                 Labels(p)[i] = [j \in 1 .. Len(p.samples[i].stack) |->
                                    render_frame(p.frames[p.samples[i].stack[j] + 1])]
<1>. DEFINE N == Len(p.samples)
            Smp == [stack : Seq(Nat), values : Seq(Int)]
<1>1. p.frames \in Seq(Frames) /\ p.samples \in Seq(Smp) /\ N \in Nat /\ Len(p.frames) \in Nat
  <2>1. p.frames \in Seq(Frames) /\ p.samples \in Seq(Smp)
    BY DEF Profiles
  <2>. QED  BY <2>1
<1>2. /\ Stacks(p) = [i \in 1 .. N |-> Stack(p, p.samples[i])]
      /\ Labels(p) = [i \in 1 .. N |->
             [j \in 1 .. Len(p.samples[i].stack) |-> render_frame(Stacks(p)[i][j])]]
      /\ Counts(p) = [i \in 1 .. N |-> p.samples[i].values[1]]
  BY DEF Stacks, Labels, Counts
<1>3. Labels(p) = [i \in 1 .. N |-> Labels(p)[i]] /\ Len(Labels(p)) = N
  <2>. HIDE DEF N
  <2>. QED  BY <1>1, <1>2
<1>4. ASSUME NEW i \in 1 .. N
      PROVE  /\ Labels(p)[i] = [j \in 1 .. Len(p.samples[i].stack) |->
                                   render_frame(p.frames[p.samples[i].stack[j] + 1])]
             /\ Carried(Labels(p)[i]) /\ Counts(p)[i] \in Nat
  <2>. DEFINE s == p.samples[i]
              ls == Labels(p)[i]
              n == Len(s.stack)
  <2>1. s \in Smp /\ s \in ToSet(p.samples)
    <3>. HIDE DEF Smp
    <3>. QED  BY <1>1, ElementIs
  <2>2. s.stack \in Seq(Nat) /\ s.values \in Seq(Int) /\ n \in Nat
        /\ Len(s.values) \in Nat
    BY <2>1
  <2>3. /\ s.values # <<>> /\ s.values[1] >= 0 /\ s.stack # <<>>
        /\ \A label \in ToSet(ls) :
              /\ label # <<>> /\ Trim(label) = label
              /\ ~Contains(label, Semicolon) /\ ~Contains(label, NewLine)
        /\ Head(ls[1]) # Hash
    BY DEF Tame
  <2>4. ls = [j \in 1 .. n |-> render_frame(p.frames[s.stack[j] + 1])]
    <3>1. Stacks(p)[i] = [j \in 1 .. n |-> p.frames[s.stack[j] + 1]]
      BY <1>2 DEF Stack
    <3>2. ls = [j \in 1 .. n |-> render_frame(Stacks(p)[i][j])]
      BY <1>2
    <3>. HIDE DEF ls, n, s
    <3>. QED  BY <3>1, <3>2
  <2>5. \A j \in 1 .. n : render_frame(p.frames[s.stack[j] + 1]) \in Text
    <3>. SUFFICES ASSUME NEW j \in 1 .. n
                  PROVE  render_frame(p.frames[s.stack[j] + 1]) \in Text
      OBVIOUS
    <3>1. s.stack[j] \in Nat /\ s.stack[j] \in ToSet(s.stack)
      BY <2>2, ElementIs
    <3>2. s.stack[j] < Len(p.frames)
      BY <2>1, <3>1 DEF validate
    <3>3. s.stack[j] + 1 \in 1 .. Len(p.frames)
      <4>1. \A n1, id1 \in Nat : id1 < n1 => id1 + 1 \in 1 .. n1
        OBVIOUS
      <4>. QED  BY ONLY <1>1, <3>1, <3>2, <4>1
    <3>4. p.frames[s.stack[j] + 1] \in Frames
      BY <1>1, <3>3, ElementIs
    <3>. QED  BY <3>4, RenderedIs
  <2>6. Counts(p)[i] \in Nat
    <3>1. 1 \in 1 .. Len(s.values)
      BY <2>2, <2>3
    <3>2. s.values[1] \in Int
      BY <2>2, <3>1
    <3>3. Counts(p)[i] = s.values[1]
      BY <1>2
    <3>. QED  BY <2>3, <3>2, <3>3
  <2>7. n # 0
    BY <2>2, <2>3
  <2>. HIDE DEF ls, n, s
  <2>8. ls \in Seq(Text) /\ Len(ls) = n
    BY <2>2, <2>4, <2>5
  <2>9. ls # <<>> /\ 1 \in 1 .. Len(ls)
    BY <2>2, <2>7, <2>8
  <2>10. \A k \in 1 .. Len(ls) : ls[k] \in ToSet(ls)
    BY <2>8, ElementIs
  <2>11. ls[1][1] # Hash
    <3>1. Head(ls[1]) = ls[1][1]
      BY <2>3, <2>8, <2>9, <2>10 DEF Text
    <3>. QED  BY <2>3, <3>1
  <2>12. Carried(ls)
    BY <2>3, <2>8, <2>9, <2>10, <2>11 DEF Carried
  <2>. QED  BY <2>4, <2>6, <2>12 DEF ls, n, s
<1>. HIDE DEF N
<1>5. AllCarried(Labels(p), Counts(p))
  BY <1>1, <1>3, <1>4 DEF AllCarried
<1>. QED  BY <1>4, <1>5 DEF N

LEMMA WrittenLines ==
    ASSUME NEW p, p \in Profiles, validate(p), Tame(p)
    PROVE  folded_write(p) = Ok(TextOf(Labels(p), Counts(p)))
<1>. DEFINE N == Len(p.samples)
            Smp == [stack : Seq(Nat), values : Seq(Int)]
            labels(s) == [j \in 1 .. Len(s.stack) |-> render_frame(p.frames[s.stack[j] + 1])]
            line(s) == Join(labels(s), Semicolon) \o <<Blank, Dec(s.values[1]), NewLine>>
            ss == [i \in 1 .. N |-> line(p.samples[i])]
            bad == \E s \in ToSet(p.samples) :
                      s.values = <<>> \/ \E id \in ToSet(s.stack) : id >= Len(p.frames)
<1>1. p.samples \in Seq(Smp) /\ N \in Nat /\ Len(p.frames) \in Nat
  <2>1. p.samples \in Seq(Smp) /\ p.frames \in Seq(Frames)
    BY DEF Profiles
  <2>. QED  BY <2>1
<1>2. folded_write(p) = IF bad THEN Err ELSE Ok(FlattenSeq(ss))
  BY DEF folded_write
<1>3. ~bad
  <2>. SUFFICES ASSUME NEW s \in ToSet(p.samples)
                PROVE  s.values # <<>> /\ \A id \in ToSet(s.stack) : ~(id >= Len(p.frames))
    OBVIOUS
  <2>1. PICK i \in 1 .. N : s = p.samples[i]
    <3>. HIDE DEF Smp, N
    <3>1. DOMAIN p.samples = 1 .. N
      BY <1>1 DEF N
    <3>. QED  BY <3>1 DEF ToSet
  <2>2. s.values # <<>>
    BY <2>1 DEF Tame
  <2>3. s \in Smp
    <3>. HIDE DEF Smp
    <3>. QED  BY <1>1, MemberIs
  <2>4. \A id \in ToSet(s.stack) : id < Len(p.frames) /\ id \in Nat
    BY <2>3, SMTT(30) DEF validate, ToSet
  <2>. QED  BY <1>1, <2>2, <2>4
<1>. HIDE DEF bad
<1>4. /\ AllCarried(Labels(p), Counts(p))
      /\ \A i \in 1 .. N : Labels(p)[i] = labels(p.samples[i])
  BY LabelsCarried
<1>5. Len(Labels(p)) = N /\ \A i \in 1 .. N : Counts(p)[i] = p.samples[i].values[1]
  <2>1. Len(Labels(p)) = N
    BY <1>1 DEF Labels
  <2>. QED  BY <2>1 DEF Counts
<1>. DEFINE lines == LinesOf(Labels(p), Counts(p))
<1>6. lines = [i \in 1 .. N |-> LineOf(Labels(p)[i], Counts(p)[i])]
  BY <1>5 DEF LinesOf
<1>7. /\ lines \in Seq(Text) /\ Len(lines) = N
  BY <1>4, <1>5, LinesOfAre
<1>8. \A i \in 1 .. N : line(p.samples[i]) = lines[i] \o <<NewLine>>
  <2>. SUFFICES ASSUME NEW i \in 1 .. N PROVE line(p.samples[i]) = lines[i] \o <<NewLine>>
    OBVIOUS
  <2>. DEFINE j == Join(labels(p.samples[i]), Semicolon)
              v == p.samples[i].values[1]
  <2>1. lines[i] = j \o <<Blank, Dec(v)>>
    BY <1>4, <1>5, <1>6 DEF LineOf
  <2>2. line(p.samples[i]) = j \o <<Blank, Dec(v), NewLine>>
    OBVIOUS
  <2>3. j \in Seq(Tokens)
    <3>1. Carried(Labels(p)[i])
      BY <1>4, <1>5 DEF AllCarried
    <3>2. labels(p.samples[i]) \in Seq(Text)
      BY <1>4, <3>1 DEF Carried
    <3>. HIDE DEF labels
    <3>3. j \in Text
      BY <3>2, MarksAreTokens, JoinedIs
    <3>. QED  BY <3>3 DEF Text
  <2>. HIDE DEF j, v, lines, line
  <2>4. Dec(v) \in Tokens /\ Blank \in Tokens /\ NewLine \in Tokens
    <3>1. v \in Int
      BY <1>4, <1>5 DEF AllCarried, v
    <3>. QED  BY <3>1, NumbersAreTokens, MarksAreTokens
  <2>5. (j \o <<Blank, Dec(v)>>) \o <<NewLine>> = j \o <<Blank, Dec(v), NewLine>>
    <3>. DEFINE a == <<Blank, Dec(v)>>
                b == <<NewLine>>
    <3>1. a \in Seq(Tokens) /\ b \in Seq(Tokens)
      BY ONLY <2>4
    <3>2. a \o b = <<Blank, Dec(v), NewLine>>
      <4>. DEFINE d == a \o b
                  e == <<Blank, Dec(v), NewLine>>
      <4>1. Len(a) = 2 /\ Len(b) = 1 /\ a[1] = Blank /\ a[2] = Dec(v) /\ b[1] = NewLine
        OBVIOUS
      <4>2. /\ e \in Seq(Tokens) /\ Len(e) = 3
            /\ e[1] = Blank /\ e[2] = Dec(v) /\ e[3] = NewLine
        BY ONLY <2>4
      <4>. HIDE DEF a, b
      <4>3. d \in Seq(Tokens) /\ Len(d) = 3 /\ d[1] = a[1] /\ d[2] = a[2] /\ d[3] = b[1]
        <5>1. /\ d \in Seq(Tokens) /\ Len(d) = Len(a) + Len(b)
              /\ \A i1 \in 1 .. Len(a) : d[i1] = a[i1]
              /\ \A i1 \in 1 .. Len(b) : d[Len(a) + i1] = b[i1]
          BY ONLY <3>1, ConcatIs DEF Text
        <5>2. 1 \in 1 .. 2 /\ 2 \in 1 .. 2 /\ 1 \in 1 .. 1 /\ 2 + 1 = 3
          OBVIOUS
        <5>. HIDE DEF d
        <5>3. d[2 + 1] = b[1]
          BY ONLY <4>1, <5>1, <5>2
        <5>. QED  BY ONLY <4>1, <5>1, <5>2, <5>3
      <4>. HIDE DEF d, e
      <4>4. \A i1 \in 1 .. 3 : d[i1] = e[i1]
        <5>1. \A i1 \in 1 .. 3 : i1 = 1 \/ i1 = 2 \/ i1 = 3
          OBVIOUS
        <5>. QED  BY ONLY <4>1, <4>2, <4>3, <5>1
      <4>5. d = e
        BY ONLY <4>2, <4>3, <4>4
      <4>. QED  BY ONLY <4>5 DEF d, e
    <3>. HIDE DEF a, b
    <3>3. (j \o a) \o b = j \o (a \o b)
      BY ONLY <2>3, <3>1
    <3>. QED  BY ONLY <3>2, <3>3 DEF a, b
  <2>. QED  BY <2>1, <2>2, <2>5
<1>9. ss = Ended(lines)
  <2>1. Ended(lines) = [k \in 1 .. N |-> lines[k] \o <<NewLine>>]
    BY <1>7 DEF Ended
  <2>. HIDE DEF line, lines
  <2>. QED  BY <1>8, <2>1
<1>. QED  BY <1>2, <1>3, <1>9 DEF TextOf

-----------------------------------------------------------------------------
(* Labels and their frames                                                 *)

\* Where a label may have a note, and where one may begin.
RestOf(label) == IF label # <<>> /\ Last(label) = Close THEN Front(label) ELSE <<>>
OpensOf(rest) == {i \in 1 .. Len(rest) - 1 : rest[i] = Blank /\ rest[i + 1] = Open}

IsHex(symbol) == Len(symbol) = 1 /\ symbol[1][1] = "hex"

\* A frame of this symbol and this note.
FrameOf(label, symbol, noted, note) ==
    LET place == split_file_line(note)
    IN  [raw |-> label,
         function |-> IF IsHex(symbol) \/ symbol = <<>> THEN NoText ELSE symbol,
         address |-> IF IsHex(symbol) THEN symbol[1][2] ELSE NoNumber,
         file |-> IF place = <<>> THEN NoText ELSE place[1].file,
         line |-> IF place = <<>> THEN NoNumber ELSE place[1].line,
         module |-> IF noted /\ place = <<>> THEN note ELSE NoText]

LEMMA RestIs ==
    ASSUME NEW label \in Text
    PROVE  /\ RestOf(label) \in Text /\ Len(RestOf(label)) \in Nat
           /\ Len(RestOf(label)) <= Len(label) /\ Len(label) \in Nat
<1>. DEFINE rest == RestOf(label)
<1>1. Len(label) \in Nat /\ label \in Seq(Tokens)
  BY DEF Text
<1>2. CASE label # <<>> /\ Last(label) = Close
  <2>1. rest = SubSeq(label, 1, Len(label) - 1)
    BY <1>2 DEF Front, RestOf
  <2>2. /\ Len(label) - 1 \in Nat /\ 1 <= (Len(label) - 1) + 1 /\ Len(label) - 1 <= Len(label)
        /\ 1 \in Nat /\ 1 <= 1 /\ (Len(label) - 1) - 1 + 1 = Len(label) - 1
    BY <1>1, <1>2
  <2>3. /\ SubSeq(label, 1, Len(label) - 1) \in Seq(Tokens)
        /\ Len(SubSeq(label, 1, Len(label) - 1)) = (Len(label) - 1) - 1 + 1
    BY ONLY <1>1, <2>2, PartIs
  <2>4. rest \in Text /\ Len(rest) = Len(label) - 1
    BY <2>1, <2>2, <2>3 DEF Text
  <2>. HIDE DEF rest
  <2>5. Len(rest) \in Nat /\ Len(rest) <= Len(label)
    BY <2>2, <2>4
  <2>. QED  BY <1>1, <2>4, <2>5 DEF rest
<1>3. CASE ~(label # <<>> /\ Last(label) = Close)
  <2>1. rest = <<>>
    BY <1>3 DEF RestOf
  <2>2. Len(rest) = 0
    BY <2>1
  <2>. QED  BY <1>1, <2>1, <2>2, NoTextIsText
<1>. QED  BY <1>2, <1>3

\* What parse_frame finds: a label with no note, or its last one.
LEMMA ParseIs ==
    ASSUME NEW label \in Text
    PROVE  /\ OpensOf(RestOf(label)) = {} =>
                 parse_frame(label) = FrameOf(label, Trim(label), FALSE, <<>>)
           /\ \A at \in OpensOf(RestOf(label)) :
                 (\A j \in OpensOf(RestOf(label)) : j <= at) =>
                     parse_frame(label) =
                         FrameOf(label, Trim(SubSeq(label, 1, at - 1)), TRUE,
                                 SubSeq(RestOf(label), at + 2, Len(RestOf(label))))
<1>. DEFINE rest == RestOf(label)
            opens == OpensOf(rest)
            open == IF opens = {} THEN Len(label) + 1
                    ELSE CHOOSE i \in opens : \A j \in opens : j <= i
            symbol == Trim(SubSeq(label, 1, open - 1))
            annotation == SubSeq(rest, open + 2, Len(rest))
<1>1. parse_frame(label) = FrameOf(label, symbol, opens # {}, annotation)
  BY DEF parse_frame, FrameOf, IsHex, RestOf, OpensOf
<1>2. rest \in Text /\ Len(rest) \in Nat /\ Len(rest) <= Len(label) /\ Len(label) \in Nat
  BY RestIs
<1>3. ASSUME opens = {} PROVE parse_frame(label) = FrameOf(label, Trim(label), FALSE, <<>>)
  <2>1. open = Len(label) + 1
    BY <1>3
  <2>. HIDE DEF open, rest, opens
  <2>2. open - 1 = Len(label) /\ open + 2 \in Nat /\ open + 2 > Len(rest)
    BY <1>2, <2>1
  <2>3. SubSeq(label, 1, open - 1) = label
    BY <2>2, WholeIs
  <2>4. annotation = <<>>
    BY <1>2, <2>2 DEF Text
  <2>5. (opens # {}) = FALSE
    BY <1>3
  <2>. QED  BY <1>1, <2>3, <2>4, <2>5
<1>4. ASSUME NEW at \in opens, \A j \in opens : j <= at
      PROVE  parse_frame(label) =
                 FrameOf(label, Trim(SubSeq(label, 1, at - 1)), TRUE, SubSeq(rest, at + 2, Len(rest)))
  <2>1. opens \subseteq 0 .. Len(rest)
    BY DEF OpensOf
  <2>. DEFINE top == CHOOSE i \in opens : \A j \in opens : j <= i
  <2>2. open = top
    OBVIOUS
  <2>. HIDE DEF opens
  <2>3. top \in opens /\ \A j \in opens : j <= top
    BY <1>4
  <2>. HIDE DEF top, open
  <2>4. open = at
    <3>1. top <= at /\ at <= top /\ top \in 0 .. Len(rest) /\ at \in 0 .. Len(rest)
      BY <1>4, <2>1, <2>3
    <3>. QED  BY ONLY <1>2, <2>2, <3>1
  <2>5. (opens # {}) = TRUE
    BY <1>4
  <2>. QED  BY <1>1, <2>4, <2>5
<1>. QED  BY <1>3, <1>4

LEMMA NoPlace == split_file_line(<<>>) = <<>>
<1>. DEFINE I == {i \in 1 .. Len(<<>>) : <<>>[i] = Colon}
            at == SelectLastInSeq(<<>>, LAMBDA t : t = Colon)
<1>1. I = {}
  OBVIOUS
<1>2. at = 0
  BY <1>1 DEF SelectLastInSeq
<1>. HIDE DEF at
<1>3. ~(at > 1)
  BY <1>2
<1>. QED  BY <1>3 DEF split_file_line, at

\* What a label that is its own function looks like.
LEMMA FunctionIs ==
    ASSUME NEW label \in Text, label # NoText, parse_frame(label).function = label
    PROVE  OpensOf(RestOf(label)) = {} /\ Trim(label) = label /\ label # <<>> /\ ~IsHex(label)
<1>. DEFINE rest == RestOf(label)
            opens == OpensOf(rest)
<1>1. rest \in Text /\ Len(rest) \in Nat /\ Len(rest) <= Len(label) /\ Len(label) \in Nat
  BY RestIs
<1>2. \A symbol, noted, note :
          FrameOf(label, symbol, noted, note).function =
              IF IsHex(symbol) \/ symbol = <<>> THEN NoText ELSE symbol
  BY DEF FrameOf
<1>3. opens = {}
  <2>. SUFFICES ASSUME opens # {} PROVE FALSE
    OBVIOUS
  <2>1. opens \subseteq 0 .. Len(rest) /\ opens \subseteq 1 .. Len(rest) - 1
    BY <1>1 DEF OpensOf
  <2>2. PICK at \in opens : \A j \in opens : j <= at
    <3>. HIDE DEF opens, rest
    <3>. QED  BY <1>1, <2>1, Largest
  <2>. DEFINE part == SubSeq(label, 1, at - 1)
              note == SubSeq(rest, at + 2, Len(rest))
  <2>3. parse_frame(label) = FrameOf(label, Trim(part), TRUE, note)
    BY <2>2, ParseIs
  <2>4. label = Trim(part)
    <3>. DEFINE symbol == Trim(part)
    <3>1. FrameOf(label, symbol, TRUE, note).function =
              IF IsHex(symbol) \/ symbol = <<>> THEN NoText ELSE symbol
      BY <1>2
    <3>. HIDE DEF part, note
    <3>2. label = FrameOf(label, symbol, TRUE, note).function
      BY <2>3
    <3>. HIDE DEF symbol
    <3>. QED  BY <3>1, <3>2 DEF symbol
  <2>5. part \in Text /\ Len(part) = at - 1 /\ at - 1 < Len(label)
    <3>1. at - 1 \in Nat /\ 1 \in Nat /\ 1 <= 1 /\ 1 <= (at - 1) + 1 /\ at - 1 <= Len(label)
          /\ (at - 1) - 1 + 1 = at - 1 /\ at - 1 < Len(label)
      BY <1>1, <2>1
    <3>2. label \in Seq(Tokens)
      BY DEF Text
    <3>3. part \in Seq(Tokens) /\ Len(part) = (at - 1) - 1 + 1
      BY ONLY <3>1, <3>2, PartIs
    <3>. QED  BY <3>1, <3>3 DEF Text
  <2>. HIDE DEF part
  <2>6. Len(Trim(part)) <= Len(part) /\ Trim(part) \in Text
    BY <2>5, TrimShorter
  <2>7. Len(label) <= at - 1
    BY <2>4, <2>5, <2>6
  <2>8. at \in Nat
    BY <1>1, <2>1
  <2>. QED  BY ONLY <1>1, <2>5, <2>7, <2>8
<1>4. parse_frame(label) = FrameOf(label, Trim(label), FALSE, <<>>)
  BY <1>3, ParseIs
<1>5. label = IF IsHex(Trim(label)) \/ Trim(label) = <<>> THEN NoText ELSE Trim(label)
  <2>. DEFINE symbol == Trim(label)
  <2>1. FrameOf(label, symbol, FALSE, <<>>).function =
            IF IsHex(symbol) \/ symbol = <<>> THEN NoText ELSE symbol
    BY <1>2
  <2>2. label = FrameOf(label, symbol, FALSE, <<>>).function
    BY <1>4
  <2>. HIDE DEF symbol
  <2>. QED  BY <2>1, <2>2 DEF symbol
<1>. QED  BY <1>3, <1>5

\* What may stand for a frame: its function, or else its address.
IsSymbol(symbol, function, address) ==
    /\ symbol \in Text /\ symbol # <<>> /\ Trim(symbol) = symbol /\ OpensOf(RestOf(symbol)) = {}
    /\ \/ function = symbol /\ address = NoNumber /\ ~IsHex(symbol)
       \/ function = NoText /\ address \in Nat /\ symbol = <<Hex(address)>>

\* f is made of these fields.
HasFields(f, function, address, name, number, module) ==
    [f EXCEPT !.raw = <<>>] =
        [raw |-> <<>>, function |-> function, file |-> name,
         line |-> number, module |-> module, address |-> address]

LEMMA FrameOfSymbol ==
    ASSUME NEW label, NEW symbol, NEW function, NEW address, NEW noted \in BOOLEAN, NEW note,
           IsSymbol(symbol, function, address)
    PROVE  HasFields(FrameOf(label, symbol, noted, note), function, address,
                     IF split_file_line(note) = <<>> THEN NoText ELSE split_file_line(note)[1].file,
                     IF split_file_line(note) = <<>> THEN NoNumber ELSE split_file_line(note)[1].line,
                     IF noted /\ split_file_line(note) = <<>> THEN note ELSE NoText)
<1>. DEFINE place == split_file_line(note)
<1>1. /\ (IF IsHex(symbol) \/ symbol = <<>> THEN NoText ELSE symbol) = function
      /\ (IF IsHex(symbol) THEN symbol[1][2] ELSE NoNumber) = address
  <2>1. CASE function = symbol /\ address = NoNumber /\ ~IsHex(symbol)
    BY <2>1 DEF IsSymbol
  <2>2. CASE function = NoText /\ address \in Nat /\ symbol = <<Hex(address)>>
    <3>1. Len(symbol) = 1 /\ symbol[1] = Hex(address)
      BY <2>2
    <3>2. IsHex(symbol) /\ symbol[1][2] = address
      BY <3>1, TokensDiffer DEF IsHex
    <3>. QED  BY <2>2, <3>2
  <2>. QED  BY <2>1, <2>2 DEF IsSymbol
<1>2. FrameOf(label, symbol, noted, note) =
          [raw |-> label, function |-> function, address |-> address,
           file |-> IF place = <<>> THEN NoText ELSE place[1].file,
           line |-> IF place = <<>> THEN NoNumber ELSE place[1].line,
           module |-> IF noted /\ place = <<>> THEN note ELSE NoText]
  BY <1>1 DEF FrameOf
<1>. DEFINE a == IF place = <<>> THEN NoText ELSE place[1].file
            b == IF place = <<>> THEN NoNumber ELSE place[1].line
            c == IF noted /\ place = <<>> THEN note ELSE NoText
<1>. HIDE DEF a, b, c
<1>3. FrameOf(label, symbol, noted, note) =
          [raw |-> label, function |-> function, address |-> address,
           file |-> a, line |-> b, module |-> c]
  BY <1>2 DEF a, b, c
<1>4. HasFields(FrameOf(label, symbol, noted, note), function, address, a, b, c)
  BY <1>3 DEF HasFields
<1>. QED  BY <1>4 DEF a, b, c

\* A symbol alone.
LEMMA ParsePlain ==
    ASSUME NEW symbol, NEW function, NEW address, IsSymbol(symbol, function, address)
    PROVE  HasFields(parse_frame(symbol), function, address, NoText, NoNumber, NoText)
<1>1. parse_frame(symbol) = FrameOf(symbol, symbol, FALSE, <<>>)
  BY ParseIs DEF IsSymbol
<1>2. HasFields(FrameOf(symbol, symbol, FALSE, <<>>), function, address,
                IF split_file_line(<<>>) = <<>> THEN NoText ELSE split_file_line(<<>>)[1].file,
                IF split_file_line(<<>>) = <<>> THEN NoNumber ELSE split_file_line(<<>>)[1].line,
                IF FALSE /\ split_file_line(<<>>) = <<>> THEN <<>> ELSE NoText)
  BY FrameOfSymbol
<1>. QED  BY <1>1, <1>2, NoPlace

\* A text that another begins with.
LEMMA PrefixIs ==
    ASSUME NEW text \in Text, NEW a \in Text, Len(a) <= Len(text),
           \A i \in 1 .. Len(a) : text[i] = a[i]
    PROVE  SubSeq(text, 1, Len(a)) = a
<1>. DEFINE b == SubSeq(text, 1, Len(a))
<1>1. text \in Seq(Tokens) /\ a \in Seq(Tokens) /\ Len(a) \in Nat
  BY DEF Text
<1>2. b \in Seq(Tokens) /\ Len(b) = Len(a) /\ \A i \in 1 .. Len(a) : b[i] = text[i]
  <2>1. /\ 1 \in Nat /\ 1 <= 1 /\ 1 <= Len(a) + 1 /\ Len(a) - 1 + 1 = Len(a)
        /\ \A i \in 1 .. Len(a) : 1 + i - 1 = i
    BY <1>1
  <2>. QED  BY ONLY <1>1, <2>1, PartIs, Len(a) <= Len(text)
<1>. HIDE DEF b
<1>3. b = a
  BY <1>1, <1>2
<1>. QED  BY <1>3 DEF b

\* No blank and parenthesis that could be taken for the start of a note.
Plain(note) == ~\E i \in 1 .. Len(note) - 1 : note[i] = Blank /\ note[i + 1] = Open

NotedLabel(symbol, note) == symbol \o <<Blank, Open>> \o note \o <<Close>>

\* Where the parts of such a label are.
LEMMA NotedIs ==
    ASSUME NEW symbol \in Text, NEW note \in Text
    PROVE  LET label == NotedLabel(symbol, note)
               body == symbol \o <<Blank, Open>> \o note
               n == Len(symbol)
           IN  /\ label \in Text /\ RestOf(label) = body /\ body \in Text
               /\ Len(body) = n + 2 + Len(note) /\ SubSeq(label, 1, n) = symbol
               /\ body[n + 1] = Blank /\ body[n + 2] = Open
               /\ \A i \in 1 .. Len(note) : body[n + 2 + i] = note[i]
               /\ SubSeq(body, n + 3, Len(body)) = note
<1>. DEFINE mid == <<Blank, Open>>
            head == symbol \o mid
            body == head \o note
            end == <<Close>>
            label == body \o end
            n == Len(symbol)
<1>0. NotedLabel(symbol, note) = label
  BY DEF NotedLabel
<1>1. /\ mid \in Text /\ Len(mid) = 2 /\ mid[1] = Blank /\ mid[2] = Open
      /\ end \in Text /\ Len(end) = 1 /\ end[1] = Close
      /\ n \in Nat /\ Len(note) \in Nat
  BY MarksAreTokens DEF Text
<1>. HIDE DEF mid, end
<1>2. /\ head \in Text /\ Len(head) = n + Len(mid)
      /\ \A i \in 1 .. n : head[i] = symbol[i]
      /\ \A i \in 1 .. Len(mid) : head[n + i] = mid[i]
  BY ONLY <1>1, symbol \in Text, ConcatIs
<1>. HIDE DEF head
<1>3. /\ body \in Text /\ Len(body) = Len(head) + Len(note)
      /\ \A i \in 1 .. Len(head) : body[i] = head[i]
      /\ \A i \in 1 .. Len(note) : body[Len(head) + i] = note[i]
      /\ SubSeq(body, Len(head) + 1, Len(head) + Len(note)) = note
  BY ONLY <1>2, note \in Text, ConcatIs, ConcatParts
<1>. HIDE DEF body
<1>4. /\ label \in Text /\ Len(label) = Len(body) + Len(end)
      /\ \A i \in 1 .. Len(body) : label[i] = body[i]
      /\ \A i \in 1 .. Len(end) : label[Len(body) + i] = end[i]
      /\ SubSeq(label, 1, Len(body)) = body
  BY ONLY <1>1, <1>3, ConcatIs, ConcatParts
<1>. HIDE DEF label
<1>5. Len(head) = n + 2 /\ Len(body) = n + 2 + Len(note) /\ Len(label) = Len(body) + 1
  BY ONLY <1>1, <1>2, <1>3, <1>4
<1>6. RestOf(label) = body
  <2>1. label[Len(label)] = Close
    <3>1. 1 \in 1 .. Len(end)
      BY <1>1
    <3>2. label[Len(body) + 1] = Close
      BY ONLY <1>1, <1>4, <3>1
    <3>. QED  BY <1>5, <3>2
  <2>2. Len(label) # 0 /\ Len(label) - 1 = Len(body)
    BY ONLY <1>1, <1>5
  <2>3. label # <<>>
    BY <2>2
  <2>. QED  BY <1>4, <2>1, <2>2, <2>3 DEF RestOf, Last, Front
<1>7. SubSeq(label, 1, n) = symbol
  <2>1. n <= Len(label) /\ \A i \in 1 .. n : i \in 1 .. Len(head) /\ i \in 1 .. Len(body)
    BY ONLY <1>1, <1>5
  <2>2. \A i \in 1 .. n : label[i] = symbol[i]
    BY ONLY <1>2, <1>3, <1>4, <2>1
  <2>. QED  BY <1>4, <2>1, <2>2, PrefixIs
<1>8. body[n + 1] = Blank /\ body[n + 2] = Open
  <2>1. /\ n + 1 \in 1 .. Len(head) /\ n + 2 \in 1 .. Len(head)
        /\ 1 \in 1 .. Len(mid) /\ 2 \in 1 .. Len(mid)
    BY ONLY <1>1, <1>5
  <2>2. head[n + 1] = mid[1] /\ head[n + 2] = mid[2]
    BY ONLY <1>2, <2>1
  <2>. QED  BY ONLY <1>1, <1>3, <2>1, <2>2
<1>9. SubSeq(body, n + 3, Len(body)) = note
  <2>1. n + 3 = Len(head) + 1 /\ Len(body) = Len(head) + Len(note)
    BY ONLY <1>1, <1>5
  <2>. QED  BY ONLY <1>3, <2>1
<1>10. \A i \in 1 .. Len(note) : body[n + 2 + i] = note[i]
  BY ONLY <1>3, <1>5
<1>11. symbol \o <<Blank, Open>> \o note = body
  BY DEF body, head, mid
<1>. QED  BY <1>0, <1>3, <1>4, <1>5, <1>6, <1>7, <1>8, <1>9, <1>10, <1>11

\* A symbol with a note behind it.
LEMMA ParseNote ==
    ASSUME NEW symbol, NEW function, NEW address, IsSymbol(symbol, function, address),
           NEW note \in Text, Plain(note)
    PROVE  HasFields(parse_frame(NotedLabel(symbol, note)), function, address,
                     IF split_file_line(note) = <<>> THEN NoText ELSE split_file_line(note)[1].file,
                     IF split_file_line(note) = <<>> THEN NoNumber ELSE split_file_line(note)[1].line,
                     IF split_file_line(note) = <<>> THEN note ELSE NoText)
<1>. DEFINE label == NotedLabel(symbol, note)
            body == symbol \o <<Blank, Open>> \o note
            n == Len(symbol)
            opens == OpensOf(RestOf(label))
<1>1. symbol \in Text /\ symbol # <<>> /\ Trim(symbol) = symbol /\ n \in Nat /\ Len(note) \in Nat
  BY DEF IsSymbol, Text
<1>2. /\ label \in Text /\ RestOf(label) = body /\ body \in Text
      /\ Len(body) = n + 2 + Len(note) /\ SubSeq(label, 1, n) = symbol
      /\ body[n + 1] = Blank /\ body[n + 2] = Open
      /\ \A i \in 1 .. Len(note) : body[n + 2 + i] = note[i]
      /\ SubSeq(body, n + 3, Len(body)) = note
  BY <1>1, NotedIs
<1>. HIDE DEF label, body, n
<1>3. opens = {i \in 1 .. Len(body) - 1 : body[i] = Blank /\ body[i + 1] = Open}
  BY <1>2 DEF OpensOf
<1>4. n + 1 \in opens
  <2>1. n + 1 \in 1 .. Len(body) - 1 /\ (n + 1) + 1 = n + 2
    BY ONLY <1>1, <1>2
  <2>. QED  BY <1>2, <1>3, <2>1
<1>5. \A j \in opens : j <= n + 1
  <2>. SUFFICES ASSUME NEW j \in opens, ~(j <= n + 1) PROVE FALSE
    OBVIOUS
  <2>1. j \in 1 .. Len(body) - 1 /\ body[j] = Blank /\ body[j + 1] = Open
    BY <1>3
  <2>2. j # n + 2
    BY <1>2, <2>1, TokensDiffer
  <2>. DEFINE k == j - (n + 2)
  <2>3. /\ k \in 1 .. Len(note) - 1 /\ k \in 1 .. Len(note) /\ k + 1 \in 1 .. Len(note)
        /\ n + 2 + k = j /\ n + 2 + (k + 1) = j + 1
    BY ONLY <1>1, <1>2, <2>1, <2>2, ~(j <= n + 1)
  <2>. HIDE DEF k
  <2>4. note[k] = Blank /\ note[k + 1] = Open
    BY ONLY <1>2, <2>1, <2>3
  <2>. QED  BY <2>3, <2>4 DEF Plain
<1>. HIDE DEF opens
<1>6. parse_frame(label) = FrameOf(label, symbol, TRUE, note)
  <2>1. (n + 1) - 1 = n /\ (n + 1) + 2 = n + 3
    BY <1>1
  <2>2. parse_frame(label) =
            FrameOf(label, Trim(SubSeq(label, 1, (n + 1) - 1)), TRUE,
                    SubSeq(RestOf(label), (n + 1) + 2, Len(RestOf(label))))
    BY <1>2, <1>4, <1>5, ParseIs DEF opens
  <2>3. Trim(SubSeq(label, 1, (n + 1) - 1)) = symbol
    BY <1>1, <1>2, <2>1
  <2>4. SubSeq(RestOf(label), (n + 1) + 2, Len(RestOf(label))) = note
    BY <1>2, <2>1
  <2>. QED  BY ONLY <2>2, <2>3, <2>4
<1>7. HasFields(FrameOf(label, symbol, TRUE, note), function, address,
                IF split_file_line(note) = <<>> THEN NoText ELSE split_file_line(note)[1].file,
                IF split_file_line(note) = <<>> THEN NoNumber ELSE split_file_line(note)[1].line,
                IF TRUE /\ split_file_line(note) = <<>> THEN note ELSE NoText)
  BY FrameOfSymbol
<1>. QED  BY <1>6, <1>7 DEF label

PlaceOf(fname, line) == fname \o <<Colon, Dec(line)>>

\* The line number is found behind the last colon.
LEMMA PlaceBack ==
    ASSUME NEW fname \in Text, fname # <<>>, NEW line \in 0 .. MaxLine
    PROVE  /\ split_file_line(PlaceOf(fname, line)) # <<>>
           /\ split_file_line(PlaceOf(fname, line))[1].file = fname
           /\ split_file_line(PlaceOf(fname, line))[1].line = line
<1>. DEFINE end == <<Colon, Dec(line)>>
            text == fname \o end
            n == Len(fname)
            at == SelectLastInSeq(text, LAMBDA t : t = Colon)
            I == {i \in 1 .. Len(text) : text[i] = Colon}
<1>1. /\ end \in Text /\ Len(end) = 2 /\ end[1] = Colon /\ end[2] = Dec(line)
      /\ n \in Nat /\ n # 0 /\ line \in Nat
  <2>1. line \in Nat
    BY ProfileAssumption
  <2>2. Dec(line) \in Tokens /\ Colon \in Tokens
    BY <2>1, NumbersAreTokens, MarksAreTokens
  <2>. QED  BY <2>1, <2>2 DEF Text
<1>. HIDE DEF end
<1>2. /\ text \in Text /\ Len(text) = n + 2
      /\ text[n + 1] = Colon /\ text[n + 2] = Dec(line)
      /\ SubSeq(text, 1, n) = fname
  <2>1. /\ text \in Text /\ Len(text) = n + Len(end)
        /\ \A i \in 1 .. Len(end) : text[n + i] = end[i]
        /\ SubSeq(text, 1, n) = fname
    BY ONLY <1>1, fname \in Text, ConcatIs, ConcatParts
  <2>2. 1 \in 1 .. Len(end) /\ 2 \in 1 .. Len(end)
    BY <1>1
  <2>. HIDE DEF text, n
  <2>. QED  BY <1>1, <2>1, <2>2
<1>. HIDE DEF text, n
<1>3. at = n + 1
  <2>1. n + 1 \in I /\ I \subseteq 0 .. Len(text) /\ Len(text) \in Nat
    BY <1>1, <1>2
  <2>2. ASSUME NEW i \in I PROVE i <= n + 1
    <3>1. i \in 1 .. n + 2 /\ text[i] = Colon
      BY <1>2
    <3>2. i # n + 2
      BY <1>2, <3>1, TokensDiffer
    <3>. QED  BY <1>1, <3>1, <3>2
  <2>. HIDE DEF I
  <2>3. Max(I) = n + 1
    BY <2>1, <2>2, LargestIs
  <2>. QED  BY <2>1, <2>3 DEF SelectLastInSeq, I
<1>. DEFINE number == SubSeq(text, (n + 1) + 1, Len(text))
<1>4. Len(number) = 1 /\ number[1] = Dec(line)
  <2>1. /\ (n + 1) + 1 \in Nat /\ Len(text) \in Nat /\ 1 <= (n + 1) + 1
        /\ (n + 1) + 1 <= Len(text) + 1 /\ Len(text) <= Len(text)
        /\ Len(text) - ((n + 1) + 1) + 1 = 1 /\ ((n + 1) + 1) + 1 - 1 = n + 2 /\ 1 \in 1 .. 1
    BY <1>1, <1>2
  <2>2. text \in Seq(Tokens)
    BY <1>2 DEF Text
  <2>3. /\ Len(number) = Len(text) - ((n + 1) + 1) + 1
        /\ \A i \in 1 .. Len(text) - ((n + 1) + 1) + 1 : number[i] = text[((n + 1) + 1) + i - 1]
    BY ONLY <2>1, <2>2, PartIs, ZenonT(30)
  <2>. HIDE DEF number
  <2>4. number[1] = text[n + 2]
    BY ONLY <2>1, <2>3
  <2>. QED  BY <1>2, <2>1, <2>3, <2>4
<1>. HIDE DEF number
<1>5. IsInteger(number) /\ number[1][2] = line
  <2>1. number[1][1] = "dec" /\ number[1][2] = line
    BY <1>4, TokensDiffer
  <2>. QED  BY <1>4, <2>1 DEF IsInteger
<1>6. split_file_line(text) = <<[file |-> SubSeq(text, 1, (n + 1) - 1), line |-> number[1][2]]>>
  <2>1. split_file_line(text) =
            IF at > 1 /\ IsInteger(SubSeq(text, at + 1, Len(text)))
               /\ SubSeq(text, at + 1, Len(text))[1][2] \in 0 .. MaxLine
            THEN <<[file |-> SubSeq(text, 1, at - 1), line |-> SubSeq(text, at + 1, Len(text))[1][2]]>>
            ELSE <<>>
    BY Zenon DEF split_file_line
  <2>. HIDE DEF at
  <2>2. SubSeq(text, at + 1, Len(text)) = number /\ at > 1
    BY <1>1, <1>3 DEF number
  <2>. QED  BY <1>3, <1>5, <2>1, <2>2
<1>7. SubSeq(text, 1, (n + 1) - 1) = fname
  <2>1. (n + 1) - 1 = n
    BY <1>1
  <2>. QED  BY <1>2, <2>1
<1>8. split_file_line(text) = <<[file |-> fname, line |-> line]>>
  BY <1>5, <1>6, <1>7
<1>. DEFINE place == split_file_line(text)
<1>. HIDE DEF place
<1>9. place = <<[file |-> fname, line |-> line]>>
  BY <1>8 DEF place
<1>10. place # <<>> /\ place[1] = [file |-> fname, line |-> line]
  BY <1>9
<1>11. place[1].file = fname /\ place[1].line = line
  BY <1>10
<1>. QED  BY <1>10, <1>11 DEF place, text, end, PlaceOf

\* And what surrounds it is no start of a note.
LEMMA PlacePlain ==
    ASSUME NEW fname \in Text, Plain(fname), NEW line \in Nat
    PROVE  PlaceOf(fname, line) \in Text /\ Plain(PlaceOf(fname, line))
<1>. DEFINE end == <<Colon, Dec(line)>>
            text == fname \o end
            n == Len(fname)
<1>1. /\ end \in Text /\ Len(end) = 2 /\ end[1] = Colon /\ end[2] = Dec(line)
      /\ n \in Nat
  <2>1. Dec(line) \in Tokens /\ Colon \in Tokens
    BY NumbersAreTokens, MarksAreTokens
  <2>. QED  BY <2>1 DEF Text
<1>. HIDE DEF end
<1>2. /\ text \in Text /\ Len(text) = n + 2
      /\ text[n + 1] = Colon /\ text[n + 2] = Dec(line)
      /\ \A i \in 1 .. n : text[i] = fname[i]
  <2>1. /\ text \in Text /\ Len(text) = n + Len(end)
        /\ \A i \in 1 .. Len(end) : text[n + i] = end[i]
        /\ \A i \in 1 .. n : text[i] = fname[i]
    BY ONLY <1>1, fname \in Text, ConcatIs
  <2>2. 1 \in 1 .. Len(end) /\ 2 \in 1 .. Len(end)
    BY <1>1
  <2>. HIDE DEF text, n
  <2>. QED  BY <1>1, <2>1, <2>2
<1>. HIDE DEF text, n
<1>3. ASSUME NEW i \in 1 .. Len(text) - 1, text[i] = Blank, text[i + 1] = Open PROVE FALSE
  <2>1. i \in 1 .. n + 1
    BY <1>1, <1>2
  <2>2. i # n + 1
    BY <1>2, <1>3, TokensDiffer
  <2>3. i + 1 # n + 1
    BY <1>2, <1>3, TokensDiffer
  <2>4. i \in 1 .. n /\ i + 1 \in 1 .. n /\ i \in 1 .. n - 1
    BY <1>1, <2>1, <2>2, <2>3
  <2>5. fname[i] = Blank /\ fname[i + 1] = Open
    BY <1>2, <1>3, <2>4
  <2>. QED  BY <2>4, <2>5 DEF Plain, n
<1>4. text \in Text /\ Plain(text)
  BY <1>2, <1>3 DEF Plain
<1>. QED  BY <1>4 DEF text, end, PlaceOf

\* parse_frame undoes render_frame.
LEMMA RenderBack ==
    ASSUME NEW f \in Frames, Canonical(f)
    PROVE  [parse_frame(render_frame(f)) EXCEPT !.raw = <<>>] = f
<1>. DEFINE symbol == IF IsSome(f.function) THEN f.function
                      ELSE IF f.address # NoNumber THEN <<Hex(f.address)>>
                      ELSE <<>>
            g == parse_frame(render_frame(f))
<1>1. /\ f.raw \in Text /\ f.function \in Text /\ f.file \in Text /\ f.module \in Text
      /\ f.line \in 0 .. MaxLine \cup {NoNumber} /\ f.address \in Nat \cup {NoNumber}
  BY DEF Frames
<1>2. /\ f.raw = <<>>
      /\ IsSome(f.function) <=> f.address = NoNumber
      /\ IsSome(f.function) => parse_frame(f.function).function = f.function
      /\ IsSome(f.file) <=> f.line # NoNumber
      /\ IsSome(f.file) => f.file # <<>> /\ ~IsSome(f.module) /\ Plain(f.file)
      /\ IsSome(f.module) => split_file_line(f.module) = <<>> /\ Plain(f.module)
  BY DEF Canonical, Plain
<1>3. IsSymbol(symbol, f.function, f.address)
  <2>1. CASE IsSome(f.function)
    <3>1. symbol = f.function /\ f.function # NoText /\ f.address = NoNumber
      BY <1>2, <2>1 DEF IsSome
    <3>2. /\ OpensOf(RestOf(f.function)) = {} /\ Trim(f.function) = f.function
          /\ f.function # <<>> /\ ~IsHex(f.function)
      BY <1>1, <1>2, <2>1, <3>1, FunctionIs
    <3>. HIDE DEF symbol
    <3>. QED  BY <1>1, <3>1, <3>2 DEF IsSymbol
  <2>2. CASE ~IsSome(f.function)
    <3>1. f.function = NoText /\ f.address \in Nat /\ symbol = <<Hex(f.address)>>
      BY <1>1, <1>2, <2>2 DEF IsSome
    <3>. HIDE DEF symbol
    <3>2. Hex(f.address) \in Tokens /\ Hex(f.address) # Close /\ Hex(f.address) # Blank
      BY <3>1, NumbersAreTokens, TokensDiffer
    <3>3. symbol \in Text /\ symbol # <<>> /\ Len(symbol) = 1 /\ symbol[1] = Hex(f.address)
      BY <3>1, <3>2 DEF Text
    <3>4. Trim(symbol) = symbol
      BY <3>2, <3>3, TrimSelf
    <3>5. OpensOf(RestOf(symbol)) = {}
      <4>1. RestOf(symbol) = <<>>
        BY <3>2, <3>3 DEF RestOf, Last
      <4>. QED  BY <4>1 DEF OpensOf
    <3>. QED  BY <3>1, <3>3, <3>4, <3>5 DEF IsSymbol
  <2>. QED  BY <2>1, <2>2
<1>4. render_frame(f) =
          IF IsSome(f.file) /\ f.line # NoNumber THEN NotedLabel(symbol, PlaceOf(f.file, f.line))
          ELSE IF IsSome(f.file) THEN NotedLabel(symbol, f.file)
          ELSE IF IsSome(f.module) THEN NotedLabel(symbol, f.module)
          ELSE symbol
  BY <1>2 DEF render_frame, NotedLabel, PlaceOf
<1>. HIDE DEF symbol
<1>5. HasFields(g, f.function, f.address, f.file, f.line, f.module)
  <2>1. CASE IsSome(f.file)
    <3>1. /\ f.line \in 0 .. MaxLine /\ f.line \in Nat /\ f.module = NoText
          /\ render_frame(f) = NotedLabel(symbol, PlaceOf(f.file, f.line))
      BY <1>1, <1>2, <1>4, <2>1, ProfileAssumption DEF IsSome
    <3>. DEFINE note == PlaceOf(f.file, f.line)
    <3>2. note \in Text /\ Plain(note)
      BY <1>1, <1>2, <2>1, <3>1, PlacePlain
    <3>3. /\ split_file_line(note) # <<>> /\ split_file_line(note)[1].file = f.file
          /\ split_file_line(note)[1].line = f.line
      BY <1>1, <1>2, <2>1, <3>1, PlaceBack
    <3>. HIDE DEF note
    <3>4. HasFields(parse_frame(NotedLabel(symbol, note)), f.function, f.address,
              IF split_file_line(note) = <<>> THEN NoText ELSE split_file_line(note)[1].file,
              IF split_file_line(note) = <<>> THEN NoNumber ELSE split_file_line(note)[1].line,
              IF split_file_line(note) = <<>> THEN note ELSE NoText)
      BY <1>3, <3>2, ParseNote
    <3>. QED  BY <3>1, <3>3, <3>4 DEF note
  <2>2. CASE ~IsSome(f.file) /\ IsSome(f.module)
    <3>1. f.file = NoText /\ f.line = NoNumber /\ render_frame(f) = NotedLabel(symbol, f.module)
      BY <1>2, <1>4, <2>2 DEF IsSome
    <3>2. HasFields(parse_frame(NotedLabel(symbol, f.module)), f.function, f.address,
              IF split_file_line(f.module) = <<>> THEN NoText ELSE split_file_line(f.module)[1].file,
              IF split_file_line(f.module) = <<>> THEN NoNumber ELSE split_file_line(f.module)[1].line,
              IF split_file_line(f.module) = <<>> THEN f.module ELSE NoText)
      BY <1>1, <1>2, <1>3, <2>2, ParseNote
    <3>. QED  BY <1>2, <2>2, <3>1, <3>2
  <2>3. CASE ~IsSome(f.file) /\ ~IsSome(f.module)
    <3>1. f.file = NoText /\ f.line = NoNumber /\ f.module = NoText /\ render_frame(f) = symbol
      BY <1>2, <1>4, <2>3 DEF IsSome
    <3>2. HasFields(parse_frame(symbol), f.function, f.address, NoText, NoNumber, NoText)
      BY <1>3, ParsePlain
    <3>. QED  BY <3>1, <3>2
  <2>. QED  BY <2>1, <2>2, <2>3
<1>6. f = [raw |-> f.raw, function |-> f.function, file |-> f.file,
           line |-> f.line, module |-> f.module, address |-> f.address]
  BY DEF Frames
<1>7. [g EXCEPT !.raw = <<>>] =
          [raw |-> <<>>, function |-> f.function, file |-> f.file,
           line |-> f.line, module |-> f.module, address |-> f.address]
  BY <1>5 DEF HasFields
<1>. HIDE DEF g
<1>8. [g EXCEPT !.raw = <<>>] = f
  BY <1>2, <1>6, <1>7
<1>. QED  BY <1>8 DEF g

-----------------------------------------------------------------------------
(* What comes out of a folded file                                         *)

\* r says what p does, as far as the folded format can.
SaysLabels(p, r) ==
    /\ Labels(r) = Labels(p)
    /\ \A i \in 1 .. Len(p.samples) :
          /\ r.samples[i].values = <<p.samples[i].values[1]>>
          /\ \A j \in 1 .. Len(p.samples[i].stack) :
                LET f == Stacks(p)[i][j] IN
                Canonical(f) => [Stacks(r)[i][j] EXCEPT !.raw = <<>>] = f

\* A frame keeps the label it was read from.
LEMMA LabelKept ==
    ASSUME NEW label, label # <<>> PROVE render_frame(parse_frame(label)) = label
<1>. DEFINE f == parse_frame(label)
<1>1. f.raw = label
  BY DEF parse_frame
<1>. HIDE DEF f
<1>2. render_frame(f) = label
  BY <1>1 DEF render_frame
<1>. QED  BY <1>2 DEF f

\* What is written of a profile with labels that can be carried is found, read, and says
\* what the profile does.
LEMMA FoldedSays ==
    ASSUME NEW p, p \in Profiles, validate(p), Tame(p), p.samples # <<>>
    PROVE  \E text \in Text : \E r :
              /\ folded_write(p) = Ok(text) /\ folded_probe(text) = "Likely"
              /\ folded_read(text) = Ok(r) /\ SaysLabels(p, r)
<1>. DEFINE lss == Labels(p)
            vs == Counts(p)
            text == TextOf(lss, vs)
            r == ReadOf(lss, vs)
            N == Len(p.samples)
<1>1. /\ AllCarried(lss, vs)
      /\ \A i \in 1 .. N : lss[i] = [j \in 1 .. Len(p.samples[i].stack) |->
                                        render_frame(p.frames[p.samples[i].stack[j] + 1])]
  BY LabelsCarried
<1>2. /\ N \in Nat /\ N # 0 /\ p.frames \in Seq(Frames)
      /\ \A i \in 1 .. N : p.samples[i].stack \in Seq(Nat)
  <2>. DEFINE Smp == [stack : Seq(Nat), values : Seq(Int)]
  <2>1. p.samples \in Seq(Smp) /\ p.frames \in Seq(Frames)
    BY DEF Profiles
  <2>2. \A i \in 1 .. N : p.samples[i] \in Smp
    <3>. HIDE DEF Smp
    <3>. QED  BY <2>1, ElementIs
  <2>. QED  BY <2>1, <2>2
<1>3. /\ Len(lss) = N /\ lss = [i \in 1 .. N |-> lss[i]]
      /\ \A i \in 1 .. N : vs[i] = p.samples[i].values[1]
  <2>1. lss = [i \in 1 .. N |-> lss[i]]
    BY DEF Labels
  <2>. HIDE DEF lss, N
  <2>2. Len(lss) = N
    BY <1>2, <2>1
  <2>. QED  BY <2>1, <2>2 DEF Counts, N
<1>4. ASSUME NEW i \in 1 .. N PROVE Len(lss[i]) = Len(p.samples[i].stack)
  <2>. DEFINE n == Len(p.samples[i].stack)
              g == [j \in 1 .. n |-> render_frame(p.frames[p.samples[i].stack[j] + 1])]
  <2>1. n \in Nat
    BY <1>2
  <2>. HIDE DEF n
  <2>2. Len(g) = n
    BY <2>1
  <2>. HIDE DEF g, lss, N
  <2>3. lss[i] = g
    BY <1>1 DEF g, n
  <2>. QED  BY <2>2, <2>3 DEF n
<1>5. lss # <<>>
  BY <1>2, <1>3
<1>6. /\ text \in Text /\ folded_write(p) = Ok(text)
      /\ folded_probe(text) = "Likely" /\ folded_read(text) = Ok(r) /\ Reads(r, lss, vs)
  BY <1>1, <1>5, WrittenLines, LinesFound, LinesRead, ReadSays
<1>. HIDE DEF r, text
<1>7. ASSUME NEW i \in 1 .. N, NEW j \in 1 .. Len(lss[i])
      PROVE  /\ j \in 1 .. Len(p.samples[i].stack)
             /\ Stacks(r)[i][j] = parse_frame(lss[i][j]) /\ lss[i][j] # <<>>
             /\ lss[i][j] = render_frame(Stacks(p)[i][j]) /\ Stacks(p)[i][j] \in Frames
  <2>. DEFINE n == Len(p.samples[i].stack)
  <2>1. n \in Nat /\ Len(lss[i]) = n
    <3>1. n \in Nat
      BY <1>2
    <3>. QED  BY <1>4, <3>1
  <2>2. j \in 1 .. n
    BY <2>1
  <2>3. /\ Len(r.samples) = N /\ Len(r.samples[i].stack) = n
        /\ r.frames[r.samples[i].stack[j] + 1] = parse_frame(lss[i][j])
    BY <1>3, <1>6, <2>1 DEF Reads
  <2>4. Stacks(r)[i][j] = r.frames[r.samples[i].stack[j] + 1]
    <3>. HIDE DEF n, N
    <3>1. Stacks(r)[i] = Stack(r, r.samples[i])
      BY <2>3 DEF Stacks
    <3>. QED  BY <2>2, <2>3, <3>1 DEF Stack
  <2>5. Stacks(p)[i][j] = p.frames[p.samples[i].stack[j] + 1]
    <3>1. Stacks(p)[i] = Stack(p, p.samples[i])
      BY DEF Stacks
    <3>. QED  BY <2>2, <3>1 DEF Stack
  <2>6. lss[i][j] = render_frame(p.frames[p.samples[i].stack[j] + 1])
    <3>. HIDE DEF lss, N
    <3>. QED  BY <1>1, <2>2
  <2>7. lss[i][j] # <<>>
    BY <1>1, <1>3 DEF AllCarried, Carried
  <2>8. Stacks(p)[i][j] \in Frames
    <3>. DEFINE s == p.samples[i]
                id == s.stack[j]
    <3>1. s.stack \in Seq(Nat) /\ s \in ToSet(p.samples)
      BY <1>2 DEF ToSet
    <3>2. id \in Nat /\ id \in ToSet(s.stack)
      BY <2>2, <3>1, ElementIs
    <3>3. id < Len(p.frames)
      BY <3>1, <3>2 DEF validate
    <3>. HIDE DEF id, s
    <3>4. Len(p.frames) \in Nat
      BY <1>2
    <3>5. id + 1 \in 1 .. Len(p.frames)
      BY ONLY <3>2, <3>3, <3>4
    <3>6. p.frames[id + 1] \in Frames
      BY <1>2, <3>5, ElementIs
    <3>. QED  BY <2>5, <3>6 DEF id, s
  <2>. QED  BY <2>2, <2>3, <2>4, <2>5, <2>6, <2>7, <2>8
<1>8. Labels(r) = lss
  <2>1. Len(r.samples) = N /\ \A i \in 1 .. N : Len(r.samples[i].stack) = Len(lss[i])
    BY <1>3, <1>6 DEF Reads
  <2>. HIDE DEF N, lss
  <2>2. Labels(r) = [i \in 1 .. N |->
                        [j \in 1 .. Len(lss[i]) |-> render_frame(Stacks(r)[i][j])]]
    BY <2>1 DEF Labels
  <2>3. ASSUME NEW i \in 1 .. N
        PROVE  [j \in 1 .. Len(lss[i]) |-> render_frame(Stacks(r)[i][j])] = lss[i]
    <3>1. \A j \in 1 .. Len(lss[i]) : render_frame(Stacks(r)[i][j]) = lss[i][j]
      BY <1>7, LabelKept
    <3>2. lss[i] \in Seq(Text)
      BY <1>1, <1>3 DEF AllCarried, Carried
    <3>3. lss[i] = [j \in 1 .. Len(lss[i]) |-> lss[i][j]]
      BY <3>2
    <3>. QED  BY <3>1, <3>3
  <2>. QED  BY <1>3, <2>2, <2>3
<1>9. ASSUME NEW i \in 1 .. N
      PROVE  /\ r.samples[i].values = <<p.samples[i].values[1]>>
             /\ \A j \in 1 .. Len(p.samples[i].stack) :
                   Canonical(Stacks(p)[i][j]) =>
                       [Stacks(r)[i][j] EXCEPT !.raw = <<>>] = Stacks(p)[i][j]
  <2>1. r.samples[i].values = <<p.samples[i].values[1]>>
    BY <1>3, <1>6 DEF Reads
  <2>2. ASSUME NEW j \in 1 .. Len(p.samples[i].stack), Canonical(Stacks(p)[i][j])
        PROVE  [Stacks(r)[i][j] EXCEPT !.raw = <<>>] = Stacks(p)[i][j]
    <3>1. j \in 1 .. Len(lss[i])
      BY <1>4
    <3>. DEFINE f == Stacks(p)[i][j]
    <3>2. /\ Stacks(r)[i][j] = parse_frame(render_frame(f)) /\ f \in Frames
      BY <1>7, <3>1
    <3>. HIDE DEF f
    <3>3. [parse_frame(render_frame(f)) EXCEPT !.raw = <<>>] = f
      BY <2>2, <3>2, RenderBack DEF f
    <3>. QED  BY <3>2, <3>3 DEF f
  <2>. QED  BY <2>1, <2>2
<1>10. SaysLabels(p, r)
  BY <1>8, <1>9 DEF SaysLabels
<1>. QED  BY <1>6, <1>10

-----------------------------------------------------------------------------
(* What the pprof writer writes                                            *)

TextsOf(f) ==
    (IF IsSome(f.module) THEN {f.module} ELSE {})
    \cup (IF HasLine(f) THEN {Texts(f.function), Texts(f.file)} ELSE {})

IsKindText(p, x) ==
    \E i \in 1 .. Len(p.value_kinds) : x = p.value_kinds[i].kind \/ x = p.value_kinds[i].unit

IsFrameText(p, x) == \E i \in 1 .. Len(p.frames) : x \in TextsOf(p.frames[i])

\* The elements of flattened blocks.
LEMMA FlattenedSet ==
    ASSUME NEW X, NEW ss \in Seq(Seq(X))
    PROVE  \A x : x \in ToSet(FlattenSeq(ss)) <=> \E k \in 1 .. Len(ss) : x \in ToSet(ss[k])
<1>. DEFINE c == FlattenSeq(ss)
<1>1. c \in Seq(X) /\ MadeOf(c, ss, Len(ss))
  BY FlattenIs
<1>2. \A k \in 1 .. Len(ss) : ss[k] \in Seq(X)
  OBVIOUS
<1>3. \A k \in 1 .. Len(ss) : DOMAIN ss[k] = 1 .. Len(ss[k])
  BY <1>2
<1>. HIDE DEF c
<1>4. DOMAIN c = 1 .. Len(c)
  BY <1>1
<1>5. /\ \A i \in 1 .. Len(c) : \E k \in 1 .. Len(ss) : \E j \in 1 .. Len(ss[k]) : c[i] = ss[k][j]
      /\ \A k \in 1 .. Len(ss) : \A j \in 1 .. Len(ss[k]) : \E i \in 1 .. Len(c) : c[i] = ss[k][j]
  BY <1>1 DEF MadeOf
<1>6. ASSUME NEW x, x \in ToSet(c) PROVE \E k \in 1 .. Len(ss) : x \in ToSet(ss[k])
  <2>1. PICK i \in 1 .. Len(c) : x = c[i]
    BY <1>4, <1>6 DEF ToSet
  <2>2. PICK k \in 1 .. Len(ss) : \E j \in 1 .. Len(ss[k]) : c[i] = ss[k][j]
    BY <1>5
  <2>3. x \in ToSet(ss[k])
    BY <1>3, <2>1, <2>2 DEF ToSet
  <2>. QED  BY <2>3
<1>7. ASSUME NEW x, NEW k \in 1 .. Len(ss), x \in ToSet(ss[k]) PROVE x \in ToSet(c)
  <2>1. PICK j \in 1 .. Len(ss[k]) : x = ss[k][j]
    BY <1>3, <1>7 DEF ToSet
  <2>2. PICK i \in 1 .. Len(c) : c[i] = ss[k][j]
    BY <1>5
  <2>. QED  BY <1>4, <2>1, <2>2 DEF ToSet
<1>. QED  BY <1>6, <1>7 DEF c

\* An interned table has what it was interned from.
LEMMA InternedSet ==
    ASSUME NEW X, NEW s \in Seq(X)
    PROVE  \A x : x \in ToSet(Interned(s)) <=> x \in ToSet(s)
<1>. DEFINE c == Interned(s)
<1>1. /\ c \in Seq(X)
      /\ \A i \in 1 .. Len(c) : \E k \in 1 .. Len(s) : c[i] = s[k]
      /\ \A k \in 1 .. Len(s) : \E i \in 1 .. Len(c) : c[i] = s[k]
  BY InternedIs
<1>. HIDE DEF c
<1>2. DOMAIN c = 1 .. Len(c) /\ DOMAIN s = 1 .. Len(s)
  BY <1>1
<1>3. \A x : x \in ToSet(c) <=> \E i \in 1 .. Len(c) : x = c[i]
  BY ONLY <1>2 DEF ToSet
<1>4. \A x : x \in ToSet(s) <=> \E i \in 1 .. Len(s) : x = s[i]
  BY ONLY <1>2 DEF ToSet
<1>5. ASSUME NEW x, x \in ToSet(c) PROVE x \in ToSet(s)
  BY ONLY <1>1, <1>3, <1>4, <1>5
<1>6. ASSUME NEW x, x \in ToSet(s) PROVE x \in ToSet(c)
  BY ONLY <1>1, <1>3, <1>4, <1>6
<1>. QED  BY ONLY <1>5, <1>6 DEF c

\* The string table: the empty string first, no string twice, and each that is needed.
LEMMA StringsAre ==
    ASSUME NEW p \in Profiles
    PROVE  /\ StringTable(p) \in Seq(Text) /\ Len(StringTable(p)) \in Nat \ {0}
           /\ StringTable(p)[1] = <<>>
           /\ \A i, j \in 1 .. Len(StringTable(p)) : i < j => StringTable(p)[i] # StringTable(p)[j]
           /\ \A x : x \in ToSet(StringTable(p)) <=>
                        x = <<>> \/ IsKindText(p, x) \/ IsFrameText(p, x)
<1>. DEFINE pair(i) == <<p.value_kinds[i].kind, p.value_kinds[i].unit>>
            pairs == [i \in 1 .. Len(p.value_kinds) |-> pair(i)]
            part(f) == (IF IsSome(f.module) THEN <<f.module>> ELSE <<>>)
                       \o (IF HasLine(f) THEN <<Texts(f.function), Texts(f.file)>> ELSE <<>>)
            parts == [i \in 1 .. Len(p.frames) |-> part(p.frames[i])]
            a == <<<<>>>>
            b == FlattenSeq(pairs)
            c == FlattenSeq(parts)
            s == a \o b \o c
            T == StringTable(p)
<1>1. T = Interned(s)
  BY DEF StringTable
<1>2. /\ p.frames \in Seq(Frames) /\ Len(p.frames) \in Nat
      /\ p.value_kinds \in Seq(Kinds) /\ Len(p.value_kinds) \in Nat
  <2>1. p.frames \in Seq(Frames) /\ p.value_kinds \in Seq(Kinds)
    BY DEF Profiles, Kinds
  <2>. QED  BY <2>1
<1>3. ASSUME NEW i \in 1 .. Len(p.value_kinds)
      PROVE  /\ pair(i) \in Seq(Text)
             /\ \A x : x \in ToSet(pair(i)) <=>
                          x = p.value_kinds[i].kind \/ x = p.value_kinds[i].unit
  <2>. DEFINE k == p.value_kinds[i].kind
              u == p.value_kinds[i].unit
  <2>1. k \in Text /\ u \in Text
    <3>1. p.value_kinds[i] \in Kinds
      BY <1>2, ElementIs
    <3>. QED  BY <3>1 DEF Kinds
  <2>. HIDE DEF k, u
  <2>2. <<k, u>> \in Seq(Text)
    BY <2>1
  <2>3. \A x : x \in ToSet(<<k, u>>) <=> x = k \/ x = u
    <3>1. DOMAIN <<k, u>> = {1, 2} /\ <<k, u>>[1] = k /\ <<k, u>>[2] = u
      OBVIOUS
    <3>. QED  BY ONLY <3>1 DEF ToSet
  <2>. QED  BY <2>2, <2>3 DEF k, u
<1>4. ASSUME NEW i \in 1 .. Len(p.frames)
      PROVE  /\ part(p.frames[i]) \in Seq(Text)
             /\ \A x : x \in ToSet(part(p.frames[i])) <=> x \in TextsOf(p.frames[i])
  <2>. DEFINE f == p.frames[i]
              m == f.module
              g == Texts(f.function)
              h == Texts(f.file)
              l == IF IsSome(m) THEN <<m>> ELSE <<>>
              r == IF HasLine(f) THEN <<g, h>> ELSE <<>>
  <2>1. m \in Text /\ g \in Text /\ h \in Text
    <3>1. f \in Frames
      BY <1>2, ElementIs
    <3>. HIDE DEF f
    <3>. QED  BY <3>1, NoTextIsText DEF Frames, Texts
  <2>2. TextsOf(f) = (IF IsSome(m) THEN {m} ELSE {}) \cup (IF HasLine(f) THEN {g, h} ELSE {})
    BY DEF TextsOf
  <2>. HIDE DEF f, m, g, h
  <2>3. /\ l \in Seq(Text)
        /\ \A x : x \in ToSet(l) <=> IsSome(m) /\ x = m
    <3>1. CASE IsSome(m)
      <4>1. l = <<m>>
        BY <3>1
      <4>2. DOMAIN <<m>> = {1} /\ <<m>>[1] = m /\ <<m>> \in Seq(Text)
        BY <2>1
      <4>3. \A x : x \in ToSet(<<m>>) <=> x = m
        BY ONLY <4>2 DEF ToSet
      <4>. HIDE DEF l
      <4>. QED  BY <3>1, <4>1, <4>2, <4>3
    <3>2. CASE ~IsSome(m)
      <4>1. l = <<>>
        BY <3>2
      <4>2. DOMAIN <<>> = {} /\ <<>> \in Seq(Text)
        OBVIOUS
      <4>3. \A x : x \notin ToSet(<<>>)
        BY ONLY <4>2 DEF ToSet
      <4>. HIDE DEF l
      <4>. QED  BY <3>2, <4>1, <4>2, <4>3
    <3>. QED  BY <3>1, <3>2
  <2>4. /\ r \in Seq(Text)
        /\ \A x : x \in ToSet(r) <=> HasLine(f) /\ (x = g \/ x = h)
    <3>1. CASE HasLine(f)
      <4>1. r = <<g, h>>
        BY <3>1
      <4>2. DOMAIN <<g, h>> = {1, 2} /\ <<g, h>>[1] = g /\ <<g, h>>[2] = h /\ <<g, h>> \in Seq(Text)
        BY <2>1
      <4>3. \A x : x \in ToSet(<<g, h>>) <=> x = g \/ x = h
        BY ONLY <4>2 DEF ToSet
      <4>. HIDE DEF r
      <4>. QED  BY <3>1, <4>1, <4>2, <4>3
    <3>2. CASE ~HasLine(f)
      <4>1. r = <<>>
        BY <3>2
      <4>2. DOMAIN <<>> = {} /\ <<>> \in Seq(Text)
        OBVIOUS
      <4>3. \A x : x \notin ToSet(<<>>)
        BY ONLY <4>2 DEF ToSet
      <4>. HIDE DEF r
      <4>. QED  BY <3>2, <4>1, <4>2, <4>3
    <3>. QED  BY <3>1, <3>2
  <2>5. part(f) = l \o r
    BY DEF m, g, h
  <2>. HIDE DEF l, r, part
  <2>6. l \o r \in Seq(Text) /\ \A x : x \in ToSet(l \o r) <=> x \in ToSet(l) \/ x \in ToSet(r)
    <3>1. l \o r \in Seq(Text)
      BY <2>3, <2>4
    <3>. QED  BY <2>3, <2>4, <3>1, ConcatSet
  <2>7. \A x : x \in TextsOf(f) <=> (IsSome(m) /\ x = m) \/ (HasLine(f) /\ (x = g \/ x = h))
    <3>1. CASE IsSome(m)
      BY ONLY <2>2, <3>1
    <3>2. CASE ~IsSome(m)
      BY ONLY <2>2, <3>2
    <3>. QED  BY ONLY <3>1, <3>2
  <2>8. /\ part(f) \in Seq(Text)
        /\ \A x : x \in ToSet(part(f)) <=> x \in TextsOf(f)
    BY ONLY <2>3, <2>4, <2>5, <2>6, <2>7
  <2>. QED  BY <2>8 DEF f
<1>5. b \in Seq(Text) /\ \A x : x \in ToSet(b) <=> IsKindText(p, x)
  <2>. HIDE DEF pair
  <2>1. /\ pairs \in Seq(Seq(Text)) /\ Len(pairs) = Len(p.value_kinds)
        /\ \A i \in 1 .. Len(p.value_kinds) : pairs[i] = pair(i)
    BY <1>2, <1>3
  <2>. HIDE DEF pairs
  <2>2. /\ b \in Seq(Text)
        /\ \A x : x \in ToSet(b) <=> \E k \in 1 .. Len(pairs) : x \in ToSet(pairs[k])
    <3>1. pairs \in Seq(Seq(Text))
      BY <2>1
    <3>2. FlattenSeq(pairs) \in Seq(Text)
      BY ONLY <3>1, FlattenIs
    <3>3. \A x : x \in ToSet(FlattenSeq(pairs)) <=> \E k \in 1 .. Len(pairs) : x \in ToSet(pairs[k])
      BY ONLY <3>1, FlattenedSet
    <3>. QED  BY ONLY <3>2, <3>3
  <2>. HIDE DEF b
  <2>3. \A x : x \in ToSet(b) <=> \E k \in 1 .. Len(p.value_kinds) : x \in ToSet(pair(k))
    BY ONLY <2>1, <2>2
  <2>. QED  BY <1>3, <2>2, <2>3 DEF IsKindText
<1>6. c \in Seq(Text) /\ \A x : x \in ToSet(c) <=> IsFrameText(p, x)
  <2>. HIDE DEF part
  <2>1. /\ parts \in Seq(Seq(Text)) /\ Len(parts) = Len(p.frames)
        /\ \A i \in 1 .. Len(p.frames) : parts[i] = part(p.frames[i])
    BY <1>2, <1>4
  <2>. HIDE DEF parts
  <2>2. /\ c \in Seq(Text)
        /\ \A x : x \in ToSet(c) <=> \E k \in 1 .. Len(parts) : x \in ToSet(parts[k])
    <3>1. parts \in Seq(Seq(Text))
      BY <2>1
    <3>2. FlattenSeq(parts) \in Seq(Text)
      BY ONLY <3>1, FlattenIs
    <3>3. \A x : x \in ToSet(FlattenSeq(parts)) <=> \E k \in 1 .. Len(parts) : x \in ToSet(parts[k])
      BY ONLY <3>1, FlattenedSet
    <3>. QED  BY ONLY <3>2, <3>3
  <2>. HIDE DEF c
  <2>3. \A x : x \in ToSet(c) <=> \E k \in 1 .. Len(p.frames) : x \in ToSet(part(p.frames[k]))
    BY ONLY <2>1, <2>2
  <2>. QED  BY <1>4, <2>2, <2>3 DEF IsFrameText
<1>7. a \in Seq(Text) /\ Len(a) = 1 /\ a[1] = <<>> /\ \A x : x \in ToSet(a) <=> x = <<>>
  <2>1. DOMAIN a = {1} /\ a[1] = <<>> /\ a \in Seq(Text) /\ Len(a) = 1
    BY NoTextIsText
  <2>. HIDE DEF a
  <2>2. \A x : x \in ToSet(a) <=> x = a[1]
    BY ONLY <2>1 DEF ToSet
  <2>. QED  BY <2>1, <2>2
<1>. HIDE DEF a, b, c, T
<1>8. /\ s \in Seq(Text) /\ Len(s) >= 1 /\ s[1] = <<>>
      /\ \A x : x \in ToSet(s) <=> x = <<>> \/ IsKindText(p, x) \/ IsFrameText(p, x)
  <2>1. /\ a \o b \in Seq(Text) /\ Len(a \o b) >= 1 /\ (a \o b)[1] = <<>>
    BY <1>5, <1>7
  <2>2. \A x : x \in ToSet(a \o b) <=> x \in ToSet(a) \/ x \in ToSet(b)
    BY <1>5, <1>7, ConcatSet
  <2>. DEFINE ab == a \o b
  <2>3. ab \in Seq(Text) /\ Len(ab) >= 1 /\ ab[1] = <<>>
    BY <2>1
  <2>. HIDE DEF ab
  <2>4. ab \o c \in Seq(Text) /\ Len(ab \o c) >= 1 /\ (ab \o c)[1] = <<>>
    BY <1>6, <2>3
  <2>5. \A x : x \in ToSet(ab \o c) <=> x \in ToSet(ab) \/ x \in ToSet(c)
    BY <1>6, <2>3, ConcatSet
  <2>6. s = ab \o c
    BY DEF ab
  <2>7. \A x : x \in ToSet(ab) <=> x \in ToSet(a) \/ x \in ToSet(b)
    BY <2>2 DEF ab
  <2>. HIDE DEF s
  <2>8. \A x : x \in ToSet(s) <=> x \in ToSet(a) \/ x \in ToSet(b) \/ x \in ToSet(c)
    BY ONLY <2>5, <2>6, <2>7
  <2>. QED  BY ONLY <1>5, <1>6, <1>7, <2>4, <2>6, <2>8
<1>. HIDE DEF s
<1>9. /\ T \in Seq(Text)
      /\ \A i, j \in 1 .. Len(T) : i < j => T[i] # T[j]
  BY <1>1, <1>8, InternedIs
<1>10. Len(T) >= 1 /\ T[1] = <<>>
  BY <1>1, <1>8, FirstInterned
<1>11. \A x : x \in ToSet(T) <=> x \in ToSet(s)
  BY <1>1, <1>8, InternedSet
<1>12. Len(T) \in Nat
  BY <1>9
<1>13. \A x : x \in ToSet(T) <=> x = <<>> \/ IsKindText(p, x) \/ IsFrameText(p, x)
  BY ONLY <1>8, <1>11
<1>. QED  BY <1>9, <1>10, <1>12, <1>13 DEF T

\* The index of a string in the table.
Str(p, x) == IndexOf(StringTable(p), x) - 1

LEMMA StrIs ==
    ASSUME NEW p \in Profiles, NEW x, x = <<>> \/ IsKindText(p, x) \/ IsFrameText(p, x)
    PROVE  /\ Str(p, x) \in 0 .. Len(StringTable(p)) - 1
           /\ StringTable(p)[Str(p, x) + 1] = x
           /\ x = StringTable(p)[Len(StringTable(p))] => Str(p, x) = Len(StringTable(p)) - 1
<1>. DEFINE T == StringTable(p)
<1>1. /\ T \in Seq(Text) /\ Len(T) \in Nat \ {0} /\ x \in ToSet(T)
      /\ \A i, j \in 1 .. Len(T) : i < j => T[i] # T[j]
  BY StringsAre
<1>. HIDE DEF T
<1>2. PICK k \in 1 .. Len(T) : T[k] = x
  <2>1. DOMAIN T = 1 .. Len(T)
    BY <1>1
  <2>. QED  BY <1>1, <2>1 DEF ToSet
<1>3. IndexOf(T, x) \in 1 .. Len(T) /\ T[IndexOf(T, x)] = x
  <2>1. Len(T) \in Nat
    BY <1>1
  <2>. QED  BY <1>2, <2>1, IndexOfIs
<1>4. (IndexOf(T, x) - 1) + 1 = IndexOf(T, x) /\ IndexOf(T, x) - 1 \in 0 .. Len(T) - 1
  BY <1>1, <1>3
<1>5. ASSUME x = T[Len(T)] PROVE IndexOf(T, x) = Len(T)
  <2>1. Len(T) \in 1 .. Len(T)
    BY <1>1
  <2>2. IndexOf(T, x) < Len(T) => FALSE
    BY <1>1, <1>3, <1>5, <2>1
  <2>. QED  BY <1>1, <1>3, <2>2
<1>6. /\ Str(p, x) = IndexOf(T, x) - 1
  BY DEF Str, T
<1>. QED  BY <1>3, <1>4, <1>5, <1>6 DEF T

\* The modules: none twice, and each frame's.
LEMMA ModulesAre ==
    ASSUME NEW p \in Profiles
    PROVE  /\ Modules(p) \in Seq(Text) /\ Len(Modules(p)) \in Nat
           /\ \A i \in 1 .. Len(Modules(p)) : IsFrameText(p, Modules(p)[i])
           /\ \A i \in 1 .. Len(p.frames) : IsSome(p.frames[i].module) =>
                 /\ IndexOf(Modules(p), p.frames[i].module) \in 1 .. Len(Modules(p))
                 /\ Modules(p)[IndexOf(Modules(p), p.frames[i].module)] = p.frames[i].module
<1>. DEFINE S == {i \in 1 .. Len(p.frames) : IsSome(p.frames[i].module)}
            of == Chosen(p.frames, S)
            s == [i \in 1 .. Len(of) |-> of[i].module]
<1>1. Modules(p) = Interned(s)
  BY DEF Modules, Only
<1>2. p.frames \in Seq(Frames)
  BY DEF Profiles
<1>3. /\ of \in Seq(Frames)
      /\ \A i \in 1 .. Len(of) : \E k \in 1 .. Len(p.frames) : k \in S /\ of[i] = p.frames[k]
      /\ \A k \in 1 .. Len(p.frames) : k \in S => \E i \in 1 .. Len(of) : of[i] = p.frames[k]
  <2>. DEFINE all == p.frames
  <2>1. all \in Seq(Frames)
    BY <1>2
  <2>. HIDE DEF S, all
  <2>2. of = Chosen(all, S)
    BY DEF all
  <2>3. of \in Seq(Frames)
    BY <2>1, <2>2, ChosenElements
  <2>4. ASSUME NEW i \in 1 .. Len(of) PROVE \E k \in 1 .. Len(all) : k \in S /\ of[i] = all[k]
    BY <2>1, <2>2, ChosenElements
  <2>5. ASSUME NEW k \in 1 .. Len(all), k \in S PROVE \E i \in 1 .. Len(of) : of[i] = all[k]
    BY <2>1, <2>2, <2>5, ChosenElements
  <2>. HIDE DEF of
  <2>. QED  BY <2>3, <2>4, <2>5 DEF all
<1>. HIDE DEF of
<1>4. s \in Seq(Text) /\ Len(s) = Len(of) /\ \A i \in 1 .. Len(of) : s[i] = of[i].module
  <2>1. ASSUME NEW i \in 1 .. Len(of) PROVE of[i].module \in Text
    <3>1. of[i] \in Frames
      BY <1>3, ElementIs
    <3>. QED  BY <3>1 DEF Frames
  <2>2. Len(of) \in Nat
    BY <1>3
  <2>. QED  BY <2>1, <2>2
<1>. HIDE DEF s
<1>5. /\ Modules(p) \in Seq(Text)
      /\ \A i \in 1 .. Len(Modules(p)) : \E k \in 1 .. Len(s) : Modules(p)[i] = s[k]
  BY <1>1, <1>4, InternedIs
<1>6. ASSUME NEW i \in 1 .. Len(Modules(p)) PROVE IsFrameText(p, Modules(p)[i])
  <2>1. PICK k \in 1 .. Len(s) : Modules(p)[i] = s[k]
    BY <1>5
  <2>2. PICK n \in 1 .. Len(p.frames) : n \in S /\ of[k] = p.frames[n]
    BY <1>3, <1>4, <2>1
  <2>3. Modules(p)[i] = p.frames[n].module /\ IsSome(p.frames[n].module)
    BY <1>4, <2>1, <2>2
  <2>4. Modules(p)[i] \in TextsOf(p.frames[n])
    BY <2>3 DEF TextsOf
  <2>. QED  BY <2>4 DEF IsFrameText
<1>7. ASSUME NEW i \in 1 .. Len(p.frames), IsSome(p.frames[i].module)
      PROVE  /\ IndexOf(Modules(p), p.frames[i].module) \in 1 .. Len(Modules(p))
             /\ Modules(p)[IndexOf(Modules(p), p.frames[i].module)] = p.frames[i].module
  <2>1. PICK k \in 1 .. Len(of) : of[k] = p.frames[i]
    BY <1>3, <1>7
  <2>2. k \in 1 .. Len(s) /\ s[k] = p.frames[i].module
    BY <1>4, <2>1
  <2>3. /\ IndexOf(Interned(s), s[k]) \in 1 .. Len(Interned(s))
        /\ Interned(s)[IndexOf(Interned(s), s[k])] = s[k]
    BY <1>4, <2>2, InTableOnce
  <2>. QED  BY <1>1, <2>2, <2>3
<1>8. Len(Modules(p)) \in Nat
  BY <1>5
<1>. QED  BY <1>5, <1>6, <1>7, <1>8

\* 0 for a number that is not there.
Number(n) == IF n = NoNumber THEN 0 ELSE n

LocationOf(p, i) ==
    [id |-> i,
     mapping_id |-> IF IsSome(p.frames[i].module)
                    THEN IndexOf(Modules(p), p.frames[i].module) ELSE 0,
     address |-> Number(p.frames[i].address),
     line |-> IF HasLine(p.frames[i])
              THEN <<[function_id |-> i, line |-> Number(p.frames[i].line)]>>
              ELSE <<>>]

FunctionOf(p, i) ==
    [id |-> i, name |-> Str(p, Texts(p.frames[i].function)),
     filename |-> Str(p, Texts(p.frames[i].file))]

\* The frames that need a function.
Lined(p) == Only(Positions(p.frames), LAMBDA i : HasLine(p.frames[i]))

LEMMA LinedIs ==
    ASSUME NEW p \in Profiles
    PROVE  /\ Lined(p) \in Seq(1 .. Len(p.frames)) /\ Len(Lined(p)) \in Nat
           /\ \A k \in 1 .. Len(Lined(p)) :
                 Lined(p)[k] \in 1 .. Len(p.frames) /\ HasLine(p.frames[Lined(p)[k]])
           /\ \A i \in 1 .. Len(p.frames) :
                 HasLine(p.frames[i]) => \E k \in 1 .. Len(Lined(p)) : Lined(p)[k] = i
<1>. DEFINE P == Positions(p.frames)
            S == {i \in 1 .. Len(P) : HasLine(p.frames[P[i]])}
            c == Chosen(P, S)
<1>1. Lined(p) = c
  BY DEF Lined, Only
<1>2. P \in Seq(1 .. Len(p.frames)) /\ Len(P) = Len(p.frames)
      /\ \A i \in 1 .. Len(p.frames) : P[i] = i
  <2>1. Len(p.frames) \in Nat
    BY DEF Profiles
  <2>. QED  BY <2>1 DEF Positions
<1>. HIDE DEF P
<1>3. /\ c \in Seq(1 .. Len(p.frames))
      /\ \A i \in 1 .. Len(c) : \E k \in 1 .. Len(P) : k \in S /\ c[i] = P[k]
      /\ \A k \in 1 .. Len(P) : k \in S => \E i \in 1 .. Len(c) : c[i] = P[k]
  <2>. HIDE DEF S
  <2>. QED  BY <1>2, ChosenElements
<1>. HIDE DEF c
<1>4. \A k \in 1 .. Len(P) : k \in S <=> HasLine(p.frames[k])
  BY <1>2
<1>. HIDE DEF S
<1>5. Len(c) \in Nat
  BY <1>3
<1>6. ASSUME NEW k \in 1 .. Len(c)
      PROVE  c[k] \in 1 .. Len(p.frames) /\ HasLine(p.frames[c[k]])
  BY <1>2, <1>3, <1>4
<1>7. ASSUME NEW i \in 1 .. Len(p.frames), HasLine(p.frames[i])
      PROVE  \E k \in 1 .. Len(c) : c[k] = i
  BY <1>2, <1>3, <1>4, <1>7
<1>. QED  BY <1>1, <1>3, <1>5, <1>6, <1>7

\* q refers to frames, modules and strings as the writer does.
Refers(p, q) ==
    /\ q.sample_type = [i \in 1 .. Len(p.value_kinds) |->
                           [type |-> Str(p, p.value_kinds[i].kind),
                            unit |-> Str(p, p.value_kinds[i].unit)]]
    /\ q.sample = [i \in 1 .. Len(p.samples) |->
                      [location_id |-> LocationIds(p.samples[i]), value |-> p.samples[i].values]]
    /\ q.mapping = [i \in 1 .. Len(Modules(p)) |-> [id |-> i, filename |-> Str(p, Modules(p)[i])]]
    /\ q.location = [i \in 1 .. Len(p.frames) |-> LocationOf(p, i)]
    /\ q.function = [k \in 1 .. Len(Lined(p)) |-> FunctionOf(p, Lined(p)[k])]

LEMMA ConvertedRefers ==
    ASSUME NEW p
    PROVE  /\ Refers(p, convert_to_proto(p))
           /\ convert_to_proto(p).string_table = StringTable(p)
<1>. DEFINE lined == Lined(p)
            q == [sample_type |-> [i \in 1 .. Len(p.value_kinds) |->
                                      [type |-> Str(p, p.value_kinds[i].kind),
                                       unit |-> Str(p, p.value_kinds[i].unit)]],
                  sample |-> [i \in 1 .. Len(p.samples) |->
                                 [location_id |-> LocationIds(p.samples[i]),
                                  value |-> p.samples[i].values]],
                  mapping |-> [i \in 1 .. Len(Modules(p)) |->
                                  [id |-> i, filename |-> Str(p, Modules(p)[i])]],
                  location |-> [i \in 1 .. Len(p.frames) |-> LocationOf(p, i)],
                  function |-> [k \in 1 .. Len(lined) |-> FunctionOf(p, lined[k])],
                  string_table |-> StringTable(p)]
<1>1. convert_to_proto(p) = q
  BY DEF convert_to_proto, Str, LocationOf, FunctionOf, Lined, Number
<1>. QED  BY <1>1 DEF Refers

\* The entries of e with the id are all x, and there is one.
Always(e, id, x) ==
    /\ \E k \in 1 .. Len(e) : e[k].id = id
    /\ \A k \in 1 .. Len(e) : e[k].id = id => e[k] = x

\* What a reference finds, when all the entries of its id are alike, and when there are none.
LEMMA NamedAt ==
    ASSUME NEW e, Len(e) \in Nat, NEW id, NEW x, Always(e, id, x)
    PROVE  Named(e, id) = {x}
<1>. DEFINE I == {i \in 1 .. Len(e) : e[i].id = id}
<1>1. I # {} /\ I \subseteq 0 .. Len(e) /\ I \subseteq 1 .. Len(e)
  BY DEF Always
<1>2. Named(e, id) = LET at == Max(I) IN IF at = 0 THEN {} ELSE {e[at]}
  BY <1>1 DEF Named, SelectLastInSeq
<1>3. Max(I) \in I
  <2>. HIDE DEF I
  <2>. QED  BY <1>1, MaxIs
<1>4. Max(I) # 0 /\ e[Max(I)] = x
  BY <1>1, <1>3 DEF Always
<1>. QED  BY <1>2, <1>4

LEMMA NamedNone ==
    ASSUME NEW e, Len(e) \in Nat, NEW id, \A k \in 1 .. Len(e) : e[k].id # id
    PROVE  Named(e, id) = {}
<1>. DEFINE I == {i \in 1 .. Len(e) : e[i].id = id}
<1>1. I = {}
  OBVIOUS
<1>. QED  BY <1>1 DEF Named, SelectLastInSeq

\* The first location of an id that only one has.
LEMMA SelectOnly ==
    ASSUME NEW s, Len(s) \in Nat, NEW k \in 1 .. Len(s),
           \A i \in 1 .. Len(s) : s[i].id = i
    PROVE  SelectInSeq(s, LAMBDA l : l.id = k) = k
<1>. DEFINE I == {i \in 1 .. Len(s) : s[i].id = k}
<1>1. \A i : i \in I <=> i = k
  OBVIOUS
<1>2. I \subseteq Nat /\ I # {}
  BY <1>1
<1>3. SelectInSeq(s, LAMBDA l : l.id = k) = Min(I)
  BY <1>2 DEF SelectInSeq
<1>. HIDE DEF I
<1>4. Min(I) \in I
  BY <1>2, MinIs
<1>. QED  BY <1>1, <1>3, <1>4

LEMMA ReverseIs ==
    ASSUME NEW X, NEW s \in Seq(X)
    PROVE  /\ Reverse(s) \in Seq(X) /\ Len(Reverse(s)) = Len(s)
           /\ \A j \in 1 .. Len(s) : /\ (Len(s) - j) + 1 \in 1 .. Len(s)
                                     /\ Reverse(s)[j] = s[(Len(s) - j) + 1]
<1>1. Len(s) \in Nat
  OBVIOUS
<1>2. \A j \in 1 .. Len(s) : (Len(s) - j) + 1 \in 1 .. Len(s)
  BY <1>1
<1>3. \A j \in 1 .. Len(s) : s[(Len(s) - j) + 1] \in X
  BY <1>2
<1>4. Reverse(s) = [j \in 1 .. Len(s) |-> s[(Len(s) - j) + 1]]
  BY DEF Reverse
<1>. QED  BY <1>1, <1>2, <1>3, <1>4

\* The sample's locations are its frames', each id one more than the index.
LEMMA LocationIdsAre ==
    ASSUME NEW s, s.stack \in Seq(Nat)
    PROVE  /\ LocationIds(s) \in Seq(Nat) /\ Len(LocationIds(s)) = Len(s.stack)
           /\ \A j \in 1 .. Len(s.stack) :
                 /\ (Len(s.stack) - j) + 1 \in 1 .. Len(s.stack)
                 /\ LocationIds(s)[j] = s.stack[(Len(s.stack) - j) + 1] + 1
<1>. DEFINE up == [j \in 1 .. Len(s.stack) |-> s.stack[j] + 1]
<1>1. /\ up \in Seq(Nat) /\ Len(up) = Len(s.stack) /\ Len(s.stack) \in Nat
      /\ \A j \in 1 .. Len(s.stack) : up[j] = s.stack[j] + 1
  <2>1. \A j \in 1 .. Len(s.stack) : s.stack[j] + 1 \in Nat
    OBVIOUS
  <2>2. Len(s.stack) \in Nat
    OBVIOUS
  <2>. QED  BY <2>1, <2>2
<1>2. LocationIds(s) = Reverse(up)
  BY DEF LocationIds
<1>. HIDE DEF up
<1>3. /\ Reverse(up) \in Seq(Nat) /\ Len(Reverse(up)) = Len(up)
      /\ \A j \in 1 .. Len(up) : /\ (Len(up) - j) + 1 \in 1 .. Len(up)
                                 /\ Reverse(up)[j] = up[(Len(up) - j) + 1]
  BY <1>1, ReverseIs
<1>. QED  BY <1>1, <1>2, <1>3

\* The strings there are places for.
Placed(p, x) == Str(p, x) \in 0 .. Len(StringTable(p)) - 1 /\ StringTable(p)[Str(p, x) + 1] = x

\* What the writer refers to is there.
LEMMA AllPlaced ==
    ASSUME NEW p \in Profiles
    PROVE  /\ \A i \in 1 .. Len(p.value_kinds) :
                 Placed(p, p.value_kinds[i].kind) /\ Placed(p, p.value_kinds[i].unit)
           /\ \A k \in 1 .. Len(Modules(p)) : Placed(p, Modules(p)[k])
           /\ \A i \in 1 .. Len(p.frames) : HasLine(p.frames[i]) =>
                 /\ Placed(p, Texts(p.frames[i].function))
                 /\ Placed(p, Texts(p.frames[i].file))
<1>1. ASSUME NEW x, IsKindText(p, x) \/ IsFrameText(p, x) PROVE Placed(p, x)
  BY <1>1, StrIs DEF Placed
<1>2. ASSUME NEW i \in 1 .. Len(p.value_kinds)
      PROVE  Placed(p, p.value_kinds[i].kind) /\ Placed(p, p.value_kinds[i].unit)
  <2>1. IsKindText(p, p.value_kinds[i].kind) /\ IsKindText(p, p.value_kinds[i].unit)
    BY DEF IsKindText
  <2>. QED  BY <1>1, <2>1
<1>3. ASSUME NEW k \in 1 .. Len(Modules(p)) PROVE Placed(p, Modules(p)[k])
  <2>1. IsFrameText(p, Modules(p)[k])
    BY ModulesAre
  <2>. QED  BY <1>1, <2>1
<1>4. ASSUME NEW i \in 1 .. Len(p.frames), HasLine(p.frames[i])
      PROVE  Placed(p, Texts(p.frames[i].function)) /\ Placed(p, Texts(p.frames[i].file))
  <2>1. /\ Texts(p.frames[i].function) \in TextsOf(p.frames[i])
        /\ Texts(p.frames[i].file) \in TextsOf(p.frames[i])
    BY <1>4 DEF TextsOf
  <2>2. /\ IsFrameText(p, Texts(p.frames[i].function))
        /\ IsFrameText(p, Texts(p.frames[i].file))
    BY <2>1 DEF IsFrameText
  <2>. QED  BY <1>1, <2>2
<1>. QED  BY <1>2, <1>3, <1>4

LEMMA PlacedIs ==
    ASSUME NEW p \in Profiles, NEW x, Placed(p, x)
    PROVE  Str(p, x) \in Nat /\ InTable(StringTable(p), Str(p, x))
BY StringsAre DEF Placed, InTable

LEMMA LocationIsTyped ==
    ASSUME NEW p \in Profiles, NEW i \in 1 .. Len(p.frames)
    PROVE  LocationOf(p, i) \in [id : Nat, mapping_id : Nat, address : Nat,
                                 line : Seq([function_id : Nat, line : Int])]
<1>. DEFINE f == p.frames[i]
            m == IF IsSome(f.module) THEN IndexOf(Modules(p), f.module) ELSE 0
            Line == [function_id : Nat, line : Int]
            line == IF HasLine(f) THEN <<[function_id |-> i, line |-> Number(f.line)]>> ELSE <<>>
<1>1. f \in Frames /\ i \in Nat
  <2>1. p.frames \in Seq(Frames)
    BY DEF Profiles
  <2>. QED  BY <2>1, ElementIs
<1>2. m \in Nat
  <2>1. IsSome(f.module) => IndexOf(Modules(p), f.module) \in Nat
    BY ModulesAre
  <2>. QED  BY <2>1
<1>3. Number(f.address) \in Nat /\ Number(f.line) \in Int
  BY <1>1 DEF Frames, Number
<1>4. line \in Seq(Line)
  <2>1. [function_id |-> i, line |-> Number(f.line)] \in Line
    BY <1>1, <1>3
  <2>. HIDE DEF Line
  <2>. QED  BY <2>1
<1>5. LocationOf(p, i) = [id |-> i, mapping_id |-> m, address |-> Number(f.address), line |-> line]
  BY DEF LocationOf
<1>. HIDE DEF f, m, line
<1>. QED  BY <1>1, <1>2, <1>3, <1>4, <1>5

\* What is written of a profile is what the fields of a message may hold.
LEMMA ConvertedIsProto ==
    ASSUME NEW p \in Profiles PROVE IsProto(convert_to_proto(p))
<1>. DEFINE q == convert_to_proto(p)
<1>0. Refers(p, q) /\ q.string_table = StringTable(p)
  BY ConvertedRefers
<1>. HIDE DEF q
<1>1. /\ Len(p.value_kinds) \in Nat /\ Len(p.samples) \in Nat /\ Len(p.frames) \in Nat
      /\ Len(Modules(p)) \in Nat /\ Len(Lined(p)) \in Nat
  BY ModulesAre, LinedIs DEF Profiles
<1>2. q.sample_type \in Seq([type : Int, unit : Int])
  <2>1. ASSUME NEW i \in 1 .. Len(p.value_kinds)
        PROVE  Str(p, p.value_kinds[i].kind) \in Int /\ Str(p, p.value_kinds[i].unit) \in Int
    BY AllPlaced, PlacedIs
  <2>. QED  BY <1>0, <1>1, <2>1 DEF Refers
<1>3. q.sample \in Seq([location_id : Seq(Nat), value : Seq(Int)])
  <2>1. ASSUME NEW i \in 1 .. Len(p.samples)
        PROVE  LocationIds(p.samples[i]) \in Seq(Nat) /\ p.samples[i].values \in Seq(Int)
    <3>. DEFINE Smp == [stack : Seq(Nat), values : Seq(Int)]
    <3>1. p.samples[i] \in Smp
      <4>1. p.samples \in Seq(Smp)
        BY DEF Profiles
      <4>. HIDE DEF Smp
      <4>. QED  BY <4>1, ElementIs
    <3>2. p.samples[i].stack \in Seq(Nat) /\ p.samples[i].values \in Seq(Int)
      BY <3>1
    <3>. QED  BY <3>2, LocationIdsAre
  <2>. QED  BY <1>0, <1>1, <2>1 DEF Refers
<1>4. q.mapping \in Seq([id : Nat, filename : Int])
  <2>1. ASSUME NEW k \in 1 .. Len(Modules(p)) PROVE k \in Nat /\ Str(p, Modules(p)[k]) \in Int
    BY AllPlaced, PlacedIs
  <2>. QED  BY <1>0, <1>1, <2>1 DEF Refers
<1>5. q.location \in Seq([id : Nat, mapping_id : Nat, address : Nat,
                          line : Seq([function_id : Nat, line : Int])])
  BY <1>0, <1>1, LocationIsTyped DEF Refers
<1>6. q.function \in Seq([id : Nat, name : Int, filename : Int])
  <2>1. ASSUME NEW k \in 1 .. Len(Lined(p))
        PROVE  FunctionOf(p, Lined(p)[k]) \in [id : Nat, name : Int, filename : Int]
    <3>1. Lined(p)[k] \in 1 .. Len(p.frames) /\ HasLine(p.frames[Lined(p)[k]])
      BY LinedIs
    <3>2. /\ Str(p, Texts(p.frames[Lined(p)[k]].function)) \in Int
          /\ Str(p, Texts(p.frames[Lined(p)[k]].file)) \in Int
      BY <3>1, AllPlaced, PlacedIs
    <3>. QED  BY <3>1, <3>2 DEF FunctionOf
  <2>. QED  BY <1>0, <1>1, <2>1 DEF Refers
<1>7. q.string_table \in Seq(Text)
  BY <1>0, StringsAre
<1>8. ASSUME NEW tag \in ToSet(Tags) PROVE q[tag] \in Seq(FieldTypes[tag])
  <2>1. /\ q["sample_type"] \in Seq(FieldTypes["sample_type"])
        /\ q["sample"] \in Seq(FieldTypes["sample"])
        /\ q["mapping"] \in Seq(FieldTypes["mapping"])
        /\ q["location"] \in Seq(FieldTypes["location"])
        /\ q["function"] \in Seq(FieldTypes["function"])
        /\ q["string_table"] \in Seq(FieldTypes["string_table"])
    BY <1>2, <1>3, <1>4, <1>5, <1>6, <1>7 DEF FieldTypes
  <2>2. tag \in {"sample_type", "sample", "mapping", "location", "function", "string_table"}
    BY TagsAre
  <2>. QED  BY ONLY <2>1, <2>2
<1>. QED  BY <1>8 DEF IsProto, q

-----------------------------------------------------------------------------
(* What the pprof reader finds of what was written                         *)

Block(proto, t) == [i \in 1 .. Len(proto[Tags[t]]) |-> <<Tags[t], proto[Tags[t]][i]>>]

\* Where the fields of each tag end.
Offsets(proto, o) ==
    /\ o \in [0 .. 6 -> Nat] /\ o[0] = 0 /\ Len(encode(proto)) = o[6]
    /\ \A t \in 1 .. 6 : o[t] = o[t - 1] + Len(proto[Tags[t]])
    /\ \A t \in 1 .. 6 : \A i \in 1 .. Len(proto[Tags[t]]) :
          encode(proto)[o[t - 1] + i] = <<Tags[t], proto[Tags[t]][i]>>

LEMMA EncodedIs ==
    ASSUME NEW proto, IsProto(proto)
    PROVE  encode(proto) \in Seq(Fields) /\ \E o : Offsets(proto, o)
<1>. DEFINE ss == [t \in 1 .. Len(Tags) |-> Block(proto, t)]
            E == encode(proto)
<1>1. E = FlattenSeq(ss)
  BY DEF encode, Block
<1>2. ASSUME NEW t \in 1 .. 6
      PROVE  /\ Len(proto[Tags[t]]) \in Nat /\ Block(proto, t) \in Seq(Fields)
             /\ Len(Block(proto, t)) = Len(proto[Tags[t]])
             /\ \A i \in 1 .. Len(proto[Tags[t]]) :
                    Block(proto, t)[i] = <<Tags[t], proto[Tags[t]][i]>>
  <2>. DEFINE tag == Tags[t]
              s == proto[tag]
              X == FieldTypes[tag]
  <2>1. tag \in ToSet(Tags) /\ s \in Seq(X)
    BY TagsAre DEF IsProto
  <2>2. Block(proto, t) = [i \in 1 .. Len(s) |-> <<tag, s[i]>>]
    BY DEF Block
  <2>. HIDE DEF tag, s, X
  <2>3. Len(s) \in Nat
    BY <2>1
  <2>4. ASSUME NEW i \in 1 .. Len(s) PROVE <<tag, s[i]>> \in Fields
    <3>1. <<tag, s[i]>> \in {tag} \X X
      BY <2>1
    <3>. QED  BY <2>1, <3>1, FieldsAre DEF X
  <2>5. /\ Block(proto, t) \in Seq(Fields) /\ Len(Block(proto, t)) = Len(s)
        /\ \A i \in 1 .. Len(s) : Block(proto, t)[i] = <<tag, s[i]>>
    BY <2>2, <2>3, <2>4
  <2>. QED  BY <2>3, <2>5 DEF s, tag
<1>3. ss \in Seq(Seq(Fields)) /\ Len(ss) = 6 /\ \A t \in 1 .. 6 : ss[t] = Block(proto, t)
  BY <1>2, TagsAre
<1>. HIDE DEF ss
<1>4. E \in Seq(Fields)
  BY <1>1, <1>3, FlattenIs
<1>5. PICK o : Laid(FlattenSeq(ss), ss, o)
  BY <1>3, FlattenLaid
<1>. HIDE DEF E
<1>6. /\ o \in [0 .. 6 -> Nat] /\ o[0] = 0 /\ Len(E) = o[6]
      /\ \A t \in 1 .. 6 : o[t] = o[t - 1] + Len(ss[t])
      /\ \A t \in 1 .. 6 : \A i \in 1 .. Len(ss[t]) : E[o[t - 1] + i] = ss[t][i]
  BY <1>1, <1>3, <1>5 DEF Laid
<1>7. Offsets(proto, o)
  <2>1. ASSUME NEW t \in 1 .. 6 PROVE o[t] = o[t - 1] + Len(proto[Tags[t]])
    <3>1. Len(ss[t]) = Len(proto[Tags[t]])
      BY <1>2, <1>3
    <3>2. o[t] = o[t - 1] + Len(ss[t])
      BY <1>6
    <3>. QED  BY ONLY <3>1, <3>2
  <2>2. ASSUME NEW t \in 1 .. 6, NEW i \in 1 .. Len(proto[Tags[t]])
        PROVE  E[o[t - 1] + i] = <<Tags[t], proto[Tags[t]][i]>>
    <3>1. i \in 1 .. Len(ss[t]) /\ ss[t][i] = <<Tags[t], proto[Tags[t]][i]>>
      BY <1>2, <1>3
    <3>. QED  BY <1>6, <3>1
  <2>. QED  BY <1>6, <2>1, <2>2 DEF Offsets, E
<1>. QED  BY <1>4, <1>7 DEF E

LEMMA OffsetsAre ==
    ASSUME NEW proto, IsProto(proto), NEW o, Offsets(proto, o)
    PROVE  /\ \A t \in 0 .. 6 : o[t] \in Nat
           /\ \A t \in 1 .. 6 : /\ Len(proto[Tags[t]]) \in Nat
                                /\ o[t] = o[t - 1] + Len(proto[Tags[t]]) /\ o[t - 1] \in Nat
           /\ o[0] = 0 /\ Len(encode(proto)) = o[6]
           /\ o[0] <= o[1] /\ o[1] <= o[2] /\ o[2] <= o[3] /\ o[3] <= o[4]
           /\ o[4] <= o[5] /\ o[5] <= o[6]
<1>1. \A t \in 1 .. 6 : Len(proto[Tags[t]]) \in Nat
  <2>1. ASSUME NEW t \in 1 .. 6 PROVE proto[Tags[t]] \in Seq(FieldTypes[Tags[t]])
    BY TagsAre DEF IsProto
  <2>. QED  BY <2>1
<1>2. /\ \A t \in 0 .. 6 : o[t] \in Nat
      /\ \A t \in 1 .. 6 : o[t] = o[t - 1] + Len(proto[Tags[t]])
      /\ o[0] = 0 /\ Len(encode(proto)) = o[6]
  BY DEF Offsets
<1>3. \A t \in 1 .. 6 : t - 1 \in 0 .. 6 /\ t \in 0 .. 6
  OBVIOUS
<1>4. ASSUME NEW t \in 1 .. 6 PROVE o[t - 1] \in Nat /\ o[t - 1] <= o[t]
  <2>1. o[t - 1] \in Nat
    BY <1>2, <1>3
  <2>2. o[t] = o[t - 1] + Len(proto[Tags[t]]) /\ Len(proto[Tags[t]]) \in Nat
    BY <1>1, <1>2
  <2>. QED  BY ONLY <2>1, <2>2
<1>5. /\ o[1 - 1] <= o[1] /\ o[2 - 1] <= o[2] /\ o[3 - 1] <= o[3] /\ o[4 - 1] <= o[4]
      /\ o[5 - 1] <= o[5] /\ o[6 - 1] <= o[6]
  BY <1>4
<1>6. 1 - 1 = 0 /\ 2 - 1 = 1 /\ 3 - 1 = 2 /\ 4 - 1 = 3 /\ 5 - 1 = 4 /\ 6 - 1 = 5
  OBVIOUS
<1>. QED  BY <1>1, <1>2, <1>4, <1>5, <1>6

\* Which of the fields written have which tag.
LEMMA TagAt ==
    ASSUME NEW proto, IsProto(proto), NEW o, Offsets(proto, o),
           NEW k \in 1 .. Len(encode(proto)), NEW t \in 1 .. 6
    PROVE  encode(proto)[k][1] = Tags[t] <=> o[t - 1] < k /\ k <= o[t]
<1>. DEFINE E == encode(proto)
<1>1. /\ \A u \in 0 .. 6 : o[u] \in Nat
      /\ \A u \in 1 .. 6 : /\ Len(proto[Tags[u]]) \in Nat
                           /\ o[u] = o[u - 1] + Len(proto[Tags[u]]) /\ o[u - 1] \in Nat
      /\ o[0] = 0 /\ Len(E) = o[6]
      /\ o[0] <= o[1] /\ o[1] <= o[2] /\ o[2] <= o[3] /\ o[3] <= o[4]
      /\ o[4] <= o[5] /\ o[5] <= o[6]
  BY OffsetsAre
<1>. HIDE DEF E
<1>2. ASSUME NEW u \in 1 .. 6, o[u - 1] < k, k <= o[u] PROVE encode(proto)[k][1] = Tags[u]
  <2>1. k - o[u - 1] \in 1 .. Len(proto[Tags[u]]) /\ o[u - 1] + (k - o[u - 1]) = k
    <3>1. o[u] = o[u - 1] + Len(proto[Tags[u]]) /\ o[u - 1] \in Nat /\ Len(proto[Tags[u]]) \in Nat
      BY <1>1
    <3>2. k \in Nat
      BY <1>1 DEF E
    <3>. QED  BY ONLY <1>2, <3>1, <3>2
  <2>2. encode(proto)[o[u - 1] + (k - o[u - 1])] = <<Tags[u], proto[Tags[u]][k - o[u - 1]]>>
    BY <2>1 DEF Offsets
  <2>. QED  BY <2>1, <2>2
<1>3. \E u \in 1 .. 6 : o[u - 1] < k /\ k <= o[u]
  <2>1. o[0] < k /\ k <= o[6] /\ k \in Nat
    BY <1>1 DEF E
  <2>2. \/ o[0] < k /\ k <= o[1]
        \/ o[1] < k /\ k <= o[2]
        \/ o[2] < k /\ k <= o[3]
        \/ o[3] < k /\ k <= o[4]
        \/ o[4] < k /\ k <= o[5]
        \/ o[5] < k /\ k <= o[6]
    <3>1. /\ o[0] \in Nat /\ o[1] \in Nat /\ o[2] \in Nat /\ o[3] \in Nat
          /\ o[4] \in Nat /\ o[5] \in Nat /\ o[6] \in Nat
      BY <1>1
    <3>2. \A a, b \in Nat : a < k => k <= b \/ b < k
      BY <2>1
    <3>. QED  BY ONLY <2>1, <3>1, <3>2, Zenon
  <2>3. /\ 1 - 1 = 0 /\ 2 - 1 = 1 /\ 3 - 1 = 2 /\ 4 - 1 = 3 /\ 5 - 1 = 4 /\ 6 - 1 = 5
        /\ 1 \in 1 .. 6 /\ 2 \in 1 .. 6 /\ 3 \in 1 .. 6 /\ 4 \in 1 .. 6 /\ 5 \in 1 .. 6 /\ 6 \in 1 .. 6
    OBVIOUS
  <2>. QED  BY <2>2, <2>3
<1>4. PICK u \in 1 .. 6 : o[u - 1] < k /\ k <= o[u]
  BY <1>3
<1>5. encode(proto)[k][1] = Tags[u]
  BY <1>2, <1>4
<1>6. Tags[u] = Tags[t] => u = t
  BY DEF Tags
<1>. QED  BY <1>2, <1>4, <1>5, <1>6

\* The smaller of two numbers.
Least2(x, n) == IF x <= n THEN x ELSE n

\* d is the first m elements of s.
IsStart(d, s, m) == m <= Len(s) /\ Len(d) = m /\ \A i \in 1 .. m : d[i] = s[i]

\* Of the first n fields, the decoder makes the start of each table.
LEMMA DecodedStart ==
    ASSUME NEW proto, IsProto(proto), NEW o, Offsets(proto, o),
           NEW n \in 0 .. Len(encode(proto)), NEW t \in 1 .. 6
    PROVE  IsStart(decode(SubSeq(encode(proto), 1, n))[Tags[t]], proto[Tags[t]],
                   Least2(o[t], n) - Least2(o[t - 1], n))
<1>. DEFINE E == encode(proto)
            fields == SubSeq(E, 1, n)
            tag == Tags[t]
            S == {i \in 1 .. Len(fields) : fields[i][1] = tag}
            these == Chosen(fields, S)
            s == proto[tag]
            a == Least2(o[t - 1], n)
            b == Least2(o[t], n)
            d == [i \in 1 .. Len(these) |-> these[i][2]]
<1>1. decode(fields)[tag] = d
  <2>1. tag \in ToSet(Tags)
    BY TagsAre
  <2>. HIDE DEF fields, tag
  <2>. QED  BY <2>1 DEF decode, Only
<1>2. E \in Seq(Fields) /\ Len(E) \in Nat /\ n \in Nat /\ n <= Len(E)
  <2>1. E \in Seq(Fields)
    BY EncodedIs
  <2>2. Len(E) \in Nat
    BY <2>1
  <2>. QED  BY <2>1, <2>2
<1>3. /\ fields \in Seq(Fields) /\ Len(fields) = n
      /\ \A i \in 1 .. n : fields[i] = E[i] /\ i \in 1 .. Len(E)
  <2>. HIDE DEF E
  <2>1. /\ SubSeq(E, 1, n) \in Seq(Fields) /\ Len(SubSeq(E, 1, n)) = n - 1 + 1
        /\ \A i \in 1 .. n - 1 + 1 : SubSeq(E, 1, n)[i] = E[1 + i - 1]
    BY <1>2, PartIs
  <2>2. n - 1 + 1 = n /\ \A i \in 1 .. n : 1 + i - 1 = i /\ i \in 1 .. Len(E)
    BY <1>2
  <2>. QED  BY <2>1, <2>2
<1>. HIDE DEF fields
<1>4. /\ o[t] = o[t - 1] + Len(s) /\ Len(s) \in Nat /\ o[t - 1] \in Nat /\ o[t] \in Nat
  <2>1. o[t] = o[t - 1] + Len(s) /\ Len(s) \in Nat /\ o[t - 1] \in Nat
    BY OffsetsAre
  <2>2. o[t] \in Nat
    BY ONLY <2>1
  <2>. QED  BY <2>1, <2>2
<1>5. \A k \in 1 .. n : k \in S <=> o[t - 1] < k /\ k <= o[t]
  <2>1. ASSUME NEW k \in 1 .. n PROVE E[k][1] = tag <=> o[t - 1] < k /\ k <= o[t]
    BY <1>3, TagAt
  <2>2. \A k \in 1 .. n : k \in S <=> E[k][1] = tag
    BY <1>3
  <2>. QED  BY <2>1, <2>2
<1>6. a \in Nat /\ b \in Nat /\ a <= b /\ b <= n /\ b - a <= Len(s)
  <2>. HIDE DEF s
  <2>. QED  BY <1>2, <1>4 DEF Least2
<1>7. \A k \in 1 .. n : k \in S <=> a < k /\ k <= b
  <2>. HIDE DEF S, s
  <2>. QED  BY <1>2, <1>4, <1>5 DEF Least2
<1>8. these \in Seq(Fields) /\ IsPart(these, fields, a, b)
  <2>. HIDE DEF S, a, b
  <2>1. IsBlock(S, fields, a, b)
    BY <1>3, <1>6, <1>7 DEF IsBlock
  <2>. QED  BY <1>3, <1>6, <2>1, BlockChosen
<1>. HIDE DEF these
<1>9. Len(these) = b - a /\ \A i \in 1 .. b - a : these[i] = fields[a + i]
  BY <1>8 DEF IsPart
<1>10. ASSUME NEW i \in 1 .. b - a PROVE i \in 1 .. Len(s) /\ these[i][2] = s[i]
  <2>1. a + i \in 1 .. n /\ i \in 1 .. Len(s)
    <3>. HIDE DEF a, b, s
    <3>. QED  BY ONLY <1>2, <1>4, <1>6, i \in 1 .. b - a
  <2>2. a = o[t - 1]
    <3>. HIDE DEF s
    <3>. QED  BY <1>2, <1>4 DEF Least2
  <2>3. these[i] = E[o[t - 1] + i]
    BY <1>3, <1>9, <2>1, <2>2
  <2>4. E[o[t - 1] + i] = <<tag, s[i]>>
    BY <2>1 DEF Offsets
  <2>. QED  BY <2>1, <2>3, <2>4
<1>11. Len(d) = b - a /\ \A i \in 1 .. b - a : d[i] = s[i]
  <2>. HIDE DEF a, b, s
  <2>. QED  BY <1>6, <1>9, <1>10
<1>. HIDE DEF d, a, b, s
<1>12. IsStart(d, s, b - a)
  BY <1>6, <1>11 DEF IsStart
<1>. QED  BY <1>1, <1>12 DEF fields, a, b, s

LEMMA StartIsWhole ==
    ASSUME NEW X, NEW s \in Seq(X), NEW d \in Seq(X), IsStart(d, s, Len(s))
    PROVE  d = s
<1>1. Len(s) \in Nat /\ Len(d) = Len(s) /\ \A i \in 1 .. Len(s) : d[i] = s[i]
  BY DEF IsStart
<1>. QED  BY <1>1

\* A prefix of the fields decodes to typed tables.
LEMMA DecodedTables ==
    ASSUME NEW proto, IsProto(proto), NEW n \in 0 .. Len(encode(proto))
    PROVE  /\ IsProto(decode(SubSeq(encode(proto), 1, n)))
           /\ n = Len(encode(proto)) => SubSeq(encode(proto), 1, n) = encode(proto)
<1>. DEFINE E == encode(proto)
<1>1. E \in Seq(Fields) /\ Len(E) \in Nat
  <2>1. E \in Seq(Fields)
    BY EncodedIs
  <2>2. Len(E) \in Nat
    BY <2>1
  <2>. QED  BY <2>1, <2>2
<1>2. n \in Nat /\ n <= Len(E)
  BY <1>1
<1>. HIDE DEF E
<1>3. /\ SubSeq(E, 1, n) \in Seq(Fields) /\ Len(SubSeq(E, 1, n)) = n - 1 + 1
      /\ \A i \in 1 .. n - 1 + 1 : SubSeq(E, 1, n)[i] = E[1 + i - 1]
  BY <1>1, <1>2, PartIs
<1>4. IsProto(decode(SubSeq(E, 1, n)))
  BY <1>3, DecodedIs
<1>5. ASSUME n = Len(E) PROVE SubSeq(E, 1, n) = E
  <2>1. Len(SubSeq(E, 1, n)) = Len(E)
    BY ONLY <1>1, <1>2, <1>3, <1>5
  <2>2. \A i \in 1 .. Len(E) : SubSeq(E, 1, n)[i] = E[i]
    BY <1>2, <1>3, <1>5
  <2>. QED  BY <1>1, <1>3, <2>1, <2>2
<1>. QED  BY <1>4, <1>5 DEF E

\* Of a tag that ends before the n-th field everything is there.
LEMMA WholeTable ==
    ASSUME NEW proto, IsProto(proto), NEW o, Offsets(proto, o),
           NEW n \in 0 .. Len(encode(proto)), NEW t \in 1 .. 6, o[t] <= n
    PROVE  decode(SubSeq(encode(proto), 1, n))[Tags[t]] = proto[Tags[t]]
<1>. DEFINE d == decode(SubSeq(encode(proto), 1, n))[Tags[t]]
            s == proto[Tags[t]]
<1>1. d \in Seq(FieldTypes[Tags[t]]) /\ s \in Seq(FieldTypes[Tags[t]])
  BY DecodedTables, TagsAre DEF IsProto
<1>2. o[t] = o[t - 1] + Len(s) /\ Len(s) \in Nat /\ o[t - 1] \in Nat
  BY OffsetsAre
<1>3. IsStart(d, s, Least2(o[t], n) - Least2(o[t - 1], n))
  BY DecodedStart
<1>. HIDE DEF d, s
<1>4. Least2(o[t], n) - Least2(o[t - 1], n) = Len(s)
  <2>1. Least2(o[t], n) = o[t] /\ Least2(o[t - 1], n) = o[t - 1]
    BY <1>2 DEF Least2
  <2>. QED  BY ONLY <1>2, <2>1
<1>5. IsStart(d, s, Len(s))
  BY <1>3, <1>4
<1>. QED  BY <1>1, <1>5, StartIsWhole DEF d, s

LEMMA DecodedWhole ==
    ASSUME NEW proto, IsProto(proto), NEW tag \in ToSet(Tags)
    PROVE  decode(encode(proto))[tag] = proto[tag]
<1>1. PICK o : Offsets(proto, o)
  BY EncodedIs
<1>2. PICK t \in 1 .. 6 : Tags[t] = tag
  BY TagsAre
<1>3. /\ Len(encode(proto)) = o[6] /\ \A u \in 0 .. 6 : o[u] \in Nat
      /\ o[1] <= o[2] /\ o[2] <= o[3] /\ o[3] <= o[4] /\ o[4] <= o[5] /\ o[5] <= o[6]
  BY <1>1, OffsetsAre
<1>4. o[t] <= o[6] /\ o[6] \in Nat
  <2>1. /\ o[1] \in Nat /\ o[2] \in Nat /\ o[3] \in Nat /\ o[4] \in Nat /\ o[5] \in Nat
        /\ o[6] \in Nat
    BY <1>3
  <2>2. t = 1 \/ t = 2 \/ t = 3 \/ t = 4 \/ t = 5 \/ t = 6
    OBVIOUS
  <2>3. o[5] <= o[6] /\ o[4] <= o[6]
    BY ONLY <1>3, <2>1
  <2>4. o[3] <= o[6] /\ o[2] <= o[6]
    BY ONLY <1>3, <2>1, <2>3
  <2>5. o[1] <= o[6] /\ o[6] <= o[6]
    BY ONLY <1>3, <2>1, <2>4
  <2>. QED  BY ONLY <2>1, <2>2, <2>3, <2>4, <2>5
<1>5. o[6] \in 0 .. Len(encode(proto)) /\ o[6] = Len(encode(proto))
  BY <1>3, <1>4
<1>6. decode(SubSeq(encode(proto), 1, o[6]))[Tags[t]] = proto[Tags[t]]
  BY <1>1, <1>4, <1>5, WholeTable
<1>7. SubSeq(encode(proto), 1, o[6]) = encode(proto)
  BY <1>5, DecodedTables
<1>. QED  BY <1>2, <1>6, <1>7

\* The tables of a message without any string, and of one that lacks the last.
NoStrings(q) == q.string_table = <<>> /\ q.sample_type # <<>>

FewStrings(q, proto) ==
    /\ Len(q.string_table) < Len(proto.string_table)
    /\ q.sample_type = proto.sample_type /\ q.mapping = proto.mapping
    /\ q.location = proto.location /\ q.function = proto.function

LEMMA CutEither ==
    ASSUME NEW proto, IsProto(proto), proto.string_table # <<>>, proto.sample_type # <<>>,
           NEW n \in 1 .. Len(encode(proto)) - 1
    PROVE  LET q == decode(SubSeq(encode(proto), 1, n))
           IN  NoStrings(q) \/ FewStrings(q, proto)
<1>. DEFINE E == encode(proto)
            q == decode(SubSeq(E, 1, n))
<1>1. PICK o : Offsets(proto, o)
  BY EncodedIs
<1>2. /\ \A t \in 0 .. 6 : o[t] \in Nat
      /\ \A t \in 1 .. 6 : o[t] = o[t - 1] + Len(proto[Tags[t]])
      /\ o[0] = 0 /\ Len(E) = o[6]
      /\ o[1] <= o[2] /\ o[2] <= o[3] /\ o[3] <= o[4] /\ o[4] <= o[5] /\ o[5] <= o[6]
  BY <1>1, OffsetsAre
<1>3. /\ o[1] \in Nat /\ o[2] \in Nat /\ o[3] \in Nat /\ o[4] \in Nat /\ o[5] \in Nat
      /\ o[6] \in Nat
  BY <1>2
<1>4. n \in 0 .. Len(E) /\ n \in Nat /\ 1 <= n /\ n < o[6]
  <2>. HIDE DEF E
  <2>1. Len(E) \in Nat /\ n \in 1 .. Len(E) - 1 /\ Len(E) = o[6]
    BY <1>2, <1>3 DEF E
  <2>. QED  BY ONLY <2>1
<1>5. /\ Tags[1] = "sample_type" /\ Tags[3] = "mapping" /\ Tags[4] = "location"
      /\ Tags[5] = "function" /\ Tags[6] = "string_table"
  BY DEF Tags
<1>6. /\ proto.sample_type \in Seq([type : Int, unit : Int]) /\ proto.string_table \in Seq(Text)
      /\ q.sample_type \in Seq([type : Int, unit : Int]) /\ q.string_table \in Seq(Text)
  <2>1. IsProto(q)
    BY <1>4, DecodedTables
  <2>. QED  BY <2>1, ProtoFields
<1>7. Len(proto.sample_type) \in Nat \ {0} /\ Len(proto.string_table) \in Nat \ {0}
  BY <1>6
<1>8. o[1] = Len(proto.sample_type) /\ o[6] = o[5] + Len(proto.string_table)
  <2>1. o[1] = o[1 - 1] + Len(proto[Tags[1]]) /\ o[6] = o[6 - 1] + Len(proto[Tags[6]])
    BY <1>2
  <2>2. 1 - 1 = 0 /\ 6 - 1 = 5
    OBVIOUS
  <2>. QED  BY <1>2, <1>5, <1>7, <2>1, <2>2
<1>9. /\ IsStart(q.string_table, proto.string_table, Least2(o[6], n) - Least2(o[5], n))
      /\ IsStart(q.sample_type, proto.sample_type, Least2(o[1], n) - Least2(o[0], n))
  <2>1. 1 - 1 = 0 /\ 6 - 1 = 5 /\ 1 \in 1 .. 6 /\ 6 \in 1 .. 6
    OBVIOUS
  <2>. HIDE DEF q, E
  <2>2. \A t \in 1 .. 6 : IsStart(q[Tags[t]], proto[Tags[t]], Least2(o[t], n) - Least2(o[t - 1], n))
    BY <1>1, <1>4, DecodedStart DEF q, E
  <2>3. /\ IsStart(q[Tags[6]], proto[Tags[6]], Least2(o[6], n) - Least2(o[6 - 1], n))
        /\ IsStart(q[Tags[1]], proto[Tags[1]], Least2(o[1], n) - Least2(o[1 - 1], n))
    BY <2>2
  <2>. QED  BY <1>5, <2>1, <2>3
<1>10. CASE n < o[5]
  <2>1. Len(q.string_table) = 0 /\ Len(q.sample_type) # 0
    <3>1. /\ Len(q.string_table) = Least2(o[6], n) - Least2(o[5], n)
          /\ Len(q.sample_type) = Least2(o[1], n) - Least2(o[0], n)
      BY <1>9 DEF IsStart
    <3>. HIDE DEF q, E
    <3>. QED  BY ONLY <1>2, <1>3, <1>4, <1>7, <1>8, <1>10, <3>1 DEF Least2
  <2>. HIDE DEF q
  <2>2. NoStrings(q)
    BY <1>6, <2>1 DEF NoStrings
  <2>. QED  BY <2>2 DEF q
<1>11. CASE o[5] <= n
  <2>1. Len(q.string_table) < Len(proto.string_table)
    <3>1. Len(q.string_table) = Least2(o[6], n) - Least2(o[5], n)
      BY <1>9 DEF IsStart
    <3>. HIDE DEF q, E
    <3>. QED  BY ONLY <1>3, <1>4, <1>7, <1>8, <1>11, <3>1 DEF Least2
  <2>2. o[1] <= n /\ o[3] <= n /\ o[4] <= n
    <3>1. o[1] <= o[2] /\ o[2] <= o[3] /\ o[3] <= o[4] /\ o[4] <= o[5]
      BY <1>2
    <3>2. ASSUME NEW a \in Nat, NEW b \in Nat, NEW c \in Nat, a <= b, b <= c PROVE a <= c
      BY <3>2
    <3>3. n \in Nat
      BY <1>4
    <3>4. o[4] <= n
      BY <1>3, <1>11, <3>1, <3>2, <3>3
    <3>5. o[3] <= n
      BY <1>3, <3>1, <3>2, <3>3, <3>4
    <3>6. o[2] <= n
      BY <1>3, <3>1, <3>2, <3>3, <3>5
    <3>. QED  BY <1>3, <3>1, <3>2, <3>3, <3>4, <3>5, <3>6
  <2>3. /\ q[Tags[1]] = proto[Tags[1]] /\ q[Tags[3]] = proto[Tags[3]]
        /\ q[Tags[4]] = proto[Tags[4]] /\ q[Tags[5]] = proto[Tags[5]]
    BY <1>1, <1>4, <1>11, <2>2, WholeTable
  <2>. HIDE DEF q, E
  <2>4. FewStrings(q, proto)
    BY <1>5, <2>1, <2>3 DEF FewStrings
  <2>. QED  BY <2>4 DEF q, E
<1>. QED  BY <1>3, <1>4, <1>10, <1>11

\* The tables that sample stacks lead through, as they were written.
SameTables(p, q) ==
    /\ q.mapping = [i \in 1 .. Len(Modules(p)) |-> [id |-> i, filename |-> Str(p, Modules(p)[i])]]
    /\ q.location = [i \in 1 .. Len(p.frames) |-> LocationOf(p, i)]
    /\ q.function = [k \in 1 .. Len(Lined(p)) |-> FunctionOf(p, Lined(p)[k])]

\* Every location written is read: no two have the same id.
LEMMA AllLocationsRead ==
    ASSUME NEW p \in Profiles, NEW q, SameTables(p, q)
    PROVE  LocationsRead(q) = q.location
<1>. DEFINE N == Len(p.frames)
            loc == q.location
            P == Positions(loc)
            S == {i \in 1 .. Len(P) : \A j \in 1 .. P[i] - 1 : loc[j].id # loc[P[i]].id}
<1>1. /\ N \in Nat /\ loc = [i \in 1 .. N |-> LocationOf(p, i)]
      /\ Len(loc) = N /\ \A i \in 1 .. N : loc[i].id = i
  <2>1. N \in Nat
    BY DEF Profiles
  <2>2. loc = [i \in 1 .. N |-> LocationOf(p, i)]
    BY DEF SameTables
  <2>. HIDE DEF loc, N
  <2>3. \A i \in 1 .. N : loc[i].id = i
    BY <2>2 DEF LocationOf
  <2>. QED  BY <2>1, <2>2, <2>3
<1>2. LocationsRead(q) = [i \in 1 .. Len(Chosen(P, S)) |-> loc[Chosen(P, S)[i]]]
  BY DEF LocationsRead, Only
<1>. HIDE DEF loc, N
<1>3. P \in Seq(1 .. N) /\ Len(P) = N /\ \A i \in 1 .. N : P[i] = i
  BY <1>1 DEF Positions
<1>. HIDE DEF P
<1>4. \A k \in 1 .. Len(P) : k \in S
  <2>1. ASSUME NEW k \in 1 .. N, NEW j \in 1 .. k - 1 PROVE loc[j].id # loc[k].id
    <3>1. j \in 1 .. N /\ j # k
      BY <1>1
    <3>. QED  BY <1>1, <3>1
  <2>. QED  BY <1>3, <2>1
<1>. HIDE DEF S
<1>5. Chosen(P, S) = P
  BY <1>3, <1>4, AllChosen
<1>6. [i \in 1 .. Len(P) |-> loc[P[i]]] = loc
  BY <1>1, <1>3
<1>. QED  BY <1>2, <1>5, <1>6 DEF loc

LEMMA MappingNamed ==
    ASSUME NEW p \in Profiles, NEW q, SameTables(p, q), NEW i \in 1 .. Len(p.frames)
    PROVE  /\ IsSome(p.frames[i].module) =>
                 \E m : /\ Named(q.mapping, LocationOf(p, i).mapping_id) = {m}
                        /\ m.filename = Str(p, p.frames[i].module)
           /\ ~IsSome(p.frames[i].module) => Named(q.mapping, LocationOf(p, i).mapping_id) = {}
<1>. DEFINE M == Modules(p)
            e == q.mapping
            id == LocationOf(p, i).mapping_id
            module == p.frames[i].module
<1>1. /\ Len(M) \in Nat /\ Len(e) = Len(M)
      /\ \A k \in 1 .. Len(M) : e[k] = [id |-> k, filename |-> Str(p, M[k])]
  <2>1. Len(M) \in Nat
    BY ModulesAre
  <2>2. e = [k \in 1 .. Len(M) |-> [id |-> k, filename |-> Str(p, M[k])]]
    BY DEF SameTables
  <2>. HIDE DEF M, e
  <2>. QED  BY <2>1, <2>2
<1>2. ASSUME NEW k \in 1 .. Len(M) PROVE e[k].id = k /\ e[k].filename = Str(p, M[k])
  <2>1. e[k] = [id |-> k, filename |-> Str(p, M[k])]
    BY <1>1
  <2>. HIDE DEF M, e
  <2>. QED  BY ONLY <2>1
<1>3. ASSUME IsSome(module)
      PROVE  \E m : Named(e, id) = {m} /\ m.filename = Str(p, module)
  <2>1. id = IndexOf(M, module)
    BY <1>3 DEF LocationOf
  <2>2. id \in 1 .. Len(M) /\ M[id] = module
    BY <1>3, <2>1, ModulesAre
  <2>. HIDE DEF e, M, id, module
  <2>3. Always(e, id, e[id])
    BY <1>1, <1>2, <2>2 DEF Always
  <2>4. Len(e) \in Nat
    BY <1>1
  <2>5. Named(e, id) = {e[id]}
    BY <2>3, <2>4, NamedAt
  <2>6. e[id].filename = Str(p, module)
    BY <1>2, <2>2
  <2>. QED  BY <2>5, <2>6
<1>4. ASSUME ~IsSome(module) PROVE Named(e, id) = {}
  <2>1. id = 0
    BY <1>4 DEF LocationOf
  <2>. HIDE DEF e, M, id, module
  <2>2. \A k \in 1 .. Len(e) : e[k].id # id
    BY <1>1, <1>2, <2>1
  <2>. QED  BY <1>1, <2>2, NamedNone
<1>. QED  BY <1>3, <1>4

LEMMA FunctionNamed ==
    ASSUME NEW p \in Profiles, NEW q, SameTables(p, q), NEW i \in 1 .. Len(p.frames),
           HasLine(p.frames[i])
    PROVE  Named(q.function, i) = {FunctionOf(p, i)}
<1>. DEFINE L == Lined(p)
            e == q.function
<1>1. /\ Len(L) \in Nat /\ \E k \in 1 .. Len(L) : L[k] = i
  BY LinedIs
<1>2. Len(e) = Len(L) /\ \A k \in 1 .. Len(L) : e[k] = FunctionOf(p, L[k])
  <2>1. e = [k \in 1 .. Len(L) |-> FunctionOf(p, L[k])]
    BY DEF SameTables
  <2>. HIDE DEF L, e
  <2>. QED  BY <1>1, <2>1
<1>. HIDE DEF L, e
<1>3. ASSUME NEW k \in 1 .. Len(L) PROVE e[k].id = L[k]
  <2>1. e[k] = FunctionOf(p, L[k])
    BY <1>2
  <2>2. FunctionOf(p, L[k]).id = L[k]
    BY ONLY TRUE DEF FunctionOf
  <2>. QED  BY ONLY <2>1, <2>2
<1>4. Always(e, i, FunctionOf(p, i))
  BY <1>1, <1>2, <1>3 DEF Always
<1>5. Len(e) \in Nat
  BY <1>1, <1>2
<1>6. Named(e, i) = {FunctionOf(p, i)}
  BY <1>4, <1>5, NamedAt
<1>. QED  BY <1>6 DEF e

\* The strings that a location written refers to are those of its frame.
LEMMA LocationNeeds ==
    ASSUME NEW p \in Profiles, NEW q, SameTables(p, q), NEW i \in 1 .. Len(p.frames)
    PROVE  \A index : index \in LocationStrings(q, LocationOf(p, i)) <=>
                         \E x \in TextsOf(p.frames[i]) : index = Str(p, x)
<1>. DEFINE f == p.frames[i]
            l == LocationOf(p, i)
            ofModule == {m.filename : m \in Named(q.mapping, l.mapping_id)}
            ofLine == UNION {{g.name, g.filename} : g \in
                UNION {Named(q.function, line.function_id) : line \in ToSet(l.line)}}
<1>1. LocationStrings(q, l) = ofModule \cup ofLine
  BY DEF LocationStrings
<1>2. \A index : index \in ofModule <=> IsSome(f.module) /\ index = Str(p, f.module)
  <2>1. CASE IsSome(f.module)
    <3>1. PICK m : Named(q.mapping, l.mapping_id) = {m} /\ m.filename = Str(p, f.module)
      BY <2>1, MappingNamed
    <3>2. ofModule = {m.filename}
      BY <3>1
    <3>. HIDE DEF f, l, ofModule
    <3>. QED  BY <2>1, <3>1, <3>2
  <2>2. CASE ~IsSome(f.module)
    <3>1. Named(q.mapping, l.mapping_id) = {}
      BY <2>2, MappingNamed
    <3>2. ofModule = {}
      BY <3>1
    <3>. HIDE DEF f, l, ofModule
    <3>. QED  BY <2>2, <3>2
  <2>. QED  BY <2>1, <2>2
<1>3. \A index : index \in ofLine <=>
          /\ HasLine(f)
          /\ index = Str(p, Texts(f.function)) \/ index = Str(p, Texts(f.file))
  <2>1. CASE HasLine(f)
    <3>. DEFINE line == [function_id |-> i, line |-> Number(f.line)]
    <3>1. l.line = <<line>>
      BY <2>1 DEF LocationOf
    <3>2. \A x : x \in ToSet(l.line) <=> x = line
      <4>. HIDE DEF line
      <4>. QED  BY <3>1 DEF ToSet
    <3>3. Named(q.function, line.function_id) = {FunctionOf(p, i)}
      BY <2>1, FunctionNamed
    <3>. HIDE DEF line, l, f
    <3>4. UNION {Named(q.function, x.function_id) : x \in ToSet(l.line)} = {FunctionOf(p, i)}
      BY <3>2, <3>3
    <3>5. ofLine = {FunctionOf(p, i).name, FunctionOf(p, i).filename}
      BY <3>4
    <3>6. /\ FunctionOf(p, i).name = Str(p, Texts(f.function))
          /\ FunctionOf(p, i).filename = Str(p, Texts(f.file))
      BY DEF FunctionOf, f
    <3>. HIDE DEF ofLine
    <3>. QED  BY <2>1, <3>5, <3>6
  <2>2. CASE ~HasLine(f)
    <3>1. l.line = <<>>
      BY <2>2 DEF LocationOf
    <3>2. ToSet(l.line) = {}
      BY <3>1 DEF ToSet
    <3>3. ofLine = {}
      <4>. HIDE DEF l
      <4>. QED  BY <3>2
    <3>. HIDE DEF f, l, ofLine
    <3>. QED  BY <2>2, <3>3
  <2>. QED  BY <2>1, <2>2
<1>4. \A x : x \in TextsOf(f) <=>
          \/ IsSome(f.module) /\ x = f.module
          \/ HasLine(f) /\ (x = Texts(f.function) \/ x = Texts(f.file))
  <2>. HIDE DEF f
  <2>1. ASSUME NEW x
        PROVE x \in TextsOf(f) <=>
                \/ IsSome(f.module) /\ x = f.module
                \/ HasLine(f) /\ (x = Texts(f.function) \/ x = Texts(f.file))
    <3>1. CASE IsSome(f.module) /\ HasLine(f)
      BY <3>1 DEF TextsOf
    <3>2. CASE IsSome(f.module) /\ ~HasLine(f)
      BY <3>2 DEF TextsOf
    <3>3. CASE ~IsSome(f.module) /\ HasLine(f)
      BY <3>3 DEF TextsOf
    <3>4. CASE ~IsSome(f.module) /\ ~HasLine(f)
      BY <3>4 DEF TextsOf
    <3>. QED  BY <3>1, <3>2, <3>3, <3>4
  <2>. QED  BY <2>1
<1>. HIDE DEF f, l, ofModule, ofLine
<1>5. \A index : index \in ofModule \cup ofLine <=> \E x \in TextsOf(f) : index = Str(p, x)
  BY <1>2, <1>3, <1>4
<1>. QED  BY <1>1, <1>5 DEF f, l

\* The strings a message written needs are those of the kinds and of the frames.
LEMMA Needs ==
    ASSUME NEW p \in Profiles, NEW q, SameTables(p, q),
           q.sample_type = [i \in 1 .. Len(p.value_kinds) |->
                               [type |-> Str(p, p.value_kinds[i].kind),
                                unit |-> Str(p, p.value_kinds[i].unit)]]
    PROVE  \A index : index \in NeededStrings(q, LocationsRead(q)) <=>
                         \E x : /\ IsKindText(p, x) \/ IsFrameText(p, x)
                                /\ index = Str(p, x)
<1>. DEFINE K == Len(p.value_kinds)
            N == Len(p.frames)
            t(i) == [type |-> Str(p, p.value_kinds[i].kind), unit |-> Str(p, p.value_kinds[i].unit)]
            ofKinds == UNION {{k.type, k.unit} : k \in ToSet(q.sample_type)}
            ofFrames == UNION {LocationStrings(q, l) : l \in ToSet(q.location)}
<1>1. K \in Nat /\ N \in Nat
  BY DEF Profiles
<1>2. NeededStrings(q, LocationsRead(q)) = ofKinds \cup ofFrames
  BY AllLocationsRead DEF NeededStrings
<1>3. \A k : k \in ToSet(q.sample_type) <=> \E i \in 1 .. K : k = t(i)
  <2>1. q.sample_type = [i \in 1 .. K |-> t(i)]
    OBVIOUS
  <2>. HIDE DEF t, K
  <2>2. DOMAIN q.sample_type = 1 .. K /\ \A i \in 1 .. K : q.sample_type[i] = t(i)
    BY <2>1
  <2>. QED  BY <2>2 DEF ToSet
<1>4. \A l : l \in ToSet(q.location) <=> \E i \in 1 .. N : l = LocationOf(p, i)
  <2>1. q.location = [i \in 1 .. N |-> LocationOf(p, i)]
    BY DEF SameTables
  <2>. HIDE DEF N
  <2>2. DOMAIN q.location = 1 .. N /\ \A i \in 1 .. N : q.location[i] = LocationOf(p, i)
    BY <2>1
  <2>. QED  BY <2>2 DEF ToSet
<1>5. \A index : index \in ofKinds <=> \E x : IsKindText(p, x) /\ index = Str(p, x)
  <2>1. \A index : index \in ofKinds <=> \E i \in 1 .. K : index \in {t(i).type, t(i).unit}
    <3>. HIDE DEF t, K
    <3>. QED  BY <1>3
  <2>2. \A i \in 1 .. K : /\ t(i).type = Str(p, p.value_kinds[i].kind)
                          /\ t(i).unit = Str(p, p.value_kinds[i].unit)
    OBVIOUS
  <2>. HIDE DEF t, ofKinds
  <2>. QED  BY <2>1, <2>2 DEF IsKindText
<1>6. \A index : index \in ofFrames <=> \E x : IsFrameText(p, x) /\ index = Str(p, x)
  <2>1. \A index : index \in ofFrames <=>
            \E i \in 1 .. N : index \in LocationStrings(q, LocationOf(p, i))
    <3>. HIDE DEF N
    <3>. QED  BY <1>4
  <2>2. \A i \in 1 .. N : \A index :
            index \in LocationStrings(q, LocationOf(p, i)) <=>
                \E x \in TextsOf(p.frames[i]) : index = Str(p, x)
    BY LocationNeeds
  <2>. HIDE DEF ofFrames
  <2>. QED  BY <2>1, <2>2 DEF IsFrameText
<1>. HIDE DEF ofKinds, ofFrames
<1>. QED  BY <1>2, <1>5, <1>6

\* A message that lacks a string it needs is not read.
LEMMA MissingString ==
    ASSUME NEW q, NEW index \in NeededStrings(q, LocationsRead(q)),
           ~InTable(q.string_table, index)
    PROVE  convert_from_proto(q) = Err
BY DEF convert_from_proto

LEMMA NoStringsIsErr ==
    ASSUME NEW q, IsProto(q), NoStrings(q) PROVE convert_from_proto(q) = Err
<1>1. q.sample_type \in Seq([type : Int, unit : Int]) /\ q.sample_type # <<>>
  BY ProtoFields DEF NoStrings
<1>2. 1 \in 1 .. Len(q.sample_type)
  BY <1>1
<1>. DEFINE k == q.sample_type[1]
            ofKinds == UNION {{x.type, x.unit} : x \in ToSet(q.sample_type)}
<1>3. k \in ToSet(q.sample_type) /\ k \in [type : Int, unit : Int]
  BY <1>1, <1>2, ElementIs
<1>4. k.type \in NeededStrings(q, LocationsRead(q))
  <2>. HIDE DEF k
  <2>1. k.type \in ofKinds
    BY <1>3
  <2>. HIDE DEF ofKinds
  <2>. QED  BY <2>1 DEF NeededStrings, ofKinds
<1>5. ~InTable(q.string_table, k.type)
  <2>1. Len(q.string_table) = 0
    BY DEF NoStrings
  <2>. HIDE DEF k
  <2>. QED  BY <2>1 DEF InTable
<1>. HIDE DEF k
<1>. QED  BY <1>4, <1>5, MissingString

\* The last string is needed.
LEMMA LastIsNeeded ==
    ASSUME NEW p \in Profiles, p.value_kinds # <<>>
    PROVE  \E x : /\ IsKindText(p, x) \/ IsFrameText(p, x)
                  /\ Str(p, x) = Len(StringTable(p)) - 1
<1>. DEFINE T == StringTable(p)
            x == T[Len(T)]
            kind == p.value_kinds[1].kind
<1>1. /\ T \in Seq(Text) /\ Len(T) \in Nat \ {0} /\ T[1] = <<>>
      /\ \A i, j \in 1 .. Len(T) : i < j => T[i] # T[j]
      /\ \A y : y \in ToSet(T) <=> y = <<>> \/ IsKindText(p, y) \/ IsFrameText(p, y)
  BY StringsAre
<1>2. x \in ToSet(T)
  <2>. HIDE DEF T
  <2>1. Len(T) \in 1 .. Len(T)
    BY <1>1
  <2>. QED  BY <1>1, <2>1, ElementIs
<1>3. x = <<>> \/ IsKindText(p, x) \/ IsFrameText(p, x)
  BY <1>1, <1>2
<1>4. Str(p, x) = Len(T) - 1
  BY <1>3, StrIs
<1>5. CASE x = <<>>
  <2>1. Len(T) = 1
    <3>. HIDE DEF T
    <3>1. T[1] = T[Len(T)]
      BY <1>1, <1>5
    <3>2. 1 < Len(T) => T[1] # T[Len(T)]
      <4>1. 1 \in 1 .. Len(T) /\ Len(T) \in 1 .. Len(T)
        BY <1>1
      <4>. QED  BY <1>1, <4>1
    <3>3. ~(1 < Len(T)) /\ Len(T) \in Nat \ {0}
      BY <1>1, <3>1, <3>2
    <3>4. ASSUME NEW m \in Nat, m # 0, ~(1 < m) PROVE m = 1
      BY <3>4
    <3>. QED  BY <3>3, <3>4
  <2>2. IsKindText(p, kind)
    <3>. DEFINE kinds == p.value_kinds
    <3>1. kinds # <<>> /\ Len(kinds) \in Nat /\ (Len(kinds) = 0 => kinds = <<>>)
      <4>1. kinds \in Seq([kind : Text, unit : Text])
        BY DEF Profiles
      <4>. HIDE DEF kinds
      <4>. QED  BY <4>1 DEF kinds
    <3>2. 1 \in 1 .. Len(p.value_kinds)
      BY <3>1
    <3>. QED  BY <3>2 DEF IsKindText
  <2>3. Str(p, kind) \in 0 .. Len(T) - 1
    BY <2>2, StrIs
  <2>4. Str(p, kind) = Len(T) - 1
    <3>. HIDE DEF T
    <3>. QED  BY ONLY <2>1, <2>3
  <2>. QED  BY <2>2, <2>4
<1>6. CASE x # <<>>
  BY <1>3, <1>4, <1>6
<1>. QED  BY <1>5, <1>6

\* A message that is cut is not read: its last string is missing, and if no string is
\* there, one that the value kinds need.
LEMMA CutIsErr ==
    ASSUME NEW p \in Profiles, p.value_kinds # <<>>,
           NEW n \in 1 .. Len(encode(convert_to_proto(p))) - 1
    PROVE  convert_from_proto(decode(SubSeq(encode(convert_to_proto(p)), 1, n))) = Err
<1>. DEFINE proto == convert_to_proto(p)
            q == decode(SubSeq(encode(proto), 1, n))
<1>1. IsProto(proto)
  BY ConvertedIsProto
<1>2. Refers(p, proto) /\ proto.string_table = StringTable(p)
  BY ConvertedRefers
<1>. HIDE DEF proto
<1>3. Len(encode(proto)) \in Nat /\ n \in 0 .. Len(encode(proto)) /\ n \in 1 .. Len(encode(proto)) - 1
  <2>1. encode(proto) \in Seq(Fields)
    BY <1>1, EncodedIs
  <2>2. Len(encode(proto)) \in Nat
    BY <2>1
  <2>3. n \in 1 .. Len(encode(proto)) - 1
    BY DEF proto
  <2>. QED  BY <2>2, <2>3
<1>4. IsProto(q)
  BY <1>1, <1>3, DecodedTables
<1>5. proto.string_table # <<>> /\ proto.sample_type # <<>>
  <2>1. Len(StringTable(p)) \in Nat \ {0}
    BY StringsAre
  <2>2. StringTable(p) # <<>>
    BY <2>1
  <2>3. Len(p.value_kinds) # 0 /\ Len(p.value_kinds) \in Nat
    <3>. DEFINE kinds == p.value_kinds
    <3>1. kinds \in Seq([kind : Text, unit : Text]) /\ kinds # <<>>
      BY DEF Profiles
    <3>. HIDE DEF kinds
    <3>2. Len(kinds) # 0 /\ Len(kinds) \in Nat
      BY <3>1
    <3>. QED  BY <3>2 DEF kinds
  <2>4. Len(proto.sample_type) = Len(p.value_kinds)
    BY <1>2, <2>3 DEF Refers
  <2>5. proto.sample_type # <<>>
    BY <2>3, <2>4
  <2>. QED  BY <1>2, <2>2, <2>5
<1>6. NoStrings(q) \/ FewStrings(q, proto)
  BY <1>1, <1>3, <1>5, CutEither
<1>. HIDE DEF q
<1>7. CASE NoStrings(q)
  BY <1>4, <1>7, NoStringsIsErr DEF q, proto
<1>8. CASE FewStrings(q, proto)
  <2>1. SameTables(p, q)
    BY <1>2, <1>8 DEF SameTables, Refers, FewStrings
  <2>2. q.sample_type = [i \in 1 .. Len(p.value_kinds) |->
                            [type |-> Str(p, p.value_kinds[i].kind),
                             unit |-> Str(p, p.value_kinds[i].unit)]]
    BY <1>2, <1>8 DEF Refers, FewStrings
  <2>3. PICK x : /\ IsKindText(p, x) \/ IsFrameText(p, x)
                 /\ Str(p, x) = Len(StringTable(p)) - 1
    BY LastIsNeeded
  <2>4. Str(p, x) \in NeededStrings(q, LocationsRead(q))
    BY <2>1, <2>2, <2>3, Needs
  <2>5. ~InTable(q.string_table, Str(p, x))
    <3>1. q.string_table \in Seq(Text)
      BY <1>4, ProtoFields
    <3>2. Len(q.string_table) \in Nat /\ Len(StringTable(p)) \in Nat
      BY <3>1, StringsAre
    <3>3. Len(q.string_table) < Len(StringTable(p))
      BY <1>2, <1>8 DEF FewStrings
    <3>4. Str(p, x) \notin 0 .. Len(q.string_table) - 1
      BY ONLY <2>3, <3>2, <3>3
    <3>. QED  BY <3>4 DEF InTable
  <2>6. convert_from_proto(q) = Err
    BY <2>4, <2>5, MissingString
  <2>. QED  BY <2>6 DEF q, proto
<1>. QED  BY <1>6, <1>7, <1>8

\* What a text and a number are read as: nothing, where they say nothing.
SomeText(text) == IF text = <<>> THEN NoText ELSE text
SomeNumber(n) == IF n = 0 THEN NoNumber ELSE n

LEMMA AsLocationIs ==
    ASSUME NEW f
    PROVE  AsLocation(f) =
               [raw |-> <<>>, function |-> SomeText(f.function), file |-> SomeText(f.file),
                line |-> SomeNumber(f.line), module |-> SomeText(f.module),
                address |-> SomeNumber(f.address)]
BY DEF AsLocation, SomeText, SomeNumber

\* A text that was placed is found, an empty one as nothing.
LEMMA PlacedIsFound ==
    ASSUME NEW p, NEW x, Placed(p, x)
    PROVE  /\ OneOf(StringTable(p), {Str(p, x)}) = SomeText(x)
           /\ OneOf(StringTable(p), {}) = NoText
<1>. DEFINE T == StringTable(p)
            i == Str(p, x)
<1>1. T[i + 1] = x
  BY DEF Placed
<1>. HIDE DEF T, i
<1>2. OneOf(T, {i}) = resolve_opt(T, i)
  BY DEF OneOf
<1>3. OneOf(T, {}) = NoText
  BY DEF OneOf
<1>4. resolve_opt(T, i) = SomeText(x)
  BY <1>1 DEF resolve_opt, SomeText
<1>. QED  BY <1>2, <1>3, <1>4 DEF T, i

LEMMA NumbersBack ==
    /\ \A n \in 0 .. MaxLine \cup {NoNumber} : line_number(Number(n)) = SomeNumber(n)
    /\ \A n \in Nat \cup {NoNumber} : nonzero(Number(n)) = SomeNumber(n)
BY ProfileAssumption DEF line_number, Number, SomeNumber, NoNumber, nonzero

LEMMA BareIs ==
    ASSUME NEW module, NEW address
    PROVE  [EmptyFrame EXCEPT !.module = module, !.address = address] =
               [raw |-> <<>>, function |-> NoText, file |-> NoText, line |-> NoNumber,
                module |-> module, address |-> address]
<1>. DEFINE a == NoText
            b == NoNumber
            c == <<>>
<1>1. EmptyFrame = [raw |-> c, function |-> a, file |-> a, line |-> b, module |-> a, address |-> b]
  BY DEF EmptyFrame
<1>. HIDE DEF a, b, c
<1>. DEFINE x == [EmptyFrame EXCEPT !.module = module, !.address = address]
            y == [raw |-> c, function |-> a, file |-> a, line |-> b, module |-> module,
                  address |-> address]
            D == {"raw", "function", "file", "line", "module", "address"}
<1>2. x = [k \in D |-> x[k]] /\ y = [k \in D |-> y[k]]
  <2>1. DOMAIN EmptyFrame = D /\ y = [k \in D |-> y[k]]
    BY <1>1
  <2>2. x = [k \in DOMAIN EmptyFrame |-> x[k]]
    OBVIOUS
  <2>. QED  BY ONLY <2>1, <2>2
<1>3. /\ x["raw"] = c /\ x["function"] = a /\ x["file"] = a /\ x["line"] = b
      /\ x["module"] = module /\ x["address"] = address
  BY <1>1
<1>4. /\ y["raw"] = c /\ y["function"] = a /\ y["file"] = a /\ y["line"] = b
      /\ y["module"] = module /\ y["address"] = address
  OBVIOUS
<1>5. \A k \in D : x[k] = y[k]
  <2>. HIDE DEF x, y
  <2>. QED  BY <1>3, <1>4
<1>6. x = y
  <2>. HIDE DEF x, y, D
  <2>. QED  BY <1>2, <1>5
<1>. QED  BY <1>6 DEF a, b, c

\* Each location that was written is read as one frame.
LEMMA ExpandedBack ==
    ASSUME NEW p \in Profiles, NEW q, SameTables(p, q), q.string_table = StringTable(p),
           NEW i \in 1 .. Len(p.frames)
    PROVE  expand_location(q, LocationOf(p, i)) = <<AsLocation(p.frames[i])>>
<1>. DEFINE f == p.frames[i]
            location == LocationOf(p, i)
            strings == q.string_table
            mapped == {m.filename : m \in Named(q.mapping, location.mapping_id)}
            names(line) == {g.name : g \in Named(q.function, line.function_id)}
            files(line) == {g.filename : g \in Named(q.function, line.function_id)}
            module == OneOf(strings, mapped)
            bare == [EmptyFrame EXCEPT !.module = module, !.address = nonzero(location.address)]
            inlined(k, line) ==
                [raw |-> <<>>, function |-> OneOf(strings, names(line)),
                 file |-> OneOf(strings, files(line)), line |-> line_number(line.line),
                 module |-> module,
                 address |-> IF k = 1 THEN nonzero(location.address) ELSE NoNumber]
<1>1. expand_location(q, location) =
          IF location.line = <<>> THEN <<bare>>
          ELSE [k \in 1 .. Len(location.line) |-> inlined(k, location.line[k])]
  BY DEF expand_location, OneOf
<1>2. f \in Frames
  <2>1. p.frames \in Seq(Frames)
    BY DEF Profiles
  <2>. QED  BY <2>1, ElementIs
<1>3. module = SomeText(f.module)
  <2>1. CASE IsSome(f.module)
    <3>1. PICK m : Named(q.mapping, location.mapping_id) = {m} /\ m.filename = Str(p, f.module)
      BY <2>1, MappingNamed
    <3>2. mapped = {Str(p, f.module)}
      BY <3>1
    <3>3. Placed(p, f.module)
      <4>1. f.module \in TextsOf(f)
        BY <2>1 DEF TextsOf
      <4>2. IsFrameText(p, f.module)
        BY <4>1 DEF IsFrameText
      <4>. QED  BY <4>2, StrIs DEF Placed
    <3>. HIDE DEF mapped, f
    <3>. QED  BY <3>2, <3>3, PlacedIsFound
  <2>2. CASE ~IsSome(f.module)
    <3>1. Named(q.mapping, location.mapping_id) = {}
      BY <2>2, MappingNamed
    <3>2. mapped = {}
      BY <3>1
    <3>3. module = NoText
      BY <3>2 DEF OneOf
    <3>4. SomeText(f.module) = NoText
      BY <2>2, NoTextIsText DEF SomeText, IsSome
    <3>. QED  BY <3>3, <3>4
  <2>. QED  BY <2>1, <2>2
<1>4. nonzero(location.address) = SomeNumber(f.address)
  <2>1. location.address = Number(f.address)
    BY DEF LocationOf
  <2>2. f.address \in Nat \cup {NoNumber}
    BY <1>2 DEF Frames
  <2>. QED  BY <2>1, <2>2, NumbersBack
<1>5. CASE ~HasLine(f)
  <2>1. location.line = <<>>
    BY <1>5 DEF LocationOf
  <2>2. f.function = NoText /\ f.file = NoText /\ f.line = NoNumber
    BY <1>5 DEF HasLine, IsSome
  <2>3. expand_location(q, location) = <<bare>>
    BY <1>1, <2>1
  <2>4. bare = [raw |-> <<>>, function |-> NoText, file |-> NoText, line |-> NoNumber,
                module |-> module, address |-> nonzero(location.address)]
    BY BareIs
  <2>5. SomeText(NoText) = NoText /\ SomeNumber(NoNumber) = NoNumber
    BY NoTextIsText DEF SomeText, SomeNumber
  <2>. HIDE DEF bare, module, f, location
  <2>6. bare = AsLocation(f)
    BY <1>3, <1>4, <2>2, <2>4, <2>5, AsLocationIs
  <2>. QED  BY <2>3, <2>6 DEF f, location
<1>6. CASE HasLine(f)
  <2>. DEFINE line == [function_id |-> i, line |-> Number(f.line)]
  <2>1. location.line = <<line>>
    BY <1>6 DEF LocationOf
  <2>2. Named(q.function, i) = {FunctionOf(p, i)}
    BY <1>6, FunctionNamed
  <2>3. names(line) = {Str(p, Texts(f.function))} /\ files(line) = {Str(p, Texts(f.file))}
    <3>1. names(line) = {FunctionOf(p, i).name} /\ files(line) = {FunctionOf(p, i).filename}
      BY <2>2
    <3>2. /\ FunctionOf(p, i).name = Str(p, Texts(f.function))
          /\ FunctionOf(p, i).filename = Str(p, Texts(f.file))
      BY DEF FunctionOf
    <3>. QED  BY <3>1, <3>2
  <2>4. Placed(p, Texts(f.function)) /\ Placed(p, Texts(f.file))
    BY <1>6, AllPlaced
  <2>5. /\ OneOf(strings, names(line)) = SomeText(Texts(f.function))
        /\ OneOf(strings, files(line)) = SomeText(Texts(f.file))
    <3>. HIDE DEF f, line, names, files
    <3>. QED  BY <2>3, <2>4, PlacedIsFound
  <2>6. \A text : SomeText(Texts(text)) = SomeText(text)
    BY NoTextIsText DEF SomeText, Texts, IsSome
  <2>7. line_number(line.line) = SomeNumber(f.line)
    <3>1. f.line \in 0 .. MaxLine \cup {NoNumber}
      BY <1>2 DEF Frames
    <3>. QED  BY <3>1, NumbersBack
  <2>8. inlined(1, line) = AsLocation(f)
    <3>1. inlined(1, line) =
              [raw |-> <<>>, function |-> OneOf(strings, names(line)),
               file |-> OneOf(strings, files(line)), line |-> line_number(line.line),
               module |-> module, address |-> nonzero(location.address)]
      OBVIOUS
    <3>. HIDE DEF inlined, names, files, module, line, location, f
    <3>. QED  BY <1>3, <1>4, <2>5, <2>6, <2>7, <3>1, AsLocationIs
  <2>. HIDE DEF inlined, bare, location, line
  <2>9. expand_location(q, location) = [k \in 1 .. 1 |-> inlined(k, location.line[k])]
    <3>1. location.line # <<>> /\ Len(location.line) = 1
      BY <2>1
    <3>. QED  BY <1>1, <3>1
  <2>10. [k \in 1 .. 1 |-> inlined(k, location.line[k])] = <<inlined(1, line)>>
    <3>1. location.line[1] = line
      BY <2>1
    <3>2. \A k \in 1 .. 1 : k = 1
      OBVIOUS
    <3>. QED  BY <3>1, <3>2
  <2>. QED  BY <2>8, <2>9, <2>10 DEF location, f
<1>. QED  BY <1>5, <1>6

\* The frames as a message can say them.
Located(p) == [i \in 1 .. Len(p.frames) |-> AsLocation(p.frames[i])]

StackBack(p, s) == [j \in 1 .. Len(s.stack) |-> Located(p)[s.stack[j] + 1]]

LEMMA LocatedIs ==
    ASSUME NEW p \in Profiles
    PROVE  \E X : Located(p) \in Seq(X) /\ Len(Located(p)) = Len(p.frames)
<1>. DEFINE N == Len(p.frames)
            X == {AsLocation(p.frames[i]) : i \in 1 .. N}
<1>1. N \in Nat
  BY DEF Profiles
<1>2. \A i \in 1 .. N : AsLocation(p.frames[i]) \in X
  OBVIOUS
<1>3. Located(p) = [i \in 1 .. N |-> AsLocation(p.frames[i])]
  BY DEF Located
<1>. HIDE DEF X, N
<1>4. Located(p) \in Seq(X) /\ Len(Located(p)) = N
  BY <1>1, <1>2, <1>3
<1>. QED  BY <1>4 DEF N

\* A sample of a sound profile.
LEMMA SampleIs ==
    ASSUME NEW p, Sound(p), NEW i \in 1 .. Len(p.samples)
    PROVE  /\ p.samples[i] \in [stack : Seq(Nat), values : Seq(Int)]
           /\ p.samples[i].stack \in Seq(Nat) /\ Len(p.samples[i].stack) \in Nat
           /\ p.samples[i].values \in Seq(Int)
           /\ Len(p.samples[i].values) = Len(p.value_kinds)
           /\ \A j \in 1 .. Len(p.samples[i].stack) :
                 p.samples[i].stack[j] \in Nat /\ p.samples[i].stack[j] + 1 \in 1 .. Len(p.frames)
<1>. DEFINE Smp == [stack : Seq(Nat), values : Seq(Int)]
            s == p.samples[i]
<1>1. s \in Smp /\ s \in ToSet(p.samples)
  <2>1. p.samples \in Seq(Smp)
    BY DEF Sound, Profiles
  <2>. HIDE DEF Smp
  <2>. QED  BY <2>1, ElementIs
<1>2. Len(s.values) = Len(p.value_kinds) /\ \A id \in ToSet(s.stack) : id < Len(p.frames)
  BY <1>1 DEF Sound, validate
<1>3. s.stack \in Seq(Nat) /\ s.values \in Seq(Int)
  BY <1>1
<1>4. Len(p.frames) \in Nat
  BY DEF Sound, Profiles
<1>5. ASSUME NEW j \in 1 .. Len(s.stack)
      PROVE  s.stack[j] \in Nat /\ s.stack[j] + 1 \in 1 .. Len(p.frames)
  <2>1. s.stack[j] \in Nat /\ s.stack[j] \in ToSet(s.stack)
    BY <1>3, ElementIs
  <2>2. s.stack[j] < Len(p.frames)
    BY <1>2, <2>1
  <2>. QED  BY ONLY <1>4, <2>1, <2>2
<1>6. Len(s.stack) \in Nat
  BY <1>3
<1>. QED  BY <1>1, <1>2, <1>3, <1>5, <1>6

\* The frames of the locations of a sample, leaf first, turned round are its frames.
LEMMA GatheredBack ==
    ASSUME NEW p, Sound(p), NEW i \in 1 .. Len(p.samples), NEW b,
           b = [j \in 1 .. Len(LocationIds(p.samples[i])) |->
                   <<Located(p)[LocationIds(p.samples[i])[j]]>>]
    PROVE  Gathered(b) = StackBack(p, p.samples[i])
<1>. DEFINE s == p.samples[i]
            n == Len(s.stack)
            ids == LocationIds(s)
            A == Located(p)
            u == [j \in 1 .. n |-> A[ids[j]]]
<1>1. /\ s.stack \in Seq(Nat) /\ n \in Nat
      /\ \A j \in 1 .. n : s.stack[j] \in Nat /\ s.stack[j] + 1 \in 1 .. Len(p.frames)
  BY SampleIs
<1>2. /\ Len(ids) = n
      /\ \A j \in 1 .. n : (n - j) + 1 \in 1 .. n /\ ids[j] = s.stack[(n - j) + 1] + 1
  BY <1>1, LocationIdsAre
<1>3. PICK X : A \in Seq(X) /\ Len(A) = Len(p.frames)
  BY LocatedIs DEF Sound
<1>. HIDE DEF s, n, ids, A
<1>4. \A j \in 1 .. n : ids[j] \in 1 .. Len(p.frames)
  BY <1>1, <1>2
<1>5. \A j \in 1 .. n : A[ids[j]] \in X
  BY <1>3, <1>4
<1>6. u \in Seq(X) /\ Len(u) = n /\ \A j \in 1 .. n : u[j] = A[ids[j]]
  BY <1>1, <1>5 DEF n
<1>7. b = [j \in 1 .. n |-> <<A[ids[j]]>>]
  BY <1>2 DEF ids, A, s
<1>8. b \in Seq(Seq(X)) /\ Len(b) = n /\ \A j \in 1 .. n : b[j] = <<u[j]>>
  <2>1. \A j \in 1 .. n : <<A[ids[j]]>> \in Seq(X)
    BY <1>5
  <2>2. n \in Nat
    BY <1>1
  <2>3. b \in Seq(Seq(X)) /\ Len(b) = n
    BY <1>7, <2>1, <2>2
  <2>4. \A j \in 1 .. n : b[j] = <<u[j]>>
    <3>. HIDE DEF u
    <3>. QED  BY <1>6, <1>7
  <2>. QED  BY <2>3, <2>4
<1>. HIDE DEF u
<1>9. FlattenSeq(b) = u
  BY <1>6, <1>8, FlattenSingles
<1>10. Gathered(b) = Reverse(u)
  BY <1>9 DEF Gathered
<1>11. /\ Reverse(u) \in Seq(X) /\ Len(Reverse(u)) = n
       /\ \A j \in 1 .. n : (n - j) + 1 \in 1 .. n /\ Reverse(u)[j] = u[(n - j) + 1]
  BY <1>6, ReverseIs
<1>12. ASSUME NEW j \in 1 .. n PROVE Reverse(u)[j] = A[s.stack[j] + 1]
  <2>. DEFINE k == (n - j) + 1
  <2>1. k \in 1 .. n /\ (n - k) + 1 = j
    <3>1. n \in Nat
      BY <1>1
    <3>. QED  BY ONLY <3>1, j \in 1 .. n
  <2>2. Reverse(u)[j] = u[k]
    BY <1>11
  <2>. HIDE DEF k
  <2>3. ids[k] = s.stack[(n - k) + 1] + 1
    BY <1>2, <2>1
  <2>. QED  BY <1>6, <2>1, <2>2, <2>3
<1>13. StackBack(p, s) = [j \in 1 .. n |-> A[s.stack[j] + 1]]
  BY DEF StackBack, n, A
<1>14. Reverse(u) = [j \in 1 .. n |-> A[s.stack[j] + 1]]
  <2>1. n \in Nat
    BY <1>1
  <2>. QED  BY <1>11, <1>12, <2>1
<1>. QED  BY <1>10, <1>13, <1>14 DEF s

\* r says what p says, as far as a message can.
SaysWhat(p, r) ==
    /\ Values(r) = Values(p) /\ r.value_kinds = p.value_kinds
    /\ Stacks(r) = [i \in 1 .. Len(p.samples) |->
           [j \in 1 .. Len(p.samples[i].stack) |-> AsLocation(Stacks(p)[i][j])]]

\* What the reader makes of the samples of p.
SampleBack(p, s) ==
    [stack |-> [j \in 1 .. Len(StackBack(p, s)) |->
                   IndexOf(Interned(Located(p)), StackBack(p, s)[j]) - 1],
     values |-> s.values]

ProfileBack(p) ==
    [frames |-> Interned(Located(p)),
     samples |-> [i \in 1 .. Len(p.samples) |-> SampleBack(p, p.samples[i])],
     value_kinds |-> p.value_kinds]

\* The samples of a written profile, as the reader finds them.
LEMMA SamplesBack ==
    ASSUME NEW p, Sound(p), NEW q, Refers(p, q)
    PROVE  /\ Len(q.sample) = Len(p.samples) /\ Len(p.samples) \in Nat
           /\ Len(q.sample_type) = Len(p.value_kinds) /\ Len(p.value_kinds) \in Nat
           /\ \A i \in 1 .. Len(p.samples) :
                 /\ q.sample[i].location_id = LocationIds(p.samples[i])
                 /\ q.sample[i].value = p.samples[i].values
           /\ \A i \in 1 .. Len(p.value_kinds) :
                 q.sample_type[i] = [type |-> Str(p, p.value_kinds[i].kind),
                                     unit |-> Str(p, p.value_kinds[i].unit)]
<1>1. Len(p.samples) \in Nat /\ Len(p.value_kinds) \in Nat
  BY DEF Sound, Profiles
<1>. QED  BY <1>1 DEF Refers

\* None of them is refused.
LEMMA AllReadable ==
    ASSUME NEW p, Sound(p), NEW q, Refers(p, q), q.string_table = StringTable(p),
           NEW known, \A id \in 1 .. Len(p.frames) : id \in known
    PROVE  /\ \A s \in ToSet(q.sample) : Readable(q, known, s)
           /\ \A index \in NeededStrings(q, LocationsRead(q)) : InTable(q.string_table, index)
<1>0. p \in Profiles /\ SameTables(p, q)
  BY DEF Sound, SameTables, Refers
<1>1. ASSUME NEW i \in 1 .. Len(p.samples) PROVE Readable(q, known, q.sample[i])
  <2>. DEFINE s == p.samples[i]
  <2>1. /\ s.stack \in Seq(Nat) /\ Len(s.values) = Len(p.value_kinds)
        /\ \A j \in 1 .. Len(s.stack) : s.stack[j] + 1 \in 1 .. Len(p.frames)
    BY SampleIs
  <2>2. q.sample[i].location_id = LocationIds(s) /\ q.sample[i].value = s.values
    BY SamplesBack
  <2>. HIDE DEF s
  <2>3. /\ LocationIds(s) \in Seq(Nat) /\ Len(LocationIds(s)) = Len(s.stack)
        /\ \A j \in 1 .. Len(s.stack) :
              /\ (Len(s.stack) - j) + 1 \in 1 .. Len(s.stack)
              /\ LocationIds(s)[j] = s.stack[(Len(s.stack) - j) + 1] + 1
    BY <2>1, LocationIdsAre
  <2>4. \A j \in 1 .. Len(LocationIds(s)) : LocationIds(s)[j] \in known
    BY <2>1, <2>3
  <2>5. ToSet(LocationIds(s)) \subseteq known
    BY <2>3, <2>4 DEF ToSet
  <2>6. Len(q.sample_type) = Len(p.value_kinds)
    BY SamplesBack
  <2>. QED  BY <2>1, <2>2, <2>5, <2>6 DEF Readable
<1>2. \A s \in ToSet(q.sample) : Readable(q, known, s)
  <2>1. ASSUME NEW s \in ToSet(q.sample) PROVE \E i \in 1 .. Len(p.samples) : s = q.sample[i]
    <3>1. q.sample = [i \in 1 .. Len(p.samples) |->
              [location_id |-> LocationIds(p.samples[i]), value |-> p.samples[i].values]]
      BY DEF Refers
    <3>2. DOMAIN q.sample = 1 .. Len(p.samples)
      BY <3>1
    <3>. QED  BY <3>2 DEF ToSet
  <2>. QED  BY <1>1, <2>1
<1>3. ASSUME NEW index \in NeededStrings(q, LocationsRead(q))
      PROVE  InTable(q.string_table, index)
  <2>1. q.sample_type = [i \in 1 .. Len(p.value_kinds) |->
                            [type |-> Str(p, p.value_kinds[i].kind),
                             unit |-> Str(p, p.value_kinds[i].unit)]]
    BY DEF Refers
  <2>2. PICK x : /\ IsKindText(p, x) \/ IsFrameText(p, x)
                 /\ index = Str(p, x)
    BY <1>0, <2>1, Needs
  <2>3. Str(p, x) \in 0 .. Len(StringTable(p)) - 1
    BY <1>0, <2>2, StrIs
  <2>. QED  BY <2>2, <2>3 DEF InTable
<1>. QED  BY <1>2, <1>3

LEMMA ReadBackIs ==
    ASSUME NEW p, Sound(p), NEW q, Refers(p, q), q.string_table = StringTable(p)
    PROVE  convert_from_proto(q) = Ok(ProfileBack(p))
<1>. DEFINE locations == LocationsRead(q)
            expanded == [i \in 1 .. Len(locations) |-> expand_location(q, locations[i])]
            table == Interned(FlattenSeq(expanded))
            at(id) == SelectInSeq(locations, LAMBDA l : l.id = id)
            blocks(s) == [j \in 1 .. Len(s.location_id) |-> expanded[at(s.location_id[j])]]
            stack(s) == Gathered(blocks(s))
            needed == NeededStrings(q, locations)
            known == {l.id : l \in ToSet(locations)}
            sample(s) == [stack |-> [j \in 1 .. Len(stack(s)) |-> IndexOf(table, stack(s)[j]) - 1],
                          values |-> s.value]
            samples == [i \in 1 .. Len(q.sample) |->
                           [stack |-> [j \in 1 .. Len(stack(q.sample[i])) |->
                                          IndexOf(table, stack(q.sample[i])[j]) - 1],
                            values |-> q.sample[i].value]]
            kinds == [i \in 1 .. Len(q.sample_type) |->
                        [kind |-> q.string_table[q.sample_type[i].type + 1],
                         unit |-> q.string_table[q.sample_type[i].unit + 1]]]
            r == [frames |-> table, samples |-> samples, value_kinds |-> kinds]
            bad == \/ \E index \in needed : ~InTable(q.string_table, index)
                   \/ \E s \in ToSet(q.sample) : ~Readable(q, known, s)
            N == Len(p.frames)
            A == Located(p)
<1>1. convert_from_proto(q) = IF bad THEN Err ELSE Ok(r)
  BY DEF convert_from_proto
<1>2. p \in Profiles /\ SameTables(p, q) /\ N \in Nat
  BY DEF Sound, SameTables, Refers, Profiles
<1>3. /\ locations = [i \in 1 .. N |-> LocationOf(p, i)] /\ Len(locations) = N
      /\ \A i \in 1 .. N : locations[i] = LocationOf(p, i) /\ locations[i].id = i
  <2>1. locations = [i \in 1 .. N |-> LocationOf(p, i)]
    BY <1>2, AllLocationsRead DEF SameTables
  <2>. HIDE DEF locations, N
  <2>2. Len(locations) = N /\ \A i \in 1 .. N : locations[i] = LocationOf(p, i)
    BY <1>2, <2>1
  <2>3. \A i \in 1 .. N : LocationOf(p, i).id = i
    BY DEF LocationOf
  <2>. QED  BY <2>1, <2>2, <2>3
<1>4. \A id \in 1 .. N : id \in known
  <2>1. \A i \in 1 .. N : locations[i] \in ToSet(locations)
    <3>. HIDE DEF locations
    <3>1. DOMAIN locations = 1 .. N
      BY <1>3
    <3>. QED  BY <3>1 DEF ToSet
  <2>. HIDE DEF locations
  <2>. QED  BY <1>3, <2>1
<1>5. convert_from_proto(q) = Ok(r)
  <2>1. ~bad
    <3>. HIDE DEF known
    <3>. QED  BY <1>4, AllReadable
  <2>. HIDE DEF bad, r
  <2>. QED  BY <1>1, <2>1
<1>6. PICK X : A \in Seq(X) /\ Len(A) = N
  BY <1>2, LocatedIs
<1>. HIDE DEF known, needed
<1>7. /\ Len(expanded) = N /\ \A i \in 1 .. N : expanded[i] = <<A[i]>>
      /\ expanded \in Seq(Seq(X))
  <2>1. ASSUME NEW i \in 1 .. N PROVE expand_location(q, locations[i]) = <<A[i]>>
    <3>1. expand_location(q, LocationOf(p, i)) = <<AsLocation(p.frames[i])>>
      BY <1>2, ExpandedBack
    <3>2. A[i] = AsLocation(p.frames[i])
      BY DEF Located
    <3>. QED  BY <1>3, <3>1, <3>2
  <2>. HIDE DEF locations, A, N
  <2>2. Len(expanded) = N /\ \A i \in 1 .. N : expanded[i] = <<A[i]>>
    BY <1>2, <1>3, <2>1
  <2>3. ASSUME NEW i \in 1 .. Len(locations)
        PROVE  expand_location(q, locations[i]) \in Seq(X)
    <3>1. A[i] \in X
      BY <1>3, <1>6
    <3>2. <<A[i]>> \in Seq(X)
      BY <3>1
    <3>. QED  BY <1>3, <2>1, <3>2
  <2>4. expanded \in Seq(Seq(X))
    BY <1>2, <1>3, <2>3
  <2>. QED  BY <2>2, <2>4
<1>8. table = Interned(A)
  <2>. HIDE DEF expanded, A, N
  <2>1. FlattenSeq(expanded) = A
    BY <1>6, <1>7, FlattenSingles
  <2>. QED  BY <2>1
<1>9. \A id \in 1 .. N : at(id) = id
  <2>. HIDE DEF locations, N
  <2>1. Len(locations) \in Nat /\ \A i \in 1 .. Len(locations) : locations[i].id = i
    BY <1>2, <1>3
  <2>2. ASSUME NEW id \in 1 .. Len(locations) PROVE at(id) = id
    BY <2>1, SelectOnly
  <2>. QED  BY <1>3, <2>2
<1>. HIDE DEF locations, expanded, table, at
<1>10. ASSUME NEW i \in 1 .. Len(p.samples)
       PROVE  stack(q.sample[i]) = StackBack(p, p.samples[i])
  <2>. DEFINE s == p.samples[i]
              ids == LocationIds(s)
              b == blocks(q.sample[i])
  <2>1. s.stack \in Seq(Nat) /\ \A j \in 1 .. Len(s.stack) : s.stack[j] + 1 \in 1 .. N
    BY SampleIs
  <2>2. /\ Len(ids) = Len(s.stack)
        /\ \A j \in 1 .. Len(s.stack) :
              /\ (Len(s.stack) - j) + 1 \in 1 .. Len(s.stack)
              /\ ids[j] = s.stack[(Len(s.stack) - j) + 1] + 1
    BY <2>1, LocationIdsAre
  <2>3. q.sample[i].location_id = ids
    BY SamplesBack
  <2>. HIDE DEF s, ids, N, A
  <2>4. ASSUME NEW j \in 1 .. Len(ids) PROVE expanded[at(ids[j])] = <<A[ids[j]]>>
    <3>1. ids[j] \in 1 .. N
      BY <2>1, <2>2
    <3>2. at(ids[j]) = ids[j] /\ expanded[ids[j]] = <<A[ids[j]]>>
      BY <1>7, <1>9, <3>1
    <3>. QED  BY <3>2
  <2>5. b = [j \in 1 .. Len(ids) |-> <<A[ids[j]]>>]
    BY <2>3, <2>4
  <2>. HIDE DEF b
  <2>6. Gathered(b) = StackBack(p, p.samples[i])
    BY <2>5, GatheredBack DEF ids, s, A
  <2>. QED  BY <2>6 DEF b
<1>. HIDE DEF stack
<1>11. samples = [i \in 1 .. Len(p.samples) |-> SampleBack(p, p.samples[i])]
  <2>1. ASSUME NEW i \in 1 .. Len(p.samples)
        PROVE  sample(q.sample[i]) = SampleBack(p, p.samples[i])
    <3>1. q.sample[i].value = p.samples[i].values
      BY SamplesBack
    <3>2. stack(q.sample[i]) = StackBack(p, p.samples[i])
      BY <1>10
    <3>. QED  BY <1>8, <3>1, <3>2 DEF SampleBack
  <2>2. samples = [i \in 1 .. Len(p.samples) |-> sample(q.sample[i])]
    BY SamplesBack
  <2>. HIDE DEF sample, samples
  <2>. QED  BY <2>1, <2>2
<1>12. kinds = p.value_kinds
  <2>. DEFINE K == p.value_kinds
              Kind == [kind : Text, unit : Text]
  <2>1. K \in Seq(Kind)
    BY <1>2 DEF Profiles
  <2>2. ASSUME NEW i \in 1 .. Len(K)
        PROVE  [kind |-> q.string_table[q.sample_type[i].type + 1],
                unit |-> q.string_table[q.sample_type[i].unit + 1]] = K[i]
    <3>1. K[i] \in Kind
      <4>. HIDE DEF Kind, K
      <4>. QED  BY <2>1, ElementIs
    <3>2. Placed(p, K[i].kind) /\ Placed(p, K[i].unit)
      BY <1>2, AllPlaced
    <3>3. q.sample_type[i] = [type |-> Str(p, K[i].kind), unit |-> Str(p, K[i].unit)]
      BY SamplesBack
    <3>4. /\ q.string_table[q.sample_type[i].type + 1] = K[i].kind
          /\ q.string_table[q.sample_type[i].unit + 1] = K[i].unit
      BY <3>2, <3>3 DEF Placed
    <3>5. K[i] = [kind |-> K[i].kind, unit |-> K[i].unit]
      <4>. HIDE DEF K
      <4>. QED  BY <3>1
    <3>. QED  BY <3>4, <3>5
  <2>3. Len(q.sample_type) = Len(K)
    BY SamplesBack
  <2>4. kinds = [i \in 1 .. Len(K) |-> K[i]]
    BY <2>2, <2>3
  <2>. HIDE DEF K, Kind, kinds
  <2>5. K = [i \in 1 .. Len(K) |-> K[i]]
    BY <2>1
  <2>. QED  BY <2>4, <2>5 DEF K
<1>13. r = ProfileBack(p)
  <2>. HIDE DEF samples, kinds
  <2>. QED  BY <1>8, <1>11, <1>12 DEF ProfileBack
<1>. QED  BY <1>5, <1>13

\* What the fields of a whole file are read as.
LEMMA MessageBack ==
    ASSUME NEW p, Sound(p)
    PROVE  convert_from_proto(decode(encode(convert_to_proto(p)))) = Ok(ProfileBack(p))
<1>. DEFINE proto == convert_to_proto(p)
            q == decode(encode(proto))
<1>1. IsProto(proto)
  BY ConvertedIsProto DEF Sound
<1>2. Refers(p, proto) /\ proto.string_table = StringTable(p)
  BY ConvertedRefers
<1>. HIDE DEF proto
<1>3. \A tag \in ToSet(Tags) : q[tag] = proto[tag]
  BY <1>1, DecodedWhole
<1>. HIDE DEF q
<1>4. /\ q.sample_type = proto.sample_type /\ q.sample = proto.sample
      /\ q.mapping = proto.mapping /\ q.location = proto.location
      /\ q.function = proto.function /\ q.string_table = proto.string_table
  BY <1>3, TagsAre
<1>5. Refers(p, q) /\ q.string_table = StringTable(p)
  BY <1>2, <1>4 DEF Refers
<1>6. convert_from_proto(q) = Ok(ProfileBack(p))
  BY <1>5, ReadBackIs
<1>. QED  BY <1>6 DEF q, proto

\* A frame that was read from a message is the one its location is.
LEMMA NormalIsLocated ==
    ASSUME NEW f \in NormalFrames PROVE AsLocation(f) = f
<1>1. /\ f \in Frames /\ f.raw = <<>> /\ f.function # <<>> /\ f.file # <<>> /\ f.module # <<>>
      /\ f.line # 0 /\ f.address # 0
  BY DEF NormalFrames
<1>2. AsLocation(f) = [raw |-> f.raw, function |-> f.function, file |-> f.file,
                       line |-> f.line, module |-> f.module, address |-> f.address]
  BY <1>1, AsLocationIs DEF SomeText, SomeNumber
<1>3. f = [raw |-> f.raw, function |-> f.function, file |-> f.file,
           line |-> f.line, module |-> f.module, address |-> f.address]
  BY <1>1 DEF Frames
<1>. QED  BY <1>2, <1>3

\* The stack of a sample, and what the reader makes of it.
LEMMA SampleSays ==
    ASSUME NEW p, Sound(p), NEW i \in 1 .. Len(p.samples)
    PROVE  LET s == p.samples[i]
               b == SampleBack(p, s)
           IN  /\ Len(b.stack) = Len(s.stack) /\ Len(s.stack) \in Nat
               /\ \A j \in 1 .. Len(s.stack) :
                     /\ b.stack[j] = IndexOf(Interned(Located(p)), Located(p)[s.stack[j] + 1]) - 1
                     /\ b.stack[j] \in Int
                     /\ Interned(Located(p))[b.stack[j] + 1] = AsLocation(p.frames[s.stack[j] + 1])
<1>. DEFINE s == p.samples[i]
            b == SampleBack(p, s)
            A == Located(p)
            n == Len(s.stack)
            T == Interned(A)
<1>1. n \in Nat /\ \A j \in 1 .. n : s.stack[j] + 1 \in 1 .. Len(p.frames)
  BY SampleIs
<1>2. PICK X : A \in Seq(X) /\ Len(A) = Len(p.frames)
  BY LocatedIs DEF Sound
<1>3. StackBack(p, s) = [j \in 1 .. n |-> A[s.stack[j] + 1]]
  BY DEF StackBack
<1>4. b.stack = [j \in 1 .. Len(StackBack(p, s)) |-> IndexOf(T, StackBack(p, s)[j]) - 1]
  BY DEF SampleBack
<1>5. \A k \in 1 .. Len(p.frames) : A[k] = AsLocation(p.frames[k])
  BY DEF Located
<1>. HIDE DEF b, s, A, n
<1>6. Len(StackBack(p, s)) = n /\ \A j \in 1 .. n : StackBack(p, s)[j] = A[s.stack[j] + 1]
  BY <1>1, <1>3
<1>7. Len(b.stack) = n /\ \A j \in 1 .. n : b.stack[j] = IndexOf(T, A[s.stack[j] + 1]) - 1
  BY <1>1, <1>4, <1>6
<1>8. T \in Seq(X) /\ Len(T) \in Nat
  <2>1. T \in Seq(X)
    BY <1>2, InternedIs
  <2>. QED  BY <2>1
<1>9. ASSUME NEW j \in 1 .. n
      PROVE  b.stack[j] \in Int /\ T[b.stack[j] + 1] = AsLocation(p.frames[s.stack[j] + 1])
  <2>. DEFINE k == s.stack[j] + 1
              at == IndexOf(T, A[k])
  <2>1. k \in 1 .. Len(p.frames)
    BY <1>1
  <2>2. at \in 1 .. Len(T) /\ T[at] = A[k]
    <3>. HIDE DEF k
    <3>. QED  BY <1>2, <2>1, InTableOnce
  <2>3. b.stack[j] = at - 1
    BY <1>7
  <2>4. A[k] = AsLocation(p.frames[k])
    BY <1>5, <2>1
  <2>. HIDE DEF at, T
  <2>5. (at - 1) + 1 = at /\ at - 1 \in Int
    BY <1>8, <2>2
  <2>. QED  BY <2>2, <2>3, <2>4, <2>5
<1>. QED  BY <1>1, <1>7, <1>9 DEF b, s, n, A

LEMMA BackSays ==
    ASSUME NEW p, Sound(p) PROVE SaysWhat(p, ProfileBack(p))
<1>. DEFINE r == ProfileBack(p)
            N == Len(p.samples)
            T == Interned(Located(p))
<1>1. /\ N \in Nat /\ Len(r.samples) = N /\ r.frames = T /\ r.value_kinds = p.value_kinds
      /\ \A i \in 1 .. N : r.samples[i] = SampleBack(p, p.samples[i])
  <2>1. N \in Nat
    BY DEF Sound, Profiles
  <2>2. /\ r.samples = [i \in 1 .. N |-> SampleBack(p, p.samples[i])]
        /\ r.frames = T /\ r.value_kinds = p.value_kinds
    BY DEF ProfileBack
  <2>. HIDE DEF r, N, T
  <2>. QED  BY <2>1, <2>2
<1>. HIDE DEF r
<1>2. Values(r) = Values(p)
  <2>1. ASSUME NEW i \in 1 .. N PROVE r.samples[i].values = p.samples[i].values
    <3>1. SampleBack(p, p.samples[i]).values = p.samples[i].values
      BY DEF SampleBack
    <3>. QED  BY <1>1, <3>1
  <2>. QED  BY <1>1, <2>1 DEF Values
<1>3. ASSUME NEW i \in 1 .. N
      PROVE  Stack(r, r.samples[i]) =
                 [j \in 1 .. Len(p.samples[i].stack) |-> AsLocation(Stacks(p)[i][j])]
  <2>. DEFINE s == p.samples[i]
              b == SampleBack(p, s)
              n == Len(s.stack)
  <2>1. /\ Len(b.stack) = n /\ n \in Nat
        /\ \A j \in 1 .. n : T[b.stack[j] + 1] = AsLocation(p.frames[s.stack[j] + 1])
    BY SampleSays
  <2>2. \A j \in 1 .. n : Stacks(p)[i][j] = p.frames[s.stack[j] + 1]
    BY DEF Stacks, Stack
  <2>3. Stack(r, b) = [j \in 1 .. Len(b.stack) |-> T[b.stack[j] + 1]]
    BY <1>1 DEF Stack
  <2>4. r.samples[i] = b
    BY <1>1
  <2>. HIDE DEF b, s, n, T
  <2>5. Stack(r, b) = [j \in 1 .. n |-> AsLocation(Stacks(p)[i][j])]
    BY <2>1, <2>2, <2>3
  <2>. QED  BY <2>4, <2>5 DEF n, s
<1>4. Stacks(r) = [i \in 1 .. N |->
          [j \in 1 .. Len(p.samples[i].stack) |-> AsLocation(Stacks(p)[i][j])]]
  <2>1. Stacks(r) = [i \in 1 .. N |-> Stack(r, r.samples[i])]
    BY <1>1 DEF Stacks
  <2>. QED  BY <1>3, <2>1
<1>. QED  BY <1>1, <1>2, <1>4 DEF SaysWhat, r

\* What was read from a message comes back without any change.
LEMMA NormalBack ==
    ASSUME NEW p, Sound(p), Normal(p) PROVE ProfileBack(p) = p
<1>. DEFINE A == Located(p)
            N == Len(p.frames)
            F == p.frames
            Smp == [stack : Seq(Nat), values : Seq(Int)]
<1>1. /\ F \in Seq(NormalFrames) /\ \A i, j \in 1 .. N : i < j => F[i] # F[j]
  BY DEF Normal
<1>2. A = F
  <2>1. \A i \in 1 .. N : AsLocation(F[i]) = F[i]
    BY <1>1, NormalIsLocated
  <2>2. A = [i \in 1 .. N |-> F[i]]
    BY <2>1 DEF Located
  <2>. HIDE DEF A, F
  <2>3. F = [i \in 1 .. Len(F) |-> F[i]]
    BY <1>1
  <2>. QED  BY <2>2, <2>3 DEF F
<1>3. Interned(A) = F
  <2>. HIDE DEF A, F
  <2>1. N = Len(F)
    BY DEF F
  <2>2. Interned(F) = F
    BY <1>1, <2>1, InternedDistinct
  <2>. QED  BY <1>2, <2>2
<1>4. ASSUME NEW i \in 1 .. Len(p.samples) PROVE SampleBack(p, p.samples[i]) = p.samples[i]
  <2>. DEFINE s == p.samples[i]
              b == SampleBack(p, s)
              n == Len(s.stack)
  <2>1. /\ s \in Smp /\ s.stack \in Seq(Nat) /\ n \in Nat
        /\ \A j \in 1 .. n : s.stack[j] \in Nat /\ s.stack[j] + 1 \in 1 .. N
    BY SampleIs
  <2>2. /\ Len(b.stack) = n
        /\ \A j \in 1 .. n : b.stack[j] = IndexOf(F, F[s.stack[j] + 1]) - 1
    <3>1. /\ Len(b.stack) = n
          /\ \A j \in 1 .. n : b.stack[j] = IndexOf(Interned(A), A[s.stack[j] + 1]) - 1
      BY SampleSays
    <3>. HIDE DEF A, F, b, s, n
    <3>. QED  BY <1>2, <1>3, <3>1
  <2>3. ASSUME NEW j \in 1 .. n PROVE b.stack[j] = s.stack[j]
    <3>. DEFINE k == s.stack[j] + 1
    <3>1. k \in 1 .. Len(F) /\ Len(F) \in Nat
      BY <1>1, <2>1
    <3>2. IndexOf(F, F[k]) = k
      <4>. HIDE DEF k, F
      <4>. QED  BY <1>1, <3>1, IndexOfOnly DEF F
    <3>3. s.stack[j] \in Nat
      BY <2>1
    <3>4. b.stack[j] = IndexOf(F, F[k]) - 1
      BY <2>2
    <3>5. b.stack[j] = k - 1
      <4>. HIDE DEF k, F, b
      <4>. QED  BY <3>2, <3>4
    <3>. HIDE DEF b, s
    <3>. QED  BY <3>3, <3>5
  <2>4. /\ b = [stack |-> b.stack, values |-> s.values]
        /\ b.stack = [j \in 1 .. Len(b.stack) |-> b.stack[j]]
    BY DEF SampleBack
  <2>. HIDE DEF b, s, n
  <2>5. s = [stack |-> s.stack, values |-> s.values]
    BY <2>1
  <2>6. s.stack = [j \in 1 .. n |-> s.stack[j]]
    BY <2>1 DEF n
  <2>7. b.stack = s.stack
    BY <2>2, <2>3, <2>4, <2>6
  <2>. QED  BY <2>4, <2>5, <2>7 DEF b, s
<1>5. p.samples \in Seq(Smp) /\ p = [frames |-> p.frames, samples |-> p.samples,
                                     value_kinds |-> p.value_kinds]
  BY DEF Sound, Profiles
<1>6. p.samples = [i \in 1 .. Len(p.samples) |-> p.samples[i]]
  <2>. DEFINE ss == p.samples
  <2>1. ss \in Seq(Smp)
    BY <1>5
  <2>. HIDE DEF ss, Smp
  <2>2. ss = [i \in 1 .. Len(ss) |-> ss[i]]
    BY <2>1
  <2>. QED  BY <2>2 DEF ss
<1>7. ProfileBack(p) = [frames |-> F, samples |-> [i \in 1 .. Len(p.samples) |-> p.samples[i]],
                        value_kinds |-> p.value_kinds]
  BY <1>3, <1>4 DEF ProfileBack
<1>. QED  BY <1>5, <1>6, <1>7

-----------------------------------------------------------------------------
(* Files                                                                   *)

LEMMA PprofWriteIs ==
    ASSUME NEW p \in Profiles
    PROVE  /\ pprof_write(p) \in Messages
           /\ pprof_write(p).gzip = TRUE /\ pprof_write(p).cut = FALSE
           /\ pprof_write(p).fields = encode(convert_to_proto(p))
           /\ encode(convert_to_proto(p)) \in Seq(Fields)
           /\ Len(encode(convert_to_proto(p))) \in Nat
<1>1. encode(convert_to_proto(p)) \in Seq(Fields)
  BY ConvertedIsProto, EncodedIs
<1>2. Len(encode(convert_to_proto(p))) \in Nat
  BY <1>1
<1>. QED  BY <1>1, <1>2 DEF pprof_write, Messages

\* m is what a write of p to a pprof file left.
LeftOf(p, m) ==
    /\ m.gzip = TRUE
    /\ \E n \in 0 .. Len(encode(convert_to_proto(p))) :
          /\ m.fields = SubSeq(encode(convert_to_proto(p)), 1, n)
          /\ n < Len(encode(convert_to_proto(p))) => m.cut = TRUE

\* Something is written of every profile: at least the empty string.
LEMMA SomeFields ==
    ASSUME NEW p \in Profiles
    PROVE  Len(encode(convert_to_proto(p))) \in Nat \ {0}
<1>. DEFINE proto == convert_to_proto(p)
<1>1. IsProto(proto)
  BY ConvertedIsProto
<1>2. proto.string_table = StringTable(p)
  BY ConvertedRefers
<1>. HIDE DEF proto
<1>3. PICK o : Offsets(proto, o)
  BY <1>1, EncodedIs
<1>4. o[6] = o[5] + Len(proto[Tags[6]]) /\ o[5] \in Nat /\ Len(encode(proto)) = o[6]
  <2>1. 6 \in 1 .. 6 /\ 6 - 1 = 5
    OBVIOUS
  <2>2. /\ \A t \in 1 .. 6 : o[t] = o[t - 1] + Len(proto[Tags[t]]) /\ o[t - 1] \in Nat
        /\ Len(encode(proto)) = o[6]
    BY <1>1, <1>3, OffsetsAre
  <2>3. o[6] = o[6 - 1] + Len(proto[Tags[6]]) /\ o[6 - 1] \in Nat
    BY <2>1, <2>2
  <2>. QED  BY <2>1, <2>2, <2>3
<1>5. proto[Tags[6]] = StringTable(p)
  BY <1>2 DEF Tags
<1>6. Len(StringTable(p)) \in Nat \ {0}
  BY StringsAre
<1>7. Len(encode(proto)) \in Nat \ {0}
  BY ONLY <1>4, <1>5, <1>6
<1>. QED  BY <1>7 DEF proto

\* What is left of a pprof file is read as what was written, or not at all.
LEMMA LeftIsWholeOrErr ==
    ASSUME NEW p, Sound(p), p.value_kinds # <<>>, NEW m, LeftOf(p, m), pprof_read(m) # Err
    PROVE  pprof_read(m) = Ok(ProfileBack(p))
<1>. DEFINE E == encode(convert_to_proto(p))
            payload == decode_payload(m)
<1>1. p \in Profiles
  BY DEF Sound
<1>2. E \in Seq(Fields) /\ Len(E) \in Nat \ {0}
  BY <1>1, PprofWriteIs, SomeFields
<1>3. m.gzip = TRUE
  BY DEF LeftOf
<1>4. PICK n \in 0 .. Len(E) : m.fields = SubSeq(E, 1, n) /\ (n < Len(E) => m.cut = TRUE)
  BY DEF LeftOf
<1>. HIDE DEF E
<1>5. Len(m.fields) = n /\ n \in Nat /\ n <= Len(E)
  <2>1. n \in Nat /\ n <= Len(E)
    BY <1>2
  <2>2. Len(SubSeq(E, 1, n)) = n - 1 + 1
    BY <1>2, <2>1, PartIs
  <2>. QED  BY <1>4, <2>1, <2>2
<1>6. MAX_DECOMPRESSED \in Nat \ {0}
  BY PprofAssumption
<1>7. payload # Err /\ pprof_read(m) = convert_from_proto(decode(payload[1]))
  BY DEF pprof_read
<1>8. \E k \in 1 .. Len(E) : payload = Ok(SubSeq(E, 1, k))
  <2>1. CASE n >= MAX_DECOMPRESSED
    <3>. DEFINE k == MAX_DECOMPRESSED
    <3>1. payload = Ok(SubSeq(m.fields, 1, k))
      BY <1>3, <1>5, <2>1 DEF decode_payload
    <3>2. /\ Len(SubSeq(E, 1, n)) = n - 1 + 1 /\ SubSeq(E, 1, n) \in Seq(Fields)
          /\ \A i \in 1 .. n - 1 + 1 : SubSeq(E, 1, n)[i] = E[1 + i - 1]
      BY <1>2, <1>5, PartIs
    <3>3. /\ SubSeq(E, 1, k) \in Seq(Fields) /\ Len(SubSeq(E, 1, k)) = k - 1 + 1
          /\ \A i \in 1 .. k - 1 + 1 : SubSeq(E, 1, k)[i] = E[1 + i - 1]
      <4>1. k \in Nat /\ 1 <= k + 1 /\ k <= Len(E)
        BY ONLY <1>2, <1>5, <1>6, <2>1
      <4>. QED  BY <1>2, <4>1, PartIs
    <3>. DEFINE w == SubSeq(E, 1, n)
                v == SubSeq(E, 1, k)
    <3>. HIDE DEF w, v
    <3>4. /\ SubSeq(w, 1, k) \in Seq(Fields) /\ Len(SubSeq(w, 1, k)) = k - 1 + 1
          /\ \A i \in 1 .. k - 1 + 1 : SubSeq(w, 1, k)[i] = w[1 + i - 1]
      <4>1. Len(w) = n
        BY <1>4, <1>5 DEF w
      <4>2. k \in Nat /\ 1 <= k + 1 /\ k <= Len(w)
        BY ONLY <1>5, <1>6, <2>1, <4>1
      <4>3. w \in Seq(Fields)
        BY <3>2 DEF w
      <4>. QED  BY <4>2, <4>3, PartIs
    <3>5. ASSUME NEW i \in 1 .. k PROVE SubSeq(w, 1, k)[i] = v[i]
      <4>1. /\ i \in 1 .. k - 1 + 1 /\ i \in 1 .. n - 1 + 1 /\ 1 + i - 1 = i
            /\ 1 + i - 1 \in 1 .. n - 1 + 1
        BY ONLY <1>5, <1>6, <2>1, i \in 1 .. k
      <4>2. SubSeq(w, 1, k)[i] = w[i]
        BY <3>4, <4>1
      <4>3. w[i] = E[i]
        BY <3>2, <4>1 DEF w
      <4>4. v[i] = E[i]
        BY <3>3, <4>1 DEF v
      <4>. QED  BY <4>2, <4>3, <4>4
    <3>6. SubSeq(w, 1, k) = v
      <4>1. k - 1 + 1 = k /\ k \in Nat
        BY ONLY <1>6
      <4>2. v \in Seq(Fields) /\ Len(v) = k
        BY <3>3, <4>1 DEF v
      <4>3. Len(SubSeq(w, 1, k)) = k /\ SubSeq(w, 1, k) \in Seq(Fields)
        BY <3>4, <4>1
      <4>. HIDE DEF k
      <4>. QED  BY <3>5, <4>1, <4>2, <4>3
    <3>7. k \in 1 .. Len(E)
      BY ONLY <1>2, <1>5, <1>6, <2>1
    <3>. QED  BY <1>4, <3>1, <3>6, <3>7 DEF w, v
  <2>2. CASE ~(n >= MAX_DECOMPRESSED)
    <3>1. payload = IF m.cut THEN Err ELSE Ok(m.fields)
      BY <1>3, <1>5, <2>2 DEF decode_payload
    <3>2. ~(n < Len(E)) /\ payload = Ok(m.fields)
      BY <1>4, <1>7, <3>1
    <3>3. n = Len(E) /\ n \in 1 .. Len(E)
      BY ONLY <1>2, <1>5, <3>2
    <3>. QED  BY <1>4, <3>2, <3>3
  <2>. QED  BY <2>1, <2>2
<1>9. PICK k \in 1 .. Len(E) : payload = Ok(SubSeq(E, 1, k))
  BY <1>8
<1>10. pprof_read(m) = convert_from_proto(decode(SubSeq(E, 1, k)))
  <2>. HIDE DEF payload
  <2>. QED  BY <1>7, <1>9 DEF Ok
<1>11. CASE k = Len(E)
  <2>1. SubSeq(E, 1, k) = E
    <3>1. IsProto(convert_to_proto(p))
      BY <1>1, ConvertedIsProto
    <3>2. k \in 0 .. Len(E)
      BY <1>2
    <3>. QED  BY <1>11, <3>1, <3>2, DecodedTables DEF E
  <2>. QED  BY <1>10, <2>1, MessageBack DEF E
<1>12. CASE k # Len(E)
  <2>1. k \in 1 .. Len(E) - 1
    BY <1>2, <1>12
  <2>2. convert_from_proto(decode(SubSeq(E, 1, k))) = Err
    BY <1>1, <2>1, CutIsErr DEF E
  <2>. QED  BY <1>10, <2>2
<1>. QED  BY <1>11, <1>12

\* A whole pprof file within the decoder's limit is read, and looks like one if it has a
\* series or a sample.
LEMMA WholeIsRead ==
    ASSUME NEW p, Sound(p), Len(pprof_write(p).fields) <= MAX_DECOMPRESSED
    PROVE  /\ p.value_kinds # <<>> \/ p.samples # <<>> =>
                 pprof_probe(pprof_write(p)) = "Likely"
           /\ pprof_read(pprof_write(p)) = Ok(ProfileBack(p))
<1>. DEFINE m == pprof_write(p)
            E == encode(convert_to_proto(p))
            q == decode(E)
<1>1. /\ p \in Profiles /\ m.gzip = TRUE /\ m.cut = FALSE /\ m.fields = E /\ E \in Seq(Fields)
      /\ Len(E) \in Nat /\ Len(E) <= MAX_DECOMPRESSED
  BY PprofWriteIs DEF Sound
<1>2. IsProto(convert_to_proto(p)) /\ convert_to_proto(p).string_table = StringTable(p)
      /\ Refers(p, convert_to_proto(p))
  BY <1>1, ConvertedIsProto, ConvertedRefers
<1>3. decode_payload(m) = Ok(E)
  <2>. HIDE DEF m, E
  <2>1. CASE Len(E) >= MAX_DECOMPRESSED
    <3>1. MAX_DECOMPRESSED = Len(E)
      BY <1>1, <2>1, PprofAssumption
    <3>2. SubSeq(E, 1, Len(E)) = E
      <4>1. Len(E) \in 0 .. Len(E)
        BY <1>1
      <4>. QED  BY <1>2, <4>1, DecodedTables DEF E
    <3>. QED  BY <1>1, <2>1, <3>1, <3>2 DEF decode_payload
  <2>2. CASE ~(Len(E) >= MAX_DECOMPRESSED)
    BY <1>1, <2>2 DEF decode_payload
  <2>. QED  BY <2>1, <2>2
<1>4. /\ q.string_table = StringTable(p) /\ q.sample_type = convert_to_proto(p).sample_type
      /\ q.sample = convert_to_proto(p).sample
  BY <1>2, DecodedWhole, TagsAre
<1>5. p.value_kinds # <<>> \/ p.samples # <<>> => looks_like_pprof(q)
  <2>. DEFINE T == StringTable(p)
              kinds == p.value_kinds
              samples == p.samples
  <2>1. T \in Seq(Text) /\ Len(T) \in Nat \ {0} /\ T[1] = <<>>
    BY <1>1, StringsAre
  <2>2. T # <<>> /\ Head(T) = <<>>
    <3>. HIDE DEF T
    <3>. QED  BY <2>1
  <2>3. /\ Len(q.sample_type) = Len(kinds) /\ Len(q.sample) = Len(samples)
    BY <1>2, <1>4, SamplesBack
  <2>4. /\ kinds \in Seq([kind : Text, unit : Text])
        /\ samples \in Seq([stack : Seq(Nat), values : Seq(Int)])
    BY <1>1 DEF Profiles
  <2>. HIDE DEF kinds, samples
  <2>5. kinds # <<>> => Len(kinds) # 0
    BY <2>4
  <2>6. samples # <<>> => Len(samples) # 0
    BY <2>4
  <2>. HIDE DEF q, T
  <2>7. kinds # <<>> => q.sample_type # <<>>
    BY <2>3, <2>5
  <2>8. samples # <<>> => q.sample # <<>>
    BY <2>3, <2>6
  <2>. QED  BY <1>4, <2>2, <2>7, <2>8 DEF looks_like_pprof, T, kinds, samples
<1>. HIDE DEF m
<1>6. Ok(E) # Err /\ Ok(E)[1] = E
  <2>. HIDE DEF E
  <2>. QED  BY DEF Ok, Err
<1>7. p.value_kinds # <<>> \/ p.samples # <<>> => pprof_probe(m) = "Likely"
  <2>. HIDE DEF E
  <2>. QED  BY <1>3, <1>5, <1>6 DEF pprof_probe
<1>8. pprof_read(m) = Ok(ProfileBack(p))
  <2>1. pprof_read(m) = convert_from_proto(q)
    <3>. HIDE DEF E
    <3>. QED  BY <1>3, <1>6 DEF pprof_read
  <2>. QED  BY <2>1, MessageBack
<1>. QED  BY <1>7, <1>8 DEF m

-----------------------------------------------------------------------------
(* Conversions                                                             *)

LEMMA NothingIsSound ==
    /\ Sound(NoProfile) /\ Normal(NoProfile) /\ NoProfile \in Profiles
    /\ NoMessage \in Messages /\ IsFile(NoFile)
<1>. DEFINE none == <<>>
<1>1. NoProfile = [frames |-> none, samples |-> none, value_kinds |-> none]
  BY DEF NoProfile
<1>2. /\ none \in Seq(NamedFrames) /\ none \in Seq(NormalFrames) /\ none \in Seq(Kinds)
      /\ none \in Seq(SampleOver(Len(none), Len(none))) /\ Len(none) = 0
  OBVIOUS
<1>. HIDE DEF none
<1>3. Sound(NoProfile)
  BY <1>1, <1>2, SoundFrom
<1>4. Normal(NoProfile)
  <2>1. NoProfile.frames = none
    BY <1>1
  <2>. QED  BY <1>2, <2>1 DEF Normal
<1>5. NoMessage \in Messages
  <2>1. <<>> \in Seq(Fields)
    OBVIOUS
  <2>. QED  BY <2>1 DEF NoMessage, Messages
<1>6. IsFile(NoFile)
  BY <1>5, NoTextIsText DEF IsFile, NoFile
<1>. QED  BY <1>3, <1>4, <1>5, <1>6 DEF Sound

\* Whatever a reader makes of a file is sound, and normal if it is pprof's.
LEMMA ReadIs ==
    ASSUME NEW f, IsFile(f), NEW format \in {"folded", "pprof"}, read(f, format) # Err
    PROVE  \E p : read(f, format) = Ok(p) /\ Sound(p) /\ (format = "pprof" => Normal(p))
<1>1. f.form \in {"text", "message"} /\ f.text \in Text /\ f.message \in Messages
  BY DEF IsFile
<1>2. CASE f.form = "text" /\ format = "folded"
  <2>1. read(f, format) = folded_read(f.text)
    BY <1>2 DEF read
  <2>. QED  BY <1>1, <1>2, <2>1, FoldedReadIs
<1>3. CASE f.form = "text" /\ format = "pprof"
  <2>1. read(f, format) = IF f.text = <<>> THEN Ok(NoProfile) ELSE Err
    BY <1>3 DEF read
  <2>2. read(f, format) = Ok(NoProfile)
    BY <2>1
  <2>. QED  BY <2>2, NothingIsSound
<1>4. CASE f.form = "message" /\ format = "folded"
  BY <1>4 DEF read
<1>5. CASE f.form = "message" /\ format = "pprof"
  <2>1. read(f, format) = pprof_read(f.message)
    BY <1>5 DEF read
  <2>. QED  BY <1>1, <2>1, PprofReadIs
<1>. QED  BY <1>1, <1>2, <1>3, <1>4, <1>5

LEMMA FormatIs ==
    /\ \A name : by_name(name) \in {"none", "folded", "pprof"}
    /\ \A f, confidence : probe(f, confidence) \in {"none", "folded", "pprof"}
<1>1. DOMAIN InputExtensions = {"folded", "pprof"}
  BY DEF InputExtensions
<1>2. \A name : by_name(name) \in {"none", "folded", "pprof"}
  BY <1>1 DEF by_name
<1>3. ASSUME NEW f, NEW confidence PROVE probe(f, confidence) \in {"none", "folded", "pprof"}
  <2>. DEFINE a == raised(confidence, f, "folded")
              b == raised(PprofConfidence(f), f, "pprof")
  <2>1. probe(f, confidence) = IF a = 0 /\ b = 0 THEN "none" ELSE IF b > a THEN "pprof" ELSE "folded"
    BY DEF probe
  <2>. HIDE DEF a, b
  <2>. QED  BY <2>1
<1>. QED  BY <1>2, <1>3

LEMMA TextCutIs ==
    ASSUME NEW text \in Text, NEW cut \in TextsCut(text) PROVE cut \in Text
<1>. DEFINE prefixes == {SubSeq(text, 1, n) : n \in 0 .. Len(text) - 1}
            shorter(t) == IF t # <<>> /\ Last(t)[1] = "dec" /\ Last(t)[2] > 9
                          THEN Append(Front(t), Dec(Last(t)[2] \div 10)) ELSE t
<1>1. cut \in prefixes \cup {shorter(t) : t \in prefixes}
  BY DEF TextsCut
<1>2. ASSUME NEW t \in prefixes PROVE t \in Text
  <2>1. PICK n \in 0 .. Len(text) - 1 : t = SubSeq(text, 1, n)
    OBVIOUS
  <2>2. n \in 0 .. Len(text)
    OBVIOUS
  <2>. QED  BY <2>1, <2>2, EndsAreTexts
<1>. HIDE DEF prefixes
<1>3. ASSUME NEW t \in prefixes PROVE shorter(t) \in Text
  <2>1. t \in Text
    BY <1>2
  <2>2. CASE t # <<>> /\ Last(t)[1] = "dec" /\ Last(t)[2] > 9
    <3>1. t \in Seq(Tokens) /\ t # <<>> /\ Len(t) \in 1 .. Len(t) /\ Len(t) \in Nat
      BY <2>1, <2>2 DEF Text
    <3>2. Last(t) \in Tokens
      BY <3>1, ElementIs DEF Last
    <3>3. Last(t)[2] \in Int
      BY <2>2, <3>2, NumberIs
    <3>4. Dec(Last(t)[2] \div 10) \in Tokens
      <4>1. Last(t)[2] \div 10 \in Int
        BY <3>3
      <4>. QED  BY <4>1, NumbersAreTokens
    <3>5. Front(t) \in Text
      <4>1. Len(t) # 0 /\ Len(t) \in 0 .. Len(t)
        BY <3>1
      <4>. QED  BY <2>1, <4>1, EndsAreTexts DEF Front
    <3>6. Append(Front(t), Dec(Last(t)[2] \div 10)) \in Text
      BY <3>4, <3>5 DEF Text
    <3>. QED  BY <2>2, <3>6
  <2>3. CASE ~(t # <<>> /\ Last(t)[1] = "dec" /\ Last(t)[2] > 9)
    BY <2>1, <2>3
  <2>. QED  BY <2>2, <2>3
<1>. HIDE DEF shorter
<1>. QED  BY <1>1, <1>2, <1>3

\* What is left of a message: less of its fields, and an end that does not come.
MessageCut(m, of) ==
    /\ m.gzip = of.gzip /\ m.cut = TRUE
    /\ \E n \in 0 .. Len(of.fields) : m.fields = SubSeq(of.fields, 1, n)

LEMMA CutIs ==
    ASSUME NEW extension, NEW form \in {"text", "message"}, NEW text \in Text,
           NEW message \in Messages,
           NEW g \in Cuts([extension |-> extension, form |-> form, text |-> text,
                           message |-> message])
    PROVE  /\ IsFile(g)
           /\ form = "message" /\ g.form = "message" => MessageCut(g.message, message)
<1>. DEFINE f == [extension |-> extension, form |-> form, text |-> text, message |-> message]
<1>1. /\ f.form = form /\ f.text = text /\ f.message = message
  OBVIOUS
<1>2. CASE form = "text"
  <2>1. PICK t \in TextsCut(text) : g = [f EXCEPT !.text = t]
    BY <1>1, <1>2 DEF Cuts
  <2>2. g.form = "text" /\ g.text = t /\ g.message = message
    BY <1>2, <2>1
  <2>3. t \in Text
    BY TextCutIs
  <2>. QED  BY <1>2, <2>2, <2>3 DEF IsFile
<1>3. CASE form = "message"
  <2>1. \/ g = [f EXCEPT !.form = "text", !.message = NoMessage]
        \/ \E n \in 0 .. Len(f.message.fields) :
              g = [f EXCEPT !.message.cut = TRUE, !.message.fields = SubSeq(@, 1, n)]
    BY <1>1, <1>3 DEF Cuts
  <2>2. CASE g = [f EXCEPT !.form = "text", !.message = NoMessage]
    <3>1. g.form = "text" /\ g.text = text /\ g.message = NoMessage
      BY <2>2
    <3>. QED  BY <3>1, NothingIsSound DEF IsFile
  <2>3. CASE \E n \in 0 .. Len(f.message.fields) :
              g = [f EXCEPT !.message.cut = TRUE, !.message.fields = SubSeq(@, 1, n)]
    <3>1. PICK n \in 0 .. Len(message.fields) :
              g = [f EXCEPT !.message.cut = TRUE, !.message.fields = SubSeq(@, 1, n)]
      BY <1>1, <2>3
    <3>2. /\ message \in [gzip : BOOLEAN, cut : BOOLEAN, fields : Seq(Fields)]
      BY DEF Messages
    <3>3. g.form = "message" /\ g.text = text
      BY <1>3, <3>1
    <3>4. SubSeq(message.fields, 1, n) \in Seq(Fields)
      <4>1. message.fields \in Seq(Fields)
        BY <3>2
      <4>2. Len(message.fields) \in Nat
        BY <4>1
      <4>3. n \in Nat /\ 1 <= n + 1 /\ n <= Len(message.fields)
        BY <4>2
      <4>. QED  BY <4>1, <4>3, PartIs
    <3>. DEFINE h == [message EXCEPT !.cut = TRUE]
                k == [h EXCEPT !.fields = SubSeq(message.fields, 1, n)]
    <3>5. g.message = k
      BY <3>1, <3>2
    <3>6. /\ k \in Messages
          /\ k.gzip = message.gzip /\ k.cut = TRUE /\ k.fields = SubSeq(message.fields, 1, n)
      <4>1. h \in [gzip : BOOLEAN, cut : BOOLEAN, fields : Seq(Fields)]
            /\ h.gzip = message.gzip /\ h.cut = TRUE
        BY <3>2
      <4>. HIDE DEF h
      <4>. QED  BY <3>4, <4>1 DEF Messages
    <3>. HIDE DEF k
    <3>7. MessageCut(g.message, message)
      BY <3>5, <3>6 DEF MessageCut
    <3>. QED  BY <3>3, <3>5, <3>6, <3>7 DEF IsFile
  <2>. QED  BY <2>1, <2>2, <2>3
<1>. QED  BY <1>2, <1>3

-----------------------------------------------------------------------------
(* What is always so                                                       *)

\* What was read, or captured, and what was written last are sound, and normal if they
\* came from a pprof file.
ProfilesSound ==
    /\ Sound(profile) /\ Sound(last)
    /\ from = "pprof" => Normal(profile)
    /\ lastFrom = "pprof" => Normal(last)

\* A pprof file that was not emptied is what a write of the last profile left.
FileLeft ==
    via = "pprof" /\ file.form = "message" =>
        /\ LeftOf(last, file.message)
        /\ ~damaged => file.message = pprof_write(last)
        /\ damaged => file.message.cut = TRUE

\* A folded file that was written in full has what the writer answered.
FoldedLeft ==
    via = "folded" /\ ~damaged /\ pc \in {"file", "profile", "rejected"} =>
        file.form = "text" /\ folded_write(last) = Ok(file.text)

\* How the file that was written was read: in the format that was asked for or found,
\* and with that reader's answer.
Loaded ==
    pc \in {"profile", "rejected"} /\ via # "none" =>
        /\ asked # "none" => from = by_name(asked)
        /\ asked = "none" => looked \in FoldedConfidence(file) /\ from = probe(file, looked)
        /\ pc = "profile" => from # "none" /\ read(file, from) = Ok(profile)
        /\ pc = "rejected" => from = "none" \/ read(file, from) = Err

\* Why the last writer refused, and what it exported.
Answered ==
    /\ pc = "exported" /\ via = "speedscope" => speedscope_write(last) = Ok(export)
    /\ pc = "refused" =>
          \/ via = "folded" /\ folded_write(last) = Err
          \/ via = "speedscope" /\ speedscope_write(last) = Err
          \/ via \notin DOMAIN OutputExtensions

Inv == TypeOK /\ ProfilesSound /\ FileLeft /\ FoldedLeft /\ Loaded /\ Answered

LEMMA InitInv == Init => Inv
<1>. SUFFICES ASSUME Init PROVE Inv
  OBVIOUS
<1>1. /\ from = "none" /\ asked = "none" /\ looked = "none"
      /\ via = "none" /\ lastFrom = "none"
      /\ damaged = FALSE /\ last = NoProfile /\ trips = 0
      /\ pc \in {"file", "profile"}
  BY DEF Init
<1>2. IsFile(file) /\ Sound(profile)
  <2>1. CASE file \in Foreign /\ profile = NoProfile
    BY <2>1, ForeignAssumption, NothingIsSound
  <2>2. CASE file = NoFile /\ profile \in Captured
    BY <2>2, CapturedAssumption, NothingIsSound DEF Sound
  <2>. QED  BY <2>1, <2>2 DEF Init
<1>3. TypeOK
  <2>1. trips \in 0 .. MaxTrips /\ asked \in Requests /\ looked \in {"none"}
    BY <1>1, ConvertAssumption
  <2>2. profile \in Profiles /\ last \in Profiles
    BY <1>1, <1>2, NothingIsSound DEF Sound
  <2>3. /\ pc \in {"file", "profile", "rejected", "exported", "refused"}
        /\ from \in {"none", "folded", "pprof"} /\ lastFrom \in {"none", "folded", "pprof"}
        /\ damaged \in BOOLEAN /\ via \in {"none"}
    BY <1>1
  <2>. QED  BY <1>2, <2>1, <2>2, <2>3 DEF TypeOK
<1>4. ProfilesSound
  BY <1>1, <1>2, NothingIsSound DEF ProfilesSound
<1>5. FileLeft /\ FoldedLeft /\ Loaded /\ Answered
  BY <1>1 DEF FileLeft, FoldedLeft, Loaded, Answered
<1>. QED  BY <1>3, <1>4, <1>5 DEF Inv

\* What the folded prober answers, of a text or of a message.
LEMMA ConfidenceIs == ASSUME NEW f PROVE FoldedConfidence(f) \subseteq DOMAIN Rank
<1>1. DOMAIN Rank = {"None", "Weak", "Extension", "Likely"}
  BY DEF Rank
<1>2. folded_probe(f.text) \in {"None", "Weak", "Likely"}
  BY DEF folded_probe
<1>. QED  BY <1>1, <1>2 DEF FoldedConfidence

LEMMA LoadInv == Inv /\ load_profile => Inv'
<1>. SUFFICES ASSUME Inv, load_profile PROVE Inv'
  OBVIOUS
<1>1. PICK requested \in Requests, confidence \in FoldedConfidence(file) :
          LET format == IF requested # "none" THEN by_name(requested) ELSE probe(file, confidence)
              result == IF format = "none" THEN Err ELSE read(file, format)
          IN  /\ pc' = IF result = Err THEN "rejected" ELSE "profile"
              /\ profile' = IF result = Err THEN NoProfile ELSE result[1]
              /\ from' = format /\ asked' = requested
              /\ looked' = IF requested = "none" THEN confidence ELSE "none"
  BY DEF load_profile
<1>. DEFINE format == IF requested # "none" THEN by_name(requested) ELSE probe(file, confidence)
            result == IF format = "none" THEN Err ELSE read(file, format)
<1>2. /\ pc' = IF result = Err THEN "rejected" ELSE "profile"
      /\ profile' = IF result = Err THEN NoProfile ELSE result[1]
      /\ from' = format /\ asked' = requested
      /\ looked' = IF requested = "none" THEN confidence ELSE "none"
  BY <1>1
<1>3. UNCHANGED <<file, damaged, last, lastFrom, via, export, trips>>
  BY DEF load_profile
<1>4. format \in {"none", "folded", "pprof"}
  BY FormatIs
<1>5. /\ IsFile(file) /\ lastFrom \in {"none", "folded", "pprof"} /\ damaged \in BOOLEAN
      /\ via \in {"none"} \cup {resolve_output(out) : out \in Outputs}
      /\ trips \in 0 .. MaxTrips /\ last \in Profiles /\ asked \in Requests
      /\ ProfilesSound /\ FileLeft /\ FoldedLeft /\ Loaded /\ Answered
  BY DEF Inv, TypeOK
<1>6. /\ pc' = "rejected" \/ pc' = "profile"
      /\ pc' = "rejected" => profile' = NoProfile /\ (format = "none" \/ read(file, format) = Err)
      /\ pc' = "profile" => /\ format # "none" /\ read(file, format) = Ok(profile')
                            /\ Sound(profile') /\ (format = "pprof" => Normal(profile'))
  <2>1. CASE result = Err
    <3>1. pc' = "rejected" /\ profile' = NoProfile
      BY <1>2, <2>1
    <3>2. format = "none" \/ read(file, format) = Err
      BY <2>1
    <3>. QED  BY <3>1, <3>2
  <2>2. CASE result # Err
    <3>1. format # "none" /\ result = read(file, format)
      BY <2>2
    <3>2. format \in {"folded", "pprof"}
      BY <1>4, <3>1
    <3>. HIDE DEF format
    <3>3. PICK p : read(file, format) = Ok(p) /\ Sound(p) /\ (format = "pprof" => Normal(p))
      BY <1>5, <2>2, <3>1, <3>2, ReadIs
    <3>. HIDE DEF result
    <3>4. pc' = "profile" /\ profile' = p
      BY <1>2, <2>2, <3>1, <3>3 DEF Ok
    <3>. QED  BY <3>1, <3>3, <3>4
  <2>. QED  BY <2>1, <2>2
<1>. HIDE DEF result
<1>7. Sound(profile') /\ (from' = "pprof" => Normal(profile'))
  <2>. HIDE DEF format
  <2>. QED  BY <1>2, <1>6, NothingIsSound
<1>8. TypeOK'
  <2>1. /\ from' \in {"none", "folded", "pprof"} /\ asked' \in Requests
        /\ looked' \in {"none"} \cup DOMAIN Rank
    <3>. HIDE DEF format
    <3>. QED  BY <1>2, <1>4, ConfidenceIs
  <2>2. pc' \in {"file", "profile", "rejected", "exported", "refused"}
    BY <1>6
  <2>. QED  BY <1>3, <1>5, <1>7, <2>1, <2>2 DEF TypeOK, IsFile, Sound
<1>9. ProfilesSound'
  BY <1>3, <1>5, <1>7 DEF ProfilesSound
<1>10. FileLeft' /\ FoldedLeft'
  <2>1. pc = "file"
    BY DEF load_profile
  <2>. QED  BY <1>3, <1>5, <2>1 DEF FileLeft, FoldedLeft
<1>11. Loaded'
  <2>1. /\ requested # "none" => format = by_name(requested)
        /\ requested = "none" => format = probe(file, confidence)
    OBVIOUS
  <2>. HIDE DEF format
  <2>2. /\ asked' # "none" => from' = by_name(asked')
        /\ asked' = "none" => /\ looked' \in FoldedConfidence(file')
                              /\ from' = probe(file', looked')
    <3>1. file' = file
      BY <1>3
    <3>2. FoldedConfidence(file') = FoldedConfidence(file)
      BY <3>1
    <3>3. probe(file', confidence) = probe(file, confidence)
      BY <3>1
    <3>. QED  BY <1>2, <2>1, <3>2, <3>3
  <2>3. /\ pc' = "profile" => from' # "none" /\ read(file', from') = Ok(profile')
        /\ pc' = "rejected" => from' = "none" \/ read(file', from') = Err
    BY <1>2, <1>3, <1>6
  <2>. QED  BY <2>2, <2>3 DEF Loaded
<1>12. Answered'
  BY <1>6 DEF Answered
<1>. QED  BY <1>8, <1>9, <1>10, <1>11, <1>12 DEF Inv

LEMMA WrittenIs ==
    ASSUME NEW out, NEW format, NEW text \in Text, NEW message \in Messages,
           Written(out, format, text, message)
    PROVE  /\ pc' = "file" /\ profile' = NoProfile /\ export' = export
           /\ IsFile(file') /\ damaged' \in BOOLEAN
           /\ format # "folded" /\ file'.form = "message" =>
                 /\ ~damaged' => file'.message = message
                 /\ damaged' => MessageCut(file'.message, message)
           /\ format = "folded" /\ ~damaged' => file'.form = "text" /\ file'.text = text
<1>. DEFINE form == IF format = "folded" THEN "text" ELSE "message"
            whole == [extension |-> out.extension, form |-> form, text |-> text,
                      message |-> message]
<1>1. /\ pc' = "file" /\ profile' = NoProfile /\ export' = export
      /\ \/ file' = whole /\ damaged' = FALSE
         \/ file' \in Cuts(whole) /\ damaged' = TRUE
  BY DEF Written
<1>2. /\ form \in {"text", "message"} /\ (format # "folded" => form = "message")
      /\ format = "folded" => form = "text"
  OBVIOUS
<1>. HIDE DEF form
<1>3. CASE file' = whole /\ damaged' = FALSE
  <2>1. file'.form = form /\ file'.text = text /\ file'.message = message
    BY <1>3
  <2>2. IsFile(file')
    BY <1>2, <2>1 DEF IsFile
  <2>. QED  BY <1>1, <1>2, <1>3, <2>1, <2>2
<1>4. CASE file' \in Cuts(whole) /\ damaged' = TRUE
  <2>1. /\ IsFile(file')
        /\ form = "message" /\ file'.form = "message" => MessageCut(file'.message, message)
    BY <1>2, <1>4, CutIs
  <2>. QED  BY <1>1, <1>2, <1>4, <2>1
<1>. QED  BY <1>1, <1>3, <1>4

\* What the speedscope writer answers, of a profile that is sound.
LEMMA SpeedscopeIs ==
    ASSUME NEW p, Sound(p)
    PROVE  /\ speedscope_write(p) # Err
           /\ speedscope_write(p) =
                 Ok([frames |-> [i \in 1 .. Len(p.frames) |->
                        [name |-> frame_name(p.frames[i]),
                         file |-> p.frames[i].file,
                         line |-> p.frames[i].line]],
                     profiles |-> [k \in 1 .. Len(p.value_kinds) |-> SampledProfile(p, k)]])
<1>1. validate(p) /\ p \in Profiles
  BY DEF Sound
<1>2. p.samples \in Seq([stack : Seq(Nat), values : Seq(Int)]) /\ Len(p.frames) \in Nat
      /\ Len(p.value_kinds) \in Nat
  BY <1>1 DEF Profiles
<1>3. ~\E s \in ToSet(p.samples) :
          \/ \E id \in ToSet(s.stack) : id >= Len(p.frames)
          \/ Len(s.values) < Len(p.value_kinds)
  <2>1. SUFFICES ASSUME NEW s \in ToSet(p.samples)
                 PROVE  /\ \A id \in ToSet(s.stack) : ~(id >= Len(p.frames))
                        /\ ~(Len(s.values) < Len(p.value_kinds))
    OBVIOUS
  <2>2. s \in [stack : Seq(Nat), values : Seq(Int)]
    BY <1>2, MemberIs
  <2>3. /\ Len(s.values) = Len(p.value_kinds)
        /\ \A id \in ToSet(s.stack) : id < Len(p.frames)
    BY <1>1 DEF validate
  <2>4. \A id \in ToSet(s.stack) : id \in Nat
    BY <2>2 DEF ToSet
  <2>. QED  BY <1>2, <2>3, <2>4
<1>4. speedscope_write(p) =
          Ok([frames |-> [i \in 1 .. Len(p.frames) |->
                 [name |-> frame_name(p.frames[i]),
                  file |-> p.frames[i].file,
                  line |-> p.frames[i].line]],
              profiles |-> [k \in 1 .. Len(p.value_kinds) |-> SampledProfile(p, k)]])
  BY <1>3 DEF speedscope_write
<1>5. \A x : Ok(x) # Err
  BY DEF Ok, Err
<1>. QED  BY <1>4, <1>5

\* What every write changes, whatever its format.
Turned(out) ==
    /\ pc = "profile" /\ trips < MaxTrips
    /\ via' = resolve_output(out) /\ last' = profile /\ lastFrom' = from
    /\ from' = "none" /\ asked' = "none" /\ looked' = "none" /\ trips' = trips + 1

LEMMA TurnedIs ==
    ASSUME Inv, NEW out \in Outputs, Turned(out), IsFile(file'), damaged' \in BOOLEAN,
           profile' \in {profile, NoProfile},
           pc' \in {"file", "exported", "refused"}
    PROVE  TypeOK' /\ ProfilesSound' /\ Loaded'
<1>1. /\ TypeOK /\ ProfilesSound /\ trips \in 0 .. MaxTrips /\ MaxTrips \in Nat
      /\ profile \in Profiles /\ from \in {"none", "folded", "pprof"} /\ "none" \in Requests
  BY ConvertAssumption DEF Inv, TypeOK
<1>2. trips' \in 0 .. MaxTrips
  BY <1>1 DEF Turned
<1>3. /\ via' \in {resolve_output(o) : o \in Outputs} /\ last' \in Profiles
      /\ lastFrom' \in {"none", "folded", "pprof"} /\ from' \in {"none", "folded", "pprof"}
      /\ asked' \in Requests /\ looked' = "none" /\ profile' \in Profiles
  BY <1>1, NothingIsSound DEF Turned
<1>4. TypeOK'
  BY <1>2, <1>3 DEF TypeOK, IsFile
<1>5. ProfilesSound'
  BY <1>1, NothingIsSound DEF ProfilesSound, Turned
<1>6. Loaded'
  BY DEF Loaded
<1>. QED  BY <1>4, <1>5, <1>6

LEMMA SaveFoldedInv ==
    ASSUME Inv, NEW out \in Outputs, Turned(out), resolve_output(out) = "folded",
           SaveFolded(out)
    PROVE  Inv'
<1>1. /\ Sound(profile) /\ profile \in Profiles /\ IsFile(file) /\ damaged \in BOOLEAN
      /\ via' = "folded" /\ last' = profile
  BY DEF Inv, TypeOK, ProfilesSound, Turned
<1>2. CASE folded_write(profile) = Err
  <2>1. pc' = "refused" /\ UNCHANGED <<file, damaged, profile, export>>
    BY <1>2 DEF SaveFolded, Refused
  <2>2. TypeOK' /\ ProfilesSound' /\ Loaded'
    BY <1>1, <2>1, TurnedIs DEF IsFile
  <2>3. FileLeft' /\ FoldedLeft' /\ Answered'
    BY <1>1, <1>2, <2>1 DEF FileLeft, FoldedLeft, Answered
  <2>. QED  BY <2>2, <2>3 DEF Inv
<1>3. CASE folded_write(profile) # Err
  <2>1. PICK text \in Text : folded_write(profile) = Ok(text)
    BY <1>1, <1>3, FoldedWriteIs
  <2>2. Written(out, "folded", folded_write(profile)[1], NoMessage)
    BY <1>3 DEF SaveFolded
  <2>3. folded_write(profile)[1] = text
    BY <2>1 DEF Ok
  <2>4. Written(out, "folded", text, NoMessage)
    BY <2>2, <2>3
  <2>5. /\ pc' = "file" /\ profile' = NoProfile /\ IsFile(file') /\ damaged' \in BOOLEAN
        /\ ~damaged' => file'.form = "text" /\ file'.text = text
    BY <2>4, WrittenIs, NothingIsSound
  <2>6. TypeOK' /\ ProfilesSound' /\ Loaded'
    BY <2>5, TurnedIs
  <2>7. FileLeft' /\ FoldedLeft' /\ Answered'
    BY <1>1, <2>1, <2>5 DEF FileLeft, FoldedLeft, Answered
  <2>. QED  BY <2>6, <2>7 DEF Inv
<1>. QED  BY <1>2, <1>3

LEMMA SavePprofInv ==
    ASSUME Inv, NEW out \in Outputs, Turned(out), resolve_output(out) = "pprof",
           SavePprof(out)
    PROVE  Inv'
<1>. DEFINE m == pprof_write(profile)
            E == encode(convert_to_proto(profile))
<1>1. /\ Sound(profile) /\ profile \in Profiles /\ via' = "pprof" /\ last' = profile
  BY DEF Inv, TypeOK, ProfilesSound, Turned
<1>2. /\ m \in Messages /\ m.gzip = TRUE /\ m.cut = FALSE /\ m.fields = E /\ E \in Seq(Fields)
      /\ Len(E) \in Nat
  BY <1>1, PprofWriteIs
<1>3. Written(out, "pprof", <<>>, m)
  BY DEF SavePprof
<1>. HIDE DEF m
<1>4. /\ pc' = "file" /\ profile' = NoProfile /\ IsFile(file') /\ damaged' \in BOOLEAN
      /\ file'.form = "message" =>
            /\ ~damaged' => file'.message = m
            /\ damaged' => MessageCut(file'.message, m)
  BY <1>2, <1>3, WrittenIs, NoTextIsText
<1>5. TypeOK' /\ ProfilesSound' /\ Loaded'
  BY <1>4, TurnedIs
<1>6. ASSUME file'.form = "message"
      PROVE  /\ LeftOf(profile, file'.message)
             /\ ~damaged' => file'.message = m
             /\ damaged' => file'.message.cut = TRUE
  <2>. HIDE DEF E
  <2>1. CASE ~damaged'
    <3>1. file'.message = m
      BY <1>4, <1>6, <2>1
    <3>2. Len(E) \in 0 .. Len(E) /\ E = SubSeq(E, 1, Len(E)) /\ ~(Len(E) < Len(E))
      BY <1>2
    <3>3. \E n \in 0 .. Len(E) : m.fields = SubSeq(E, 1, n) /\ (n < Len(E) => m.cut = TRUE)
      BY <1>2, <3>2
    <3>. QED  BY <1>2, <2>1, <3>1, <3>3 DEF LeftOf, E
  <2>2. CASE damaged'
    <3>1. MessageCut(file'.message, m)
      BY <1>4, <1>6, <2>2
    <3>2. /\ file'.message.gzip = TRUE /\ file'.message.cut = TRUE
          /\ \E n \in 0 .. Len(E) : file'.message.fields = SubSeq(E, 1, n)
      BY <1>2, <3>1 DEF MessageCut
    <3>. QED  BY <2>2, <3>2 DEF LeftOf, E
  <2>. QED  BY <2>1, <2>2
<1>7. FileLeft' /\ FoldedLeft'
  BY <1>1, <1>6 DEF FileLeft, FoldedLeft, m
<1>8. Answered'
  BY <1>4 DEF Answered
<1>. QED  BY <1>5, <1>7, <1>8 DEF Inv

\* A write that leaves the file as it was.
LEMMA SaveElsewhereInv ==
    ASSUME Inv, NEW out \in Outputs, Turned(out), resolve_output(out) # "pprof",
           UNCHANGED <<file, damaged, profile>>,
           \/ pc' = "exported" /\ via' = "speedscope" /\ Ok(export') = speedscope_write(profile)
           \/ pc' = "exported" /\ via' = "json"
           \/ pc' = "refused" /\ via' \notin DOMAIN OutputExtensions
    PROVE  Inv'
<1>1. IsFile(file) /\ damaged \in BOOLEAN /\ via' = resolve_output(out) /\ last' = profile
  BY DEF Inv, TypeOK, Turned
<1>2. pc' \in {"file", "exported", "refused"} /\ IsFile(file')
  BY <1>1 DEF IsFile
<1>3. TypeOK' /\ ProfilesSound' /\ Loaded'
  BY <1>1, <1>2, TurnedIs
<1>4. FileLeft' /\ FoldedLeft'
  BY <1>1 DEF FileLeft, FoldedLeft
<1>5. Answered'
  BY <1>1 DEF Answered
<1>. QED  BY <1>3, <1>4, <1>5 DEF Inv

LEMMA SaveInv == ASSUME Inv, NEW out \in Outputs, Save(out) PROVE Inv'
<1>1. Turned(out)
  BY DEF Save, Turned
<1>2. DOMAIN OutputExtensions = {"folded", "pprof", "json", "speedscope"}
  BY DEF OutputExtensions
<1>. DEFINE to == resolve_output(out)
<1>3. /\ to = "folded" => SaveFolded(out)
      /\ to = "pprof" => SavePprof(out)
      /\ to = "speedscope" => SaveSpeedscope
      /\ to = "json" => SaveJson
      /\ to \notin DOMAIN OutputExtensions => Refused
  <2>1. (CASE to = "folded" -> SaveFolded(out)
           [] to = "pprof" -> SavePprof(out)
           [] to = "speedscope" -> SaveSpeedscope
           [] to = "json" -> SaveJson
           [] to \notin DOMAIN OutputExtensions -> Refused)
    BY DEF Save
  <2>. HIDE DEF to
  <2>. QED  BY <1>2, <2>1
<1>4. via' = to
  BY <1>1 DEF Turned
<1>5. CASE to = "folded"
  BY <1>1, <1>3, <1>5, SaveFoldedInv
<1>6. CASE to = "pprof"
  BY <1>1, <1>3, <1>6, SavePprofInv
<1>7. CASE to = "speedscope"
  <2>1. SaveSpeedscope /\ via' = "speedscope"
    BY <1>3, <1>4, <1>7
  <2>2. Sound(profile)
    BY DEF Inv, ProfilesSound
  <2>3. speedscope_write(profile) # Err
        /\ \E e : speedscope_write(profile) = Ok(e)
    BY <2>2, SpeedscopeIs
  <2>4. PICK e : speedscope_write(profile) = Ok(e)
    BY <2>3
  <2>5. speedscope_write(profile)[1] = e
    BY <2>4 DEF Ok
  <2>6. pc' = "exported" /\ export' = e /\ UNCHANGED <<file, damaged, profile>>
    BY <2>1, <2>3, <2>5 DEF SaveSpeedscope
  <2>. QED  BY <1>1, <1>7, <2>1, <2>4, <2>6, SaveElsewhereInv
<1>8. CASE to = "json"
  <2>1. pc' = "exported" /\ via' = "json" /\ UNCHANGED <<file, damaged, profile>>
    BY <1>3, <1>4, <1>8 DEF SaveJson
  <2>. QED  BY <1>1, <1>8, <2>1, SaveElsewhereInv
<1>9. CASE to \notin DOMAIN OutputExtensions
  <2>1. pc' = "refused" /\ via' = to /\ UNCHANGED <<file, damaged, profile>>
    BY <1>3, <1>4, <1>9 DEF Refused
  <2>. QED  BY <1>1, <1>2, <1>9, <2>1, SaveElsewhereInv
<1>. QED  BY <1>2, <1>5, <1>6, <1>7, <1>8, <1>9

LEMMA InvAlways == Spec => []Inv
<1>1. ASSUME Inv, UNCHANGED vars PROVE Inv'
  <2>1. TypeOK'
    BY <1>1 DEF Inv, TypeOK, IsFile, vars
  <2>2. ProfilesSound' /\ FileLeft' /\ FoldedLeft'
    BY <1>1 DEF Inv, ProfilesSound, FileLeft, FoldedLeft, vars
  <2>3. Loaded'
    BY <1>1 DEF Inv, Loaded, vars
  <2>4. Answered'
    BY <1>1 DEF Inv, Answered, vars
  <2>. QED  BY <2>1, <2>2, <2>3, <2>4 DEF Inv
<1>2. Inv /\ [Next]_vars => Inv'
  BY <1>1, LoadInv, SaveInv DEF Next
<1>. QED  BY <1>2, InitInv, PTL DEF Spec

-----------------------------------------------------------------------------
(* What follows from it                                                    *)

LEMMA OkIs == (\A x : Ok(x) # Err /\ Ok(x)[1] = x) /\ (\A x, y : Ok(x) = Ok(y) => x = y)
<1>1. \A x : Ok(x) # Err /\ Ok(x)[1] = x
  BY DEF Ok, Err
<1>2. ASSUME NEW x, NEW y, Ok(x) = Ok(y) PROVE x = y
  <2>1. Ok(x)[1] = x /\ Ok(y)[1] = y
    BY <1>1
  <2>. QED  BY <1>2, <2>1
<1>. QED  BY <1>1, <1>2

\* Every variable of a conversion stays in its range, whatever the files say that it is
\* given: what any reader makes of any file is a profile, and what a writer leaves is a
\* file again.
THEOREM Typed == Spec => []TypeOK
<1>1. Inv => TypeOK
  BY DEF Inv
<1>. QED  BY <1>1, InvAlways, PTL

\* What was read is valid, and what was read or captured is refused by no writer but
\* folded's, and by that one only for a sample without a value.
THEOREM Writable == Spec => []ReadIsWritable
<1>1. ASSUME Inv PROVE ReadIsWritable
  <2>1. Sound(profile) /\ Sound(last) /\ Answered
    BY <1>1 DEF Inv, ProfilesSound
  <2>2. pc = "profile" => validate(profile)
    BY <2>1 DEF Sound
  <2>3. ASSUME pc = "refused", via \in DOMAIN OutputExtensions
        PROVE  via = "folded" /\ \E s \in ToSet(last.samples) : s.values = <<>>
    <3>1. via # "speedscope" \/ speedscope_write(last) # Err
      BY <2>1, SpeedscopeIs
    <3>2. via = "folded" /\ folded_write(last) = Err
      BY <2>1, <2>3, <3>1 DEF Answered
    <3>3. \E s \in ToSet(last.samples) :
              s.values = <<>> \/ \E id \in ToSet(s.stack) : id >= Len(last.frames)
      BY <3>2, OkIs DEF folded_write
    <3>4. PICK s \in ToSet(last.samples) :
              s.values = <<>> \/ \E id \in ToSet(s.stack) : id >= Len(last.frames)
      BY <3>3
    <3>5. ASSUME NEW id \in ToSet(s.stack) PROVE ~(id >= Len(last.frames))
      <4>1. id < Len(last.frames)
        BY <2>1, <3>5 DEF Sound, validate
      <4>2. last.samples \in Seq([stack : Seq(Nat), values : Seq(Int)])
            /\ Len(last.frames) \in Nat
        BY <2>1 DEF Sound, Profiles
      <4>3. s \in [stack : Seq(Nat), values : Seq(Int)]
        BY <4>2, MemberIs
      <4>4. id \in Nat
        BY <4>3, MemberIs
      <4>. QED  BY <4>1, <4>2, <4>4
    <3>. QED  BY <3>2, <3>4, <3>5
  <2>. QED  BY <2>2, <2>3 DEF ReadIsWritable
<1>. QED  BY <1>1, InvAlways, PTL

\* A speedscope file has every series with every stack, and a name for every frame.
THEOREM Exported == Spec => []EverySeriesExported
<1>1. ASSUME Inv PROVE EverySeriesExported
  <2>. SUFFICES ASSUME pc = "exported", via = "speedscope"
                PROVE  /\ Len(export.profiles) = Len(last.value_kinds)
                       /\ \A k \in 1 .. Len(export.profiles) : \A i \in 1 .. Len(last.samples) :
                             /\ export.profiles[k].weights[i] = last.samples[i].values[k]
                             /\ export.profiles[k].samples[i] = last.samples[i].stack
                             /\ \A id \in ToSet(last.samples[i].stack) : id < Len(export.frames)
                       /\ \A f \in ToSet(export.frames) : f.name # <<>>
    BY DEF EverySeriesExported
  <2>. DEFINE named(f) == [name |-> frame_name(f), file |-> f.file, line |-> f.line]
              written == [frames |-> [i \in 1 .. Len(last.frames) |-> named(last.frames[i])],
                          profiles |-> [k \in 1 .. Len(last.value_kinds) |->
                                           SampledProfile(last, k)]]
  <2>1. Sound(last) /\ Ok(export) = Ok(written)
    BY <1>1, SpeedscopeIs DEF Inv, ProfilesSound, Answered
  <2>2. export = written
    BY <2>1, OkIs
  <2>3. /\ export.frames = [i \in 1 .. Len(last.frames) |-> named(last.frames[i])]
        /\ export.profiles = [k \in 1 .. Len(last.value_kinds) |-> SampledProfile(last, k)]
    BY <2>2
  <2>4. /\ last.samples \in Seq([stack : Seq(Nat), values : Seq(Int)])
        /\ last.frames \in Seq(Frames) /\ validate(last) /\ AllNamed(last)
        /\ Len(last.frames) \in Nat /\ Len(last.value_kinds) \in Nat
    BY <2>1 DEF Sound, Profiles
  <2>5. Len(export.profiles) = Len(last.value_kinds) /\ Len(export.frames) = Len(last.frames)
    BY <2>3, <2>4
  <2>6. ASSUME NEW k \in 1 .. Len(export.profiles), NEW i \in 1 .. Len(last.samples)
        PROVE  /\ export.profiles[k].weights[i] = last.samples[i].values[k]
               /\ export.profiles[k].samples[i] = last.samples[i].stack
               /\ \A id \in ToSet(last.samples[i].stack) : id < Len(export.frames)
    <3>1. export.profiles[k] = SampledProfile(last, k)
      BY <2>3, <2>5
    <3>2. /\ export.profiles[k].weights = Weights(last, k)
          /\ export.profiles[k].samples = [j \in 1 .. Len(last.samples) |-> last.samples[j].stack]
      BY <3>1 DEF SampledProfile
    <3>3. export.profiles[k].weights[i] = last.samples[i].values[k]
      BY <3>2 DEF Weights
    <3>4. export.profiles[k].samples[i] = last.samples[i].stack
      BY <3>2
    <3>5. last.samples[i] \in ToSet(last.samples)
      BY <2>4, ElementIs
    <3>. QED  BY <2>4, <2>5, <3>3, <3>4, <3>5 DEF validate
  <2>7. ASSUME NEW f \in ToSet(export.frames) PROVE f.name # <<>>
    <3>1. PICK i \in 1 .. Len(last.frames) : f = named(last.frames[i])
      BY <2>3, <2>7 DEF ToSet
    <3>2. last.frames[i] \in ToSet(last.frames)
      BY <2>4, ElementIs
    <3>3. f.name = frame_name(last.frames[i])
      BY <3>1
    <3>. QED  BY <2>4, <3>2, <3>3 DEF AllNamed
  <2>. QED  BY <2>5, <2>6, <2>7
<1>. QED  BY <1>1, InvAlways, PTL

\* A message that was read is what a write of the last profile left, and only the pprof
\* reader reads one.
LEMMA MessageRead ==
    ASSUME Inv, pc = "profile", via = "pprof", file.form = "message"
    PROVE  /\ from = "pprof" /\ pprof_read(file.message) = Ok(profile)
           /\ LeftOf(last, file.message) /\ (damaged => file.message.cut = TRUE)
<1>1. from # "none" /\ read(file, from) = Ok(profile)
  BY DEF Inv, Loaded
<1>2. from \in {"folded", "pprof"}
  BY <1>1 DEF Inv, TypeOK
<1>3. read(file, "folded") = Err /\ read(file, "pprof") = pprof_read(file.message)
  BY DEF read
<1>4. from = "pprof"
  BY <1>1, <1>2, <1>3, OkIs
<1>. QED  BY <1>1, <1>3, <1>4 DEF Inv, FileLeft

\* A pprof file whose write failed is never read as a profile, by any reader, unless
\* nothing of it was written or the decoder's limit ends it first.
THEOREM CutNoticed == Spec => []CutPprofIsNoticed
<1>1. ASSUME Inv PROVE CutPprofIsNoticed
  <2>. SUFFICES ASSUME damaged, pc = "profile", via = "pprof", file.form # "text"
                PROVE  Len(file.message.fields) >= MAX_DECOMPRESSED
    BY DEF CutPprofIsNoticed, ReadBack
  <2>1. file.form = "message" /\ file.message \in Messages
    BY <1>1 DEF Inv, TypeOK, IsFile
  <2>2. /\ pprof_read(file.message) # Err /\ file.message.gzip = TRUE
        /\ file.message.cut = TRUE
    BY <1>1, <2>1, MessageRead, OkIs DEF LeftOf
  <2>3. decode_payload(file.message) # Err
    BY <2>2 DEF pprof_read
  <2>. QED  BY <2>2, <2>3 DEF decode_payload
<1>. QED  BY <1>1, InvAlways, PTL

\* Detection of a message that looks like a profile and not like folded stacks: its
\* extension cannot outweigh it.
LEMMA MessageFound ==
    ASSUME NEW f, f.form = "message", pprof_probe(f.message) = "Likely",
           NEW confidence \in FoldedConfidence(f), confidence # "Likely"
    PROVE  probe(f, confidence) = "pprof"
<1>1. confidence \in {"None", "Weak"}
  BY DEF FoldedConfidence
<1>2. Rank["None"] = 0 /\ Rank["Weak"] = 1 /\ Rank["Extension"] = 2 /\ Rank["Likely"] = 3
  BY DEF Rank
<1>3. raised(confidence, f, "folded") \in {0, 1, 2}
  BY <1>1, <1>2 DEF raised
<1>4. raised(PprofConfidence(f), f, "pprof") = 3
  BY <1>2 DEF raised, PprofConfidence
<1>. QED  BY <1>3, <1>4 DEF probe

\* A whole pprof file within the decoder's limit is read, and what is read of it is what
\* went into it.
LEMMA WholeBack ==
    ASSUME Inv, via = "pprof", file.form = "message", ~damaged,
           Len(file.message.fields) <= MAX_DECOMPRESSED
    PROVE  /\ file.message = pprof_write(last)
           /\ read(file, "pprof") = Ok(ProfileBack(last))
           /\ last.value_kinds # <<>> \/ last.samples # <<>> =>
                 pprof_probe(file.message) = "Likely"
<1>1. file.message = pprof_write(last) /\ Sound(last)
  BY DEF Inv, FileLeft, ProfilesSound
<1>2. read(file, "pprof") = pprof_read(file.message)
  BY DEF read
<1>. QED  BY <1>1, <1>2, WholeIsRead

\* A whole pprof file, of any profile, is read by the reader of its name.  With a series or
\* a sample it is found under any extension, unless the folded prober takes its bytes
\* for stacks; folded's reader then refuses it.  From any file that is read come the
\* stacks, the values and the kinds that went into it, and the very profile if that had
\* come from a pprof file; where a cut or the decoder's limit took a part of it, only a
\* profile with a series is sure to be refused.
THEOREM RoundTrip == Spec => []PprofRoundTrip
<1>1. ASSUME Inv PROVE PprofRoundTrip
  <2>. DEFINE loaded == pc \in {"profile", "rejected"}
              whole == ~damaged /\ Len(file.message.fields) <= MAX_DECOMPRESSED
              known == last.value_kinds # <<>> \/ last.samples # <<>>
  <2>. SUFFICES ASSUME via = "pprof", file.form = "message"
                PROVE  /\ loaded /\ whole /\ asked = "pprof" => pc = "profile"
                       /\ loaded /\ whole /\ asked = "none" /\ looked # "Likely" /\ known
                          => pc = "profile"
                       /\ pc = "profile" => from = "pprof"
                       /\ pc = "profile" /\ (whole \/ last.value_kinds # <<>>) =>
                             SaysWhat(last, profile) /\ (lastFrom = "pprof" => profile = last)
    BY DEF PprofRoundTrip, SaysWhat
  <2>1. Sound(last) /\ (lastFrom = "pprof" => Normal(last)) /\ Loaded
    BY <1>1 DEF Inv, ProfilesSound
  <2>2. ASSUME loaded, whole, from = "pprof" PROVE pc = "profile"
    <3>1. read(file, from) # Err
      BY <1>1, <2>2, WholeBack, OkIs
    <3>. QED  BY <2>1, <2>2, <3>1 DEF Loaded
  <2>3. ASSUME loaded, whole, asked = "pprof" PROVE pc = "profile"
    <3>1. by_name("pprof") = "pprof"
      BY DEF by_name, InputExtensions
    <3>2. from = "pprof"
      BY <2>1, <2>3, <3>1 DEF Loaded
    <3>. QED  BY <2>2, <2>3, <3>2
  <2>4. ASSUME loaded, whole, asked = "none", looked # "Likely", known
        PROVE  pc = "profile"
    <3>1. looked \in FoldedConfidence(file) /\ from = probe(file, looked)
      BY <2>1, <2>4 DEF Loaded
    <3>2. pprof_probe(file.message) = "Likely"
      BY <1>1, <2>4, WholeBack
    <3>3. from = "pprof"
      BY <2>4, <3>1, <3>2, MessageFound
    <3>. QED  BY <2>2, <2>4, <3>3
  <2>5. pc = "profile" => from = "pprof"
    BY <1>1, MessageRead
  <2>6. ASSUME pc = "profile", whole \/ last.value_kinds # <<>>
        PROVE  SaysWhat(last, profile) /\ (lastFrom = "pprof" => profile = last)
    <3>1. /\ from = "pprof" /\ LeftOf(last, file.message)
          /\ pprof_read(file.message) = Ok(profile)
      BY <1>1, <2>6, MessageRead
    <3>2. CASE whole
      <4>1. read(file, "pprof") = Ok(ProfileBack(last))
        BY <1>1, <3>2, WholeBack
      <4>2. read(file, "pprof") = pprof_read(file.message)
        BY DEF read
      <4>. QED  BY <3>1, <4>1, <4>2, OkIs, <2>1, BackSays, NormalBack
    <3>3. CASE last.value_kinds # <<>>
      <4>1. pprof_read(file.message) = Ok(ProfileBack(last))
        BY <2>1, <3>1, <3>3, OkIs, LeftIsWholeOrErr
      <4>. QED  BY <3>1, <4>1, OkIs, <2>1, BackSays, NormalBack
    <3>. QED  BY <2>6, <3>2, <3>3
  <2>. QED  BY <2>3, <2>4, <2>5, <2>6
<1>. QED  BY <1>1, InvAlways, PTL

\* Detection of a text that looks like folded stacks, whatever its extension says.
LEMMA TextFound ==
    ASSUME NEW f, f.form = "text", folded_probe(f.text) = "Likely",
           NEW confidence \in FoldedConfidence(f)
    PROVE  probe(f, confidence) = "folded"
<1>1. confidence = "Likely"
  BY DEF FoldedConfidence
<1>2. Rank["None"] = 0 /\ Rank["Extension"] = 2 /\ Rank["Likely"] = 3
  BY DEF Rank
<1>3. raised(confidence, f, "folded") = 3
  BY <1>1, <1>2 DEF raised
<1>4. raised(PprofConfidence(f), f, "pprof") \in {0, 2}
  BY <1>2 DEF raised, PprofConfidence
<1>. QED  BY <1>3, <1>4 DEF probe

\* A whole folded file whose labels the format can carry is found to be one, under any
\* extension, and read; the same labels and counts come out of it, and so do the fields
\* of every frame that parse_frame can tell apart.
THEOREM FoldedBack == Spec => []FoldedRoundTrip
<1>1. ASSUME Inv PROVE FoldedRoundTrip
  <2>. SUFFICES ASSUME via = "folded", ~damaged, asked \in {"none", "folded"},
                       Tame(last), last.samples # <<>>, pc \in {"profile", "rejected"}
                PROVE  pc = "profile" /\ from = "folded" /\ SaysLabels(last, profile)
    BY DEF FoldedRoundTrip, SaysLabels
  <2>1. /\ last \in Profiles /\ validate(last)
        /\ file.form = "text" /\ folded_write(last) = Ok(file.text)
    BY <1>1 DEF Inv, ProfilesSound, Sound, FoldedLeft
  <2>2. PICK r : /\ folded_probe(file.text) = "Likely" /\ folded_read(file.text) = Ok(r)
                 /\ SaysLabels(last, r)
    BY <2>1, FoldedSays, OkIs
  <2>3. /\ asked # "none" => from = by_name(asked)
        /\ asked = "none" => looked \in FoldedConfidence(file) /\ from = probe(file, looked)
    BY <1>1 DEF Inv, Loaded
  <2>4. by_name("folded") = "folded"
    BY DEF by_name, InputExtensions
  <2>5. \A confidence \in FoldedConfidence(file) : probe(file, confidence) = "folded"
    BY <2>1, <2>2, TextFound
  <2>6. from = "folded"
    BY <2>3, <2>4, <2>5
  <2>7. read(file, from) = Ok(r)
    BY <2>1, <2>2, <2>6 DEF read
  <2>8. pc = "profile"
    BY <1>1, <2>6, <2>7, OkIs DEF Inv, Loaded
  <2>9. profile = r
    BY <1>1, <2>7, <2>8, OkIs DEF Inv, Loaded
  <2>. QED  BY <2>2, <2>6, <2>8, <2>9
<1>. QED  BY <1>1, InvAlways, PTL
=============================================================================
