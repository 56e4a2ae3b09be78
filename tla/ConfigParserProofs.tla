------------------------- MODULE ConfigParserProofs -------------------------
(***************************************************************************)
(* Proofs about ConfigParser: every file is read as its lines say,         *)
(* whatever the lines are and wherever the file ends.                      *)
(***************************************************************************)
EXTENDS ConfigParser, TLAPS

-----------------------------------------------------------------------------
(* Lines *)

\* A numeric and a named attribute are never the same.
LEMMA Disjoint == Numeric \cap Named = {}
BY DEF Numeric, Named

\* What parseAttribute does with line n + 1 keeps the configuration what the
\* lines so far say.
LEMMA AssignFollows ==
  ASSUME NEW f, NEW n \in Nat,
         numbers \in [Numeric -> Int],
         names \in [Named -> {"unset"} \cup UNION {Known(a) : a \in Named}],
         Follows(f, n),
         Assign(TagOf(f, n + 1), ValueOf(f, n + 1))
  PROVE  /\ \A a \in Numeric :
              \/ LinesFor(f, a, n + 1) = {} /\ numbers'[a] = 0
              \/ \E j \in 1 .. n + 1 : LastLine(f, a, n + 1, j)
                                       /\ numbers'[a] = Stored(a, ValueOf(f, j).number)
         /\ \A a \in Named :
              \/ LinesFor(f, a, n + 1) = {} /\ names'[a] = "unset"
              \/ \E j \in 1 .. n + 1 : LastLine(f, a, n + 1, j)
                                       /\ names'[a] = ValueOf(f, j).text
<1> DEFINE t == TagOf(f, n + 1)
           v == ValueOf(f, n + 1)
<1>1. ASSUME NEW a \in Numeric
      PROVE  \/ LinesFor(f, a, n + 1) = {} /\ numbers'[a] = 0
             \/ \E j \in 1 .. n + 1 : LastLine(f, a, n + 1, j)
                                      /\ numbers'[a] = Stored(a, ValueOf(f, j).number)
  <2>1. CASE t.text = a
    <3>1. numbers'[a] = Stored(a, v.number)
      BY <2>1 DEF Assign
    <3>2. LastLine(f, a, n + 1, n + 1)
      BY <2>1, Disjoint DEF LastLine, LinesFor
    <3>3. n + 1 \in 1 .. n + 1
      OBVIOUS
    <3> HIDE DEF v
    <3>4. v = ValueOf(f, n + 1)
      BY DEF v
    <3> QED BY <3>1, <3>2, <3>3, <3>4
  <2>2. CASE t.text # a
    <3>1. numbers'[a] = numbers[a]
      BY <2>2 DEF Assign
    <3>2. LinesFor(f, a, n + 1) = LinesFor(f, a, n)
      BY <2>2 DEF LinesFor
    <3>3. \A j : LastLine(f, a, n, j) => LastLine(f, a, n + 1, j)
      BY <3>2 DEF LastLine
    <3>4. \A j \in 1 .. n : j \in 1 .. n + 1
      OBVIOUS
    <3> QED BY <3>1, <3>2, <3>3, <3>4, Zenon DEF Follows
  <2> QED BY <2>1, <2>2
<1>2. ASSUME NEW a \in Named
      PROVE  \/ LinesFor(f, a, n + 1) = {} /\ names'[a] = "unset"
             \/ \E j \in 1 .. n + 1 : LastLine(f, a, n + 1, j)
                                      /\ names'[a] = ValueOf(f, j).text
  <2>1. CASE t.text = a /\ v.text \in Known(a)
    <3>1. names'[a] = v.text
      BY <2>1 DEF Assign
    <3>2. LastLine(f, a, n + 1, n + 1)
      BY <2>1 DEF LastLine, LinesFor
    <3>3. n + 1 \in 1 .. n + 1
      OBVIOUS
    <3> HIDE DEF v
    <3>4. v = ValueOf(f, n + 1)
      BY DEF v
    <3> QED BY <3>1, <3>2, <3>3, <3>4
  <2>2. CASE ~(t.text = a /\ v.text \in Known(a))
    <3>1. names'[a] = names[a]
      BY <2>2 DEF Assign
    <3>2. LinesFor(f, a, n + 1) = LinesFor(f, a, n)
      BY <2>2 DEF LinesFor
    <3>3. \A j : LastLine(f, a, n, j) => LastLine(f, a, n + 1, j)
      BY <3>2 DEF LastLine
    <3>4. \A j \in 1 .. n : j \in 1 .. n + 1
      OBVIOUS
    <3> QED BY <3>1, <3>2, <3>3, <3>4, Zenon DEF Follows
  <2> QED BY <2>1, <2>2
<1> QED BY <1>1, <1>2

-----------------------------------------------------------------------------
(* The loop *)

\* In the middle of the file k lines have been taken, the tag in hand is the
\* next line's and the value in hand the last line's; where all tokens are read
\* white space has followed the last.
TakenLines(k) ==
  /\ read = 3 * k + at /\ Follows(file, k)
  /\ at > 0 => tag = TagOf(file, k + 1)
  /\ k > 0 => value = ValueOf(file, k)
  /\ read > 0 /\ read = Len(file.tokens) => file.spaced

Readable(f) == CutShort(f) => Lines(f) > 0

LoopInv ==
  Readable(file) =>
    \/ eof /\ Follows(file, Taken(file))
    \/ ~eof /\ \E k \in Nat : TakenLines(k)

\* A file has a natural number of lines, and at most two tokens more.
LEMMA LinesNat ==
  ASSUME NEW f \in Files
  PROVE  /\ Lines(f) \in Nat /\ Len(f.tokens) \in Nat /\ f.tokens \in Seq(Token)
         /\ Len(f.tokens) = 3 * Lines(f) + (Len(f.tokens) % 3)
         /\ Len(f.tokens) % 3 \in 0 .. 2
         /\ f.spaced \in BOOLEAN
<1>1. f.tokens \in Seq(Token) /\ f.spaced \in BOOLEAN
  BY FilesAssumption
<1>2. Len(f.tokens) \in Nat
  BY <1>1
<1>3. \A n \in Nat : n \div 3 \in Nat /\ n = 3 * (n \div 3) + (n % 3) /\ n % 3 \in 0 .. 2
  OBVIOUS
<1> QED BY <1>1, <1>2, <1>3, Zenon DEF Lines

\* How many lines a file has when its tokens end in one.
LEMMA LastLineNumber ==
  ASSUME NEW f \in Files, NEW k \in Nat
  PROVE  /\ Len(f.tokens) \in {3 * k, 3 * k + 1} => Taken(f) = k
         /\ Len(f.tokens) = 3 * k + 2 =>
              /\ Lines(f) = k
              /\ f.spaced => CutShort(f) /\ Taken(f) = k + 1
              /\ ~f.spaced => Taken(f) = k
<1>1. /\ Lines(f) \in Nat /\ Len(f.tokens) \in Nat
      /\ Len(f.tokens) = 3 * Lines(f) + (Len(f.tokens) % 3)
      /\ Len(f.tokens) % 3 \in 0 .. 2
      /\ f.spaced \in BOOLEAN
  BY LinesNat
<1> DEFINE n == Lines(f)
           m == Len(f.tokens) % 3
<1>2. \A r \in 0 .. 2 : Len(f.tokens) = 3 * k + r => n = k /\ m = r
  <2> HIDE DEF n, m
  <2>1. n \in Nat /\ m \in 0 .. 2 /\ Len(f.tokens) = 3 * n + m
    BY <1>1 DEF n, m
  <2> QED BY <2>1
<1>3. ASSUME NEW r \in 0 .. 1, Len(f.tokens) = 3 * k + r
      PROVE  Taken(f) = k /\ Len(f.tokens) # 3 * k + 2
  <2>1. n = k /\ m = r /\ Len(f.tokens) # 3 * k + 2
    BY <1>1, <1>2, <1>3
  <2> HIDE DEF m
  <2>2. m # 2
    BY <2>1
  <2> QED BY <2>1, <2>2, Zenon DEF Taken, CutShort, m
<1>4. ASSUME Len(f.tokens) = 3 * k + 2
      PROVE  /\ Lines(f) = k
             /\ f.spaced => CutShort(f) /\ Taken(f) = k + 1
             /\ ~f.spaced => Taken(f) = k
  <2>1. n = k /\ m = 2
    BY <1>1, <1>2, <1>4
  <2>2. CutShort(f) <=> f.spaced
    BY <1>1, <2>1 DEF CutShort
  <2> QED BY <2>1, <2>2 DEF Taken
<1>5. Len(f.tokens) \in {3 * k, 3 * k + 1} => Taken(f) = k
  <2>1. CASE Len(f.tokens) = 3 * k
    <3>1. 0 \in 0 .. 1 /\ Len(f.tokens) = 3 * k + 0
      BY <2>1
    <3> QED BY <3>1, <1>3
  <2>2. CASE Len(f.tokens) = 3 * k + 1
    <3>1. 1 \in 0 .. 1
      OBVIOUS
    <3> QED BY <2>2, <3>1, <1>3
  <2> QED BY <2>1, <2>2
<1> QED BY <1>4, <1>5, Zenon

\* The end of the file is met on or after the last token, by a step that
\* otherwise reads the next token.
LEMMA EndOfFile ==
  ASSUME ParseStep
  PROVE  /\ file' = file /\ ~eof
         /\ eof' \in BOOLEAN
         /\ read < Len(file.tokens) =>
              /\ read' = read + 1
              /\ eof' => read + 1 = Len(file.tokens) /\ ~file.spaced
              /\ ~eof' => ~(read + 1 = Len(file.tokens) /\ ~file.spaced)
         /\ ~(read < Len(file.tokens)) => read' = read /\ eof'
BY Zenon DEF ParseStep, ReadTag, ReadSeparator, ReadValue, Scan

\* One token keeps the types.
LEMMA ParseTypes ==
  ASSUME ConfigTypeOK, ParseStep
  PROVE  ConfigTypeOK'
<1> USE DEF ConfigTypeOK
<1>1. file.tokens \in Seq(Token) /\ Len(file.tokens) \in Nat
  BY LinesNat
<1>2. read < Len(file.tokens) => file.tokens[read + 1] \in Token
  BY <1>1
<1>3. file' \in Files /\ eof' \in BOOLEAN
  BY EndOfFile
<1>4. read' \in 0 .. Len(file'.tokens)
  <2>1. CASE read < Len(file.tokens)
    BY <1>1, <2>1, EndOfFile
  <2>2. CASE ~(read < Len(file.tokens))
    BY <1>1, <2>2, EndOfFile
  <2> QED BY <2>1, <2>2
<1>5. tag' \in Token \cup {NoToken} /\ value' \in Token
  BY <1>2, Zenon DEF ParseStep, ReadTag, ReadSeparator, ReadValue, Scan
<1>6. at' \in 0 .. 2
  BY DEF ParseStep, ReadTag, ReadSeparator, ReadValue
<1>7. /\ numbers' \in [Numeric -> Int]
      /\ names' \in [Named -> {"unset"} \cup UNION {Known(a) : a \in Named}]
  <2>1. CASE ReadTag \/ ReadSeparator
    BY <2>1 DEF ReadTag, ReadSeparator
  <2>2. CASE ReadValue
    <3>1. Assign(tag, value')
      BY <2>2 DEF ReadValue
    <3>2. \A a \in Numeric : Stored(a, value'.number) \in Int
      BY <1>5 DEF Stored, Token
    <3>3. numbers' \in [Numeric -> Int]
      BY <3>1, <3>2 DEF Assign
    <3>4. names' \in [Named -> {"unset"} \cup UNION {Known(a) : a \in Named}]
      BY <3>1 DEF Assign
    <3> QED BY <3>3, <3>4
  <2> QED BY <2>1, <2>2 DEF ParseStep
<1> QED BY <1>3, <1>4, <1>5, <1>6, <1>7

\* What has been said by the lines so far stays said while nothing is assigned.
LEMMA FollowsKept ==
  ASSUME UNCHANGED <<file, numbers, names>>, NEW k
  PROVE  Follows(file, k)' <=> Follows(file, k)
BY DEF Follows, LinesFor, LastLine, TagOf, ValueOf

\* The value a round reads, at the end of the file the one in hand, is given to
\* the tag in hand: one line more is taken.
LEMMA TakeLine ==
  ASSUME ConfigTypeOK, ReadValue, NEW k \in Nat, TakenLines(k),
         value' = ValueOf(file, k + 1)
  PROVE  Follows(file, k + 1)'
<1>0. file' = file
  BY DEF ReadValue
<1>1. at = 2 /\ tag = TagOf(file, k + 1) /\ Follows(file, k)
  BY DEF TakenLines, ReadValue
<1>2. Assign(TagOf(file, k + 1), ValueOf(file, k + 1))
  BY <1>1 DEF ReadValue, Assign
<1>3. /\ numbers \in [Numeric -> Int]
      /\ names \in [Named -> {"unset"} \cup UNION {Known(a) : a \in Named}]
  BY DEF ConfigTypeOK
<1>4. \A a : LinesFor(file, a, k + 1)' = LinesFor(file, a, k + 1)
  BY <1>0 DEF LinesFor, TagOf, ValueOf
<1>5. \A a, j : /\ LastLine(file, a, k + 1, j)' <=> LastLine(file, a, k + 1, j)
                /\ ValueOf(file, j)' = ValueOf(file, j)
  BY <1>0, <1>4 DEF LastLine, ValueOf
<1>6. PICK f : f = file
  OBVIOUS
<1>7. Follows(f, k) /\ Assign(TagOf(f, k + 1), ValueOf(f, k + 1))
  BY <1>1, <1>2, <1>6
<1>8. /\ \A a \in Numeric :
           \/ LinesFor(f, a, k + 1) = {} /\ numbers'[a] = 0
           \/ \E j \in 1 .. k + 1 : LastLine(f, a, k + 1, j)
                                    /\ numbers'[a] = Stored(a, ValueOf(f, j).number)
      /\ \A a \in Named :
           \/ LinesFor(f, a, k + 1) = {} /\ names'[a] = "unset"
           \/ \E j \in 1 .. k + 1 : LastLine(f, a, k + 1, j)
                                    /\ names'[a] = ValueOf(f, j).text
  BY <1>3, <1>7, AssignFollows
<1> QED BY <1>4, <1>5, <1>6, <1>8, Zenon DEF Follows

\* One token keeps the loop in step with the lines.
LEMMA ParseLines ==
  ASSUME ConfigTypeOK, LoopInv, ParseStep
  PROVE  LoopInv'
<1>0. file' = file /\ ~eof
  BY EndOfFile
<1> SUFFICES ASSUME Readable(file) PROVE LoopInv'
  BY <1>0 DEF LoopInv, Readable, CutShort, Lines
<1>1. PICK k \in Nat : TakenLines(k)
  BY <1>0 DEF LoopInv
<1>2. /\ file \in Files /\ Len(file.tokens) \in Nat /\ file.spaced \in BOOLEAN
      /\ read \in 0 .. Len(file.tokens) /\ Taken(file)' = Taken(file)
  BY <1>0, LinesNat DEF ConfigTypeOK, Taken, CutShort, Lines
<1>3. CASE ReadTag
  <2>1. Follows(file, k)'
    BY <1>0, <1>1, <1>3, FollowsKept DEF TakenLines, ReadTag
  <2>2. read = 3 * k /\ at' = 1 /\ value' = value
    BY <1>1, <1>3 DEF TakenLines, ReadTag
  <2>3. CASE eof'
    <3>1. Len(file.tokens) \in {3 * k, 3 * k + 1}
      BY <1>2, <2>2, <2>3, EndOfFile
    <3>2. Taken(file) = k
      BY <1>2, <3>1, LastLineNumber
    <3> QED BY <1>2, <2>1, <2>3, <3>2 DEF LoopInv
  <2>4. CASE ~eof'
    <3>1. read < Len(file.tokens) /\ read' = 3 * k + 1
      BY <1>2, <2>2, <2>4, EndOfFile
    <3>2. tag' = TagOf(file, k + 1)
      <4>1. 3 * (k + 1) - 2 = read + 1
        BY <2>2
      <4> QED BY <1>3, <3>1, <4>1 DEF ReadTag, Scan, TagOf
    <3>3. read' = Len(file.tokens) => file.spaced
      BY <1>2, <2>2, <2>4, <3>1, EndOfFile
    <3>4. k > 0 => value' = ValueOf(file, k)
      BY <1>1, <2>2 DEF TakenLines
    <3>5. TakenLines(k)'
      BY <1>0, <2>1, <2>2, <3>1, <3>2, <3>3, <3>4 DEF TakenLines, TagOf, ValueOf
    <3> QED BY <2>4, <3>5 DEF LoopInv
  <2> QED BY <1>2, <2>3, <2>4, EndOfFile
<1>4. CASE ReadSeparator
  <2>1. Follows(file, k)'
    BY <1>0, <1>1, <1>4, FollowsKept DEF TakenLines, ReadSeparator
  <2>2. /\ read = 3 * k + 1 /\ at' = 2 /\ tag = TagOf(file, k + 1)
        /\ value' = value /\ tag' = tag
        /\ read = Len(file.tokens) => file.spaced
    BY <1>1, <1>4 DEF TakenLines, ReadSeparator
  <2>3. CASE eof'
    <3>1. \/ Len(file.tokens) = 3 * k + 1
          \/ Len(file.tokens) = 3 * k + 2 /\ ~file.spaced
      BY <1>2, <2>2, <2>3, EndOfFile
    <3>2. Taken(file) = k
      BY <1>2, <3>1, LastLineNumber
    <3> QED BY <1>2, <2>1, <2>3, <3>2 DEF LoopInv
  <2>4. CASE ~eof'
    <3>1. read < Len(file.tokens) /\ read' = 3 * k + 2
      BY <1>2, <2>2, <2>4, EndOfFile
    <3>2. read' = Len(file.tokens) => file.spaced
      BY <1>2, <2>2, <2>4, <3>1, EndOfFile
    <3>3. k > 0 => value' = ValueOf(file, k)
      BY <1>1, <2>2 DEF TakenLines
    <3>4. TakenLines(k)'
      BY <1>0, <2>1, <2>2, <3>1, <3>2, <3>3 DEF TakenLines, TagOf, ValueOf
    <3> QED BY <2>4, <3>4 DEF LoopInv
  <2> QED BY <1>2, <2>3, <2>4, EndOfFile
<1>5. CASE ReadValue
  <2>1. /\ read = 3 * k + 2 /\ at' = 0
        /\ k > 0 => value = ValueOf(file, k)
        /\ read = Len(file.tokens) => file.spaced
    BY <1>1, <1>5 DEF TakenLines, ReadValue
  <2>2. CASE read < Len(file.tokens)
    <3>1. value' = ValueOf(file, k + 1)
      <4>1. 3 * (k + 1) = read + 1 /\ 3 * (k + 1) <= Len(file.tokens)
        BY <1>2, <2>1, <2>2
      <4> QED BY <1>5, <2>2, <4>1 DEF ReadValue, Scan, ValueOf
    <3>2. Follows(file, k + 1)'
      BY <1>1, <1>5, <3>1, TakeLine
    <3>3. /\ read' = 3 * (k + 1)
          /\ eof' => 3 * (k + 1) = Len(file.tokens)
          /\ ~eof' => (3 * (k + 1) = Len(file.tokens) => file.spaced)
      BY <1>2, <2>1, <2>2, EndOfFile
    <3>4. CASE eof'
      <4>1. Taken(file) = k + 1
        BY <1>2, <3>3, <3>4, LastLineNumber
      <4> QED BY <1>2, <3>2, <3>4, <4>1 DEF LoopInv
    <3>5. CASE ~eof'
      <4>1. TakenLines(k + 1)'
        BY <1>0, <2>1, <3>1, <3>2, <3>3, <3>5 DEF TakenLines, ValueOf
      <4> QED BY <3>5, <4>1 DEF LoopInv
    <3> QED BY <3>4, <3>5
  <2>3. CASE ~(read < Len(file.tokens))
    <3>1. Len(file.tokens) = 3 * k + 2 /\ file.spaced
      BY <1>2, <2>1, <2>3
    <3>2. Lines(file) = k /\ CutShort(file) /\ Taken(file) = k + 1
      BY <1>2, <3>1, LastLineNumber
    <3>3. k > 0
      BY <3>2 DEF Readable
    <3>4. ValueOf(file, k + 1) = ValueOf(file, k)
      <4>1. ~(3 * (k + 1) <= Len(file.tokens)) /\ 3 * k <= Len(file.tokens)
        BY <3>1
      <4>2. 3 * (k + 1) - 3 = 3 * k
        OBVIOUS
      <4> QED BY <4>1, <4>2 DEF ValueOf
    <3>5. value' = ValueOf(file, k + 1) /\ eof'
      BY <1>5, <2>1, <2>3, <3>3, <3>4 DEF ReadValue, Scan
    <3>6. Follows(file, k + 1)'
      BY <1>1, <1>5, <3>5, TakeLine
    <3> QED BY <1>2, <3>2, <3>5, <3>6 DEF LoopInv
  <2> QED BY <2>2, <2>3
<1> QED BY <1>3, <1>4, <1>5 DEF ParseStep

\* Nothing has been read at the start.
LEMMA ParseInit ==
  ASSUME ConfigInit
  PROVE  ConfigTypeOK /\ LoopInv
<1>0. /\ file \in Files /\ read = 0 /\ ~eof /\ eof \in BOOLEAN /\ at = 0
      /\ tag = NoToken /\ value \in Leftovers
      /\ numbers = [a \in Numeric |-> 0] /\ names = [a \in Named |-> "unset"]
  BY Zenon DEF ConfigInit
<1>1. Lines(file) \in Nat /\ Len(file.tokens) \in Nat
  BY <1>0, LinesNat
<1>2. ConfigTypeOK
  <2>1. tag \in Token \cup {NoToken} /\ value \in Token
    BY <1>0, LeftoversAssumption
  <2>2. /\ numbers \in [Numeric -> Int]
        /\ names \in [Named -> {"unset"} \cup UNION {Known(a) : a \in Named}]
    BY <1>0
  <2> QED BY <1>0, <1>1, <2>1, <2>2 DEF ConfigTypeOK
<1>3. Follows(file, 0)
  <2>1. \A a : LinesFor(file, a, 0) = {}
    BY DEF LinesFor
  <2> QED BY <1>0, <2>1 DEF Follows
<1>4. TakenLines(0)
  BY <1>0, <1>3 DEF TakenLines
<1> QED BY <1>0, <1>1, <1>2, <1>4 DEF LoopInv

\* Stuttering and the steps of other threads keep the loop's invariant.
LEMMA ParseUnchanged ==
  ASSUME ConfigTypeOK, LoopInv, UNCHANGED configVars
  PROVE  ConfigTypeOK' /\ LoopInv'
<1>1. /\ file' = file /\ read' = read /\ eof' = eof /\ at' = at
      /\ tag' = tag /\ value' = value /\ numbers' = numbers /\ names' = names
  BY DEF configVars
<1>2. ConfigTypeOK'
  BY <1>1 DEF ConfigTypeOK
<1>3. \A k : Follows(file, k)' <=> Follows(file, k)
  BY <1>1 DEF Follows, LinesFor, LastLine, TagOf, ValueOf
<1>4. LoopInv'
  BY <1>1, <1>3 DEF LoopInv, TakenLines, Readable, Taken, CutShort, Lines, TagOf, ValueOf
<1> QED BY <1>2, <1>4

-----------------------------------------------------------------------------
(* Theorems *)

\* Whatever the files hold, every variable keeps its kind of value.
THEOREM ConfigTypeCorrect == ConfigSpec => []ConfigTypeOK
<1>1. ConfigInit => ConfigTypeOK
  BY ParseInit
<1>2. ConfigTypeOK /\ [ParseStep]_configVars => ConfigTypeOK'
  BY ParseTypes DEF ConfigTypeOK, configVars
<1> QED BY <1>1, <1>2, PTL DEF ConfigSpec

\* Every file is read as its lines say: no value goes to another line's
\* attribute, the last accepted line wins, the last line counts with and without
\* a newline after it, and one without its value takes the line before's.
THEOREM FileIsFollowed == ConfigSpec => []ConfigFollowsFile
<1>1. ConfigInit => ConfigTypeOK /\ LoopInv
  BY ParseInit
<1>2. ConfigTypeOK /\ LoopInv /\ [ParseStep]_configVars => (ConfigTypeOK /\ LoopInv)'
  BY ParseTypes, ParseLines, ParseUnchanged
<1>3. LoopInv => ConfigFollowsFile
  BY DEF LoopInv, Readable, ConfigFollowsFile
<1> QED BY <1>1, <1>2, <1>3, PTL DEF ConfigSpec
=============================================================================
