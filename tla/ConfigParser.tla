---------------------------- MODULE ConfigParser ----------------------------
(***************************************************************************)
(* parseConfigFile: a file of "TAG : VALUE" lines is read token by token   *)
(* and each value is written into the configuration structure.  The loop   *)
(* counts tokens, not lines, tests the end of the file before it reads     *)
(* and never looks at the result of a read or of parseAttribute.           *)
(*                                                                         *)
(* A token is what the parser can tell about it: its text, the number its  *)
(* leading digits spell (0 when there are none).                           *)
(***************************************************************************)
EXTENDS Integers, Sequences

CONSTANTS
  Files,        \* the configuration files there may be
  Leftovers     \* what the uninitialized value buffer may hold

Numeric == {"FREQUENCY", "BANDWIDTH", "AUDIO_PID", "VIDEO_PID", "PROGRAM_NUMBER"}
Named == {"TV_MODULE", "AUDIO_TYPE", "VIDEO_TYPE"}

\* The names parseAttribute knows for a named attribute.
Known(a) == CASE a = "TV_MODULE" -> {"DVB_T", "DVB_T2"}
              [] a = "AUDIO_TYPE" -> {"AUDIO_TYPE_MPEG_AUDIO"}
              [] OTHER -> {"VIDEO_TYPE_MPEG2"}

Token == [text : STRING, number : Nat]

\* A file is its tokens, and whether white space follows the last of them.
ASSUME FilesAssumption ==
  \A f \in Files : f.tokens \in Seq(Token) /\ f.spaced \in BOOLEAN
ASSUME LeftoversAssumption == Leftovers \subseteq Token

\* The tag buffer is not looked at before a tag has been read.
NoToken == [text |-> "none", number |-> 0]

VARIABLES
  file,              \* the file that is open
  read,              \* tokens read so far
  eof,               \* feof: a read has met the end of the file
  at,                \* i: which token of a line is read next
  tag, value,        \* configFileTag and configFileValue
  numbers, names     \* config; "unset" is the enumerator 0 a name starts with

configVars == <<file, read, eof, at, tag, value, numbers, names>>

\* The structure is static and zero.
ConfigInit ==
  /\ file \in Files
  /\ read = 0 /\ eof = FALSE /\ at = 0
  /\ tag = NoToken /\ value \in Leftovers
  /\ numbers = [a \in Numeric |-> 0] /\ names = [a \in Named |-> "unset"]

\* fscanf("%s"): the next token, or at the end of the file what the buffer
\* held.  The token that ends the file is read together with its end.
Scan(buffer) ==
  IF read < Len(file.tokens)
  THEN /\ buffer' = file.tokens[read + 1] /\ read' = read + 1
       /\ eof' = (read + 1 = Len(file.tokens) /\ ~file.spaced)
  ELSE eof' = TRUE /\ UNCHANGED <<buffer, read>>

ReadTag ==
  /\ ~eof /\ at = 0 /\ at' = 1
  /\ Scan(tag) /\ UNCHANGED <<file, value, numbers, names>>

\* The separator goes into a buffer nobody reads.
ReadSeparator ==
  /\ ~eof /\ at = 1 /\ at' = 2
  /\ IF read < Len(file.tokens)
     THEN read' = read + 1 /\ eof' = (read + 1 = Len(file.tokens) /\ ~file.spaced)
     ELSE eof' = TRUE /\ UNCHANGED read
  /\ UNCHANGED <<file, tag, value, numbers, names>>

\* configFreq has 32 bits, the other numbers 16; both are signed.
Stored(a, n) == IF a = "FREQUENCY" THEN n ELSE ((n + 32768) % 65536) - 32768

\* Mutant of Assign: the first line that names an attribute wins.
AssignOnce(t, v) ==
  /\ numbers' = IF t.text \in Numeric /\ numbers[t.text] = 0
                THEN [numbers EXCEPT ![t.text] = Stored(t.text, v.number)] ELSE numbers
  /\ names' = IF t.text \in Named /\ v.text \in Known(t.text)
              THEN [names EXCEPT ![t.text] = v.text] ELSE names

\* parseAttribute: an unknown tag and an unknown name change nothing.
Assign(t, v) ==
  /\ numbers' = IF t.text \in Numeric
                THEN [numbers EXCEPT ![t.text] = Stored(t.text, v.number)] ELSE numbers
  /\ names' = IF t.text \in Named /\ v.text \in Known(t.text)
              THEN [names EXCEPT ![t.text] = v.text] ELSE names

ReadValue ==
  /\ ~eof /\ at = 2 /\ at' = 0
  /\ Scan(value) /\ Assign(tag, value')
  /\ UNCHANGED <<file, tag>>

ParseStep == ReadTag \/ ReadSeparator \/ ReadValue

\* The parser on its own; Lifecycle lets the stream thread take its steps.
ConfigSpec == ConfigInit /\ [][ParseStep]_configVars

-----------------------------------------------------------------------------
(* Properties *)

\* Every variable keeps its kind of value.
ConfigTypeOK ==
  /\ file \in Files
  /\ read \in 0 .. Len(file.tokens)
  /\ eof \in BOOLEAN
  /\ at \in 0 .. 2
  /\ tag \in Token \cup {NoToken} /\ value \in Token
  /\ numbers \in [Numeric -> Int]
  /\ names \in [Named -> {"unset"} \cup UNION {Known(a) : a \in Named}]

\* A line is three tokens: a tag, a separator and a value.  A file may end in a
\* line cut short; if it lacks the value only and white space follows, the value
\* is read, too, and is the one of the line before.
Lines(f) == Len(f.tokens) \div 3
CutShort(f) == Len(f.tokens) % 3 = 2 /\ f.spaced
Taken(f) == IF CutShort(f) THEN Lines(f) + 1 ELSE Lines(f)
TagOf(f, j) == f.tokens[3 * j - 2]
ValueOf(f, j) == IF 3 * j <= Len(f.tokens) THEN f.tokens[3 * j] ELSE f.tokens[3 * j - 3]

\* The lines whose value parseAttribute accepts for attribute a.
LinesFor(f, a, n) ==
  {j \in 1 .. n : TagOf(f, j).text = a /\ (a \in Named => ValueOf(f, j).text \in Known(a))}

\* The last of them.
LastLine(f, a, n, j) ==
  j \in LinesFor(f, a, n) /\ \A k \in LinesFor(f, a, n) : k <= j

\* The configuration is what the first n lines of f say: zero for an
\* attribute without a line, else what its last line says.
Follows(f, n) ==
  /\ \A a \in Numeric :
       \/ LinesFor(f, a, n) = {} /\ numbers[a] = 0
       \/ \E j \in 1 .. n : LastLine(f, a, n, j) /\ numbers[a] = Stored(a, ValueOf(f, j).number)
  /\ \A a \in Named :
       \/ LinesFor(f, a, n) = {} /\ names[a] = "unset"
       \/ \E j \in 1 .. n : LastLine(f, a, n, j) /\ names[a] = ValueOf(f, j).text

\* The configuration is what the lines of the file say, although the loop counts
\* tokens, tests the end of the file before it reads and looks at no result: no
\* attribute gets another line's value, the last accepted line of an attribute
\* wins, and reading stops with the last line whether or not a newline ends it.
\* The exception is the code's: a last line without its value repeats the value
\* of the line before (config_parser.c:41-46), or, if there is none, stores what
\* the uninitialized buffer holds.
ConfigFollowsFile ==
  eof /\ (CutShort(file) => Lines(file) > 0) => Follows(file, Taken(file))
=============================================================================
