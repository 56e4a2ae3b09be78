----------------------------- MODULE MCLifecycle -----------------------------
(***************************************************************************)
(* Five configuration files: one of complete lines that names a channel    *)
(* twice and two modules, the second unknown; the same without a final     *)
(* newline; one whose channel is not on air and whose width needs more     *)
(* than 16 bits; one whose channel is negative in 16 bits; and one whose   *)
(* last line lacks its value.                                              *)
(***************************************************************************)
EXTENDS Lifecycle

Word(t) == [text |-> t, number |-> 0]
Line(t, v) == <<Word(t), Word(":"), v>>
Value(n) == [text |-> "digits", number |-> n]

CompleteLines ==
  Line("PROGRAM_NUMBER", Value(7)) \o Line("TV_MODULE", Word("DVB_T")) \o
  Line("PROGRAM_NUMBER", Value(1)) \o Line("TV_MODULE", Word("ATSC"))

OffAir ==
  Line("PROGRAM_NUMBER", Value(2)) \o Line("BANDWIDTH", Value(8000000))

Wrapped == Line("PROGRAM_NUMBER", Value(40000))

MissingValue ==
  Line("AUDIO_PID", Value(3)) \o <<Word("PROGRAM_NUMBER"), Word(":")>>

MCFiles ==
  {[tokens |-> CompleteLines, spaced |-> TRUE], [tokens |-> CompleteLines, spaced |-> FALSE],
   [tokens |-> OffAir, spaced |-> TRUE], [tokens |-> Wrapped, spaced |-> TRUE],
   [tokens |-> MissingValue, spaced |-> TRUE]}

MCLeftovers == {Value(0)}
=============================================================================
