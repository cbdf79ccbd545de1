----------------------------- MODULE RespParser -----------------------------
(***************************************************************************)
(* The parser of src/src/parser_resp.cpp, which reads commands from a      *)
(* client and from the log, and format_resp_command of src/src/aof.cpp,    *)
(* which writes them to the log.                                           *)
(*                                                                         *)
(* A character is a string of length one, and a string of the program a    *)
(* sequence of characters.  Sizes are numerals in the base Len(Digits):    *)
(* ten in the program, two in the instances TLC checks, so that a size of  *)
(* two already has two digits.  Sizes stay far below INT_MAX, and blanks   *)
(* and signs, which stoi accepts too, occur in no command.                 *)
(*                                                                         *)
(* A run of the parser is its state p, the commands it has passed to       *)
(* handle_command so far, and whether an exception has left it.            *)
(***************************************************************************)
EXTENDS Integers, SequencesExt

CONSTANT Digits

CR == "\r"
LF == "\n"

ASSUME DigitsAssumption ==
  /\ Digits \in Seq(Range(Digits)) /\ Len(Digits) > 1 /\ IsInjective(Digits)
  /\ Range(Digits) \cap {CR, LF, "$"} = {}

-----------------------------------------------------------------------------
(* Numbers.                                                                *)

to_string(n) ==
  LET numeral[i \in 0 .. n] ==
        IF i < Len(Digits) THEN <<Digits[i + 1]>>
        ELSE Append(numeral[i \div Len(Digits)], Digits[(i % Len(Digits)) + 1])
  IN numeral[n]

\* How many digits s begins with; stoi throws if there is none, and ignores
\* what follows them.
LeadingDigits(s) ==
  Min({i \in 1 .. Len(s) + 1 : i > Len(s) \/ s[i] \notin Range(Digits)}) - 1

Numeric(s) == LeadingDigits(s) > 0

DigitValue(d) == (CHOOSE i \in DOMAIN Digits : Digits[i] = d) - 1

stoi(s) ==
  LET value[i \in 0 .. LeadingDigits(s)] ==
        IF i = 0 THEN 0 ELSE Len(Digits) * value[i - 1] + DigitValue(s[i])
  IN value[LeadingDigits(s)]

-----------------------------------------------------------------------------
(* The writer.                                                             *)

resp_bulk_string(val) == <<"$">> \o to_string(Len(val)) \o <<CR, LF>> \o val \o <<CR, LF>>

format_resp_command(args) ==
  <<"*">> \o to_string(Len(args)) \o <<CR, LF>>
  \o FlattenSeq([i \in DOMAIN args |-> resp_bulk_string(args[i])])

-----------------------------------------------------------------------------
(* The parser.                                                             *)

\* A new RespParser, and what reset makes of any other.
Fresh == [state |-> "IDLE", args |-> <<>>, array_count |-> 0, current_bulk_len |-> 0,
          current_buffer |-> <<>>, data_accumulator |-> <<>>]

\* Mutant: reset forgets the arguments.
ResetKeepsArgs(p) == [Fresh EXCEPT !.args = p.args]

reset(p) == Fresh

Idle(p, c) ==
  IF c = "*" THEN [p EXCEPT !.state = "READING_ARRAY_SIZE", !.current_buffer = <<>>] ELSE p

\* A character of a size that does not end it.
Collect(p, c) == IF c = CR THEN p ELSE [p EXCEPT !.current_buffer = Append(@, c)]

\* The end of an array size.  Nothing catches what stoi throws.
ArraySize(p) ==
  [p EXCEPT !.array_count = stoi(p.current_buffer), !.current_buffer = <<>>,
            !.state = "READING_BULK_SIZE"]

\* The end of a bulk size, which may be an empty line; a size that is no number
\* drops the command.
BulkSize(p) ==
  IF p.current_buffer = <<>> THEN p
  ELSE IF ~Numeric(p.current_buffer) THEN reset(p)
  ELSE [p EXCEPT !.current_bulk_len = stoi(p.current_buffer), !.current_buffer = <<>>,
                 !.data_accumulator = <<>>, !.state = "READING_DATA"]

\* Mutant: the data ends at the first line feed.
DataNotYetRead(p, c) == c # LF

\* Whether c belongs to the data; what follows the data up to a line feed is
\* ignored.
InData(p, c) == Len(p.data_accumulator) < p.current_bulk_len

\* The line feed after an argument: the last one executes the command.
EndOfArgument(run) ==
  LET p == run.p
      args == Append(p.args, p.data_accumulator)
  IN IF Len(args) = p.array_count
     THEN [run EXCEPT !.p = reset(p), !.calls = Append(@, args)]
     ELSE [run EXCEPT !.p = [p EXCEPT !.args = args, !.current_buffer = <<>>,
                                      !.state = "READING_BULK_SIZE"]]

\* One iteration of the loop of parse_and_execute.
Consume(run, c) ==
  LET p == run.p
  IN IF run.thrown THEN run ELSE
     CASE p.state = "IDLE" -> [run EXCEPT !.p = Idle(p, c)]
       [] p.state = "READING_ARRAY_SIZE" ->
            IF c # LF THEN [run EXCEPT !.p = Collect(p, c)]
            ELSE IF Numeric(p.current_buffer) THEN [run EXCEPT !.p = ArraySize(p)]
            ELSE [run EXCEPT !.thrown = TRUE]
       [] p.state = "READING_BULK_SIZE" ->
            [run EXCEPT !.p = CASE c = "$" -> [p EXCEPT !.current_buffer = <<>>]
                                [] c = LF -> BulkSize(p)
                                [] OTHER -> Collect(p, c)]
       [] p.state = "READING_DATA" ->
            CASE InData(p, c) -> [run EXCEPT !.p.data_accumulator = Append(@, c)]
              [] ~InData(p, c) /\ c = LF -> EndOfArgument(run)
              [] OTHER -> run

\* The run after the characters of chunk.
After(run, chunk) ==
  LET after[i \in 0 .. Len(chunk)] ==
        IF i = 0 THEN run ELSE Consume(after[i - 1], chunk[i])
  IN after[Len(chunk)]

\* parse_and_execute on a chunk of characters.
parse_and_execute(p, chunk) == After([p |-> p, calls |-> <<>>, thrown |-> FALSE], chunk)
=============================================================================
