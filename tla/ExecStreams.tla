---------------------------- MODULE ExecStreams ----------------------------
(***************************************************************************)
(* How the outcome of a command comes back from a provider that has only a  *)
(* byte stream for it. Kubernetes appends a line with the exit code to the  *)
(* command's own output, E2B sends envelopes with an end event among them,  *)
(* Firecracker's agent sends one length-prefixed record. The stream can end *)
(* early, and the reader then sees an ordinary end of file.                 *)
(*                                                                         *)
(* Output is a sequence of symbols: "M" is the marker ROCHE_EXIT:, "0" and  *)
(* "1" are digits, "x" is other text, "n" white space. A number is its      *)
(* decimal numeral, a sequence of digits, so that it can be cut in the      *)
(* middle.                                                                  *)
(***************************************************************************)
EXTENDS Integers, Sequences, SequencesExt

CONSTANTS
  Codes,      (* the exit codes                                             *)
  MaxOut      (* bound: how many symbols the command prints                 *)

VARIABLES
  via,        (* "k8s", "e2b", "vsock"                                      *)
  sent,       (* what the command has printed                               *)
  exit,       (* its exit code, <<>> while it runs                          *)
  wire,       (* what has been written to the stream: items [k, v]          *)
  told,       (* the answer: exit code and output                           *)
  whole       (* the answer was made from a complete stream                 *)

streamVars == <<via, sent, exit, wire, told, whole>>

Digit == {"0", "1"}
Symbol == Digit \cup {"M", "x", "n"}

Unknown == <<"-1">>           (* the exit code of an answer without one     *)
Error == <<"error">>          (* Err(ExecFailed), Err(Timeout)              *)
Pending == <<"pending">>      (* no answer yet                              *)

Answer(c, o) == [code |-> c, out |-> o]

(* parse::<i32>, on digits: leading zeros do not count, and a number of     *)
(* these digits fits if there are at most ten.                              *)
Numeric(ds) == \A k \in DOMAIN ds : ds[k] \in Digit
Value(ds) == LET lead == SelectInSeq(ds, LAMBDA d : d # "0")
             IN IF lead = 0 THEN <<"0">> ELSE SubSeq(ds, lead, Len(ds))
Parses(ds) == ds # <<>> /\ Numeric(ds) /\ Len(Value(ds)) <= 10

(* A shell prints a code as a number of at most three digits.               *)
ASSUME StreamsAssumption ==
  /\ MaxOut \in Nat
  /\ Codes \subseteq {c \in Seq(Digit) : Len(c) \in 1 .. 3 /\ Value(c) = c}

(* The output is on the stream before the end event is.                     *)
Out(s) == [k \in DOMAIN s |-> [k |-> "out", v |-> s[k]]]
Text(w) == [k \in 1 .. SelectLastInSeq(w, LAMBDA e : e.k = "out") |-> w[k].v]

(* The position of the last end event, 0 for none.                          *)
EndAt(w) == SelectLastInSeq(w, LAMBDA e : e.k = "end")

-----------------------------------------------------------------------------
(* Mutant: the first marker counts.                                         *)
MarkFirst(s) == SelectInSeq(s, LAMBDA y : y = "M")

(* rfind(EXIT_SENTINEL), 0 for None.                                        *)
Mark(s) == SelectLastInSeq(s, LAMBDA y : y = "M")

(* str::trim.                                                               *)
Trim(s) == LET ink == {k \in 1 .. Len(s) : s[k] # "n"}
           IN IF ink = {} THEN <<>> ELSE SubSeq(s, Min(ink), Max(ink))

(* parse_exit_sentinel: what follows the marker, trimmed, is the code.      *)
ParseSentinel(s) ==
  LET code == Trim(SubSeq(s, Mark(s) + 1, Len(s)))
  IN IF Mark(s) > 0 /\ Parses(code)
     THEN Answer(Value(code), SubSeq(s, 1, Mark(s) - 1))
     ELSE Answer(Unknown, s)

(* parse_process_stream: an error trailer fails the call, the last end      *)
(* event has the code, an envelope that is not complete ends the stream.    *)
ParseEnvelopes(w) ==
  IF \E k \in DOMAIN w : w[k].k = "err" THEN Answer(Error, <<>>)
  ELSE Answer(IF EndAt(w) = 0 THEN Unknown ELSE w[EndAt(w)].v, Text(w))

(* exec_via_vsock: read_exact fails on a record that is not complete.       *)
ParseRecord(w) ==
  IF EndAt(w) = 0 THEN Answer(Error, <<>>) ELSE Answer(w[EndAt(w)].v, sent)

Parse(w) == CASE via = "k8s" -> ParseSentinel(Text(w))
              [] via = "e2b" -> ParseEnvelopes(w)
              [] via = "vsock" -> ParseRecord(w)

-----------------------------------------------------------------------------
StreamInit ==
  /\ via \in {"k8s", "e2b", "vsock"}
  /\ sent = <<>> /\ exit = <<>> /\ wire = <<>>
  /\ told = Answer(Pending, <<>>) /\ whole = FALSE

Running == exit = <<>> /\ told.code = Pending

(* The command prints; the agent of a VM keeps that until the end.          *)
Emit(y) ==
  /\ Running /\ Len(sent) < MaxOut
  /\ sent' = Append(sent, y)
  /\ wire' = IF via = "vsock" THEN wire ELSE wire \o Out(<<y>>)
  /\ UNCHANGED <<via, exit, told, whole>>

(* It ends: the shell prints the marker and the code, envd and the agent    *)
(* send theirs, envd with a trailer that may report an error.               *)
End(c) ==
  /\ Running
  /\ exit' = c
  /\ \/ via = "k8s" /\ wire' = wire \o Out(<<"M">> \o c \o <<"n">>)
     \/ /\ via = "e2b"
        /\ \E t \in {"ok", "err"} : wire' = wire \o <<[k |-> "end", v |-> c], [k |-> t, v |-> c]>>
     \/ via = "vsock" /\ wire' = wire \o <<[k |-> "end", v |-> c]>>
  /\ UNCHANGED <<via, sent, told, whole>>

(* It takes the shell, or the agent, with it: `exit 1`, a kill.             *)
EndSilently(c) ==
  /\ Running
  /\ exit' = c
  /\ UNCHANGED <<via, sent, wire, told, whole>>

Marked == \/ via = "k8s" /\ exit # <<>> /\ Len(wire) > Len(sent)
          \/ via # "k8s" /\ EndAt(wire) > 0

(* The reader comes to the end of the stream, or of what is left of it.     *)
Read(n) ==
  /\ told.code = Pending
  /\ told' = Parse(SubSeq(wire, 1, n))
  /\ whole' = (n = Len(wire) /\ Marked)
  /\ UNCHANGED <<via, sent, exit, wire>>

(* The timeout covers the whole exchange, but only the response's headers   *)
(* on E2B.                                                                  *)
TimesOut ==
  /\ told.code = Pending
  /\ via = "e2b" => wire = <<>>
  /\ told' = Answer(Error, <<>>)
  /\ UNCHANGED <<via, sent, exit, wire, whole>>

StreamNext ==
  \/ \E y \in Symbol : Emit(y)
  \/ \E c \in Codes : End(c) \/ EndSilently(c)
  \/ \E n \in 0 .. Len(wire) : Read(n)
  \/ TimesOut

-----------------------------------------------------------------------------
StreamTypeOK ==
  /\ via \in {"k8s", "e2b", "vsock"}
  /\ sent \in Seq(Symbol) /\ Len(sent) <= MaxOut
  /\ exit \in Codes \cup {<<>>}
  /\ \A i, j \in DOMAIN wire : i < j /\ wire[j].k = "out" => wire[i].k = "out"
  /\ told.code \in Seq(Digit) \cup {Unknown, Error, Pending}
  /\ told.out \in Seq(Symbol)
  /\ whole \in BOOLEAN

(* A complete stream tells the command's exit code and exactly its output,  *)
(* also when the output holds the marker itself; a stream cut anywhere,     *)
(* also inside the code, never turns a failure, or a command that still     *)
(* runs, into success, unless the command printed the marker.               *)
ExitHonest ==
  /\ whole /\ told.code # Error => told = Answer(exit, sent)
  /\ Numeric(told.code) /\ ~Contains(sent, "M") =>
       exit # <<>> /\ (told.code = <<"0">> => exit = <<"0">>)
=============================================================================
