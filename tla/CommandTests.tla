---------------------------- MODULE CommandTests ----------------------------
(***************************************************************************)
(* The test programs and inputs of Assignment 1, part 1 (setup.sh,         *)
(* runTests.sh, inputs/, expected_outputs/), and lists of up to three      *)
(* commands that print nothing, little or much.                            *)
(***************************************************************************)
EXTENDS Commands

Options == {"none", "-a", "-b", "-c"}
Prints(s, code) == [output |-> s, code |-> code]

\* The ten lines a test program prints are one piece.
grep == [o \in Options |->
    Prints(<<CASE o = "none" -> "GREP_DEFAULT_MODE"
               [] o = "-a" -> "GREP_MODE_A"
               [] o = "-b" -> "GREP_MODE_B"
               [] OTHER -> "INVALID OPTION">>, 0)]
ls == [o \in Options |-> Prints(<<"LS">>, 0)]
ps == [o \in Options |-> Prints(<<"PS">>, 0)]

\* Programs of no test: one silent, one that prints more than is read, one that
\* prints more than a pipe holds, and one that two directories have.
silent == [o \in Options |-> Prints(<<>>, 1)]
long == [o \in Options |-> Prints(<<"1", "2", "3">>, 2)]
endless == [o \in Options |-> Prints(<<"1", "2", "3", "4">>, 3)]

\* setup.sh also puts empty files named ps and grep into earlier directories:
\* they cannot be executed and the search goes on.
MCPath == <<"bin", "sbin", "ubin">>
MCBin == [bin |-> [ls |-> ls, long |-> long],
          sbin |-> [ps |-> ps, silent |-> silent],
          ubin |-> [grep |-> grep, endless |-> endless, long |-> ps]]

MCPieces == {"GREP_DEFAULT_MODE", "GREP_MODE_A", "GREP_MODE_B", "INVALID OPTION",
             "LS", "PS", "UNABLE TO EXECUTE", "1", "2", "3", "4", "OLD"}

Just(name) == <<name, "none">>
Single(line) == [mode |-> "single", lines |-> <<line>>, old |-> <<>>]
Over(old, lines) == [mode |-> "parallel", lines |-> lines, old |-> old]
\* runTests.sh removes the output file first.
Parallel(lines) == Over(<<>>, lines)

single1 == Single(<<"grep", "-a">>)
single2 == Single(Just("grep"))
single3 == Single(Just("ls"))
single4 == Single(Just("unknwn"))

parallel1 == Parallel(<<Just("ls"), Just("ps"), Just("grep"), <<"grep", "-a">>,
                        <<"grep", "-b">>, Just("ls"), Just("ps")>>)
parallel2 == Parallel(<<Just("ls"), Just("unknwn")>>)
parallel3 == Parallel(<<Just("unknwn"), Just("unknwn"), Just("ps")>>)
parallel4 == Parallel(<<Just("ps")>>)

\* No test: the output file is there already, and longer.
overOld == Over(<<"OLD", "OLD">>, <<Just("ps")>>)

MCLines == {Just("silent"), Just("long"), Just("endless"), Just("nowhere"),
            <<"grep", "-c">>, Blank}
MCJobs == {single1, single2, single3, single4,
           parallel1, parallel2, parallel3, parallel4, overOld}
    \cup {Single(line) : line \in MCLines \ {Blank}}
    \cup {Parallel(s) : s \in UNION {[1 .. k -> MCLines] : k \in 0 .. 3}}

\* What the file holds at the end.
Expected ==
    /\ job = single1 => File = <<"GREP_MODE_A">>
    /\ job = single2 => File = <<"GREP_DEFAULT_MODE">>
    /\ job = single3 => File = <<"LS">>
    /\ job = single4 => File = <<"UNABLE TO EXECUTE">>
    /\ job = parallel1 => File = <<"LS", "PS", "GREP_DEFAULT_MODE", "GREP_MODE_A",
                                 "GREP_MODE_B", "LS", "PS">>
    /\ job = parallel2 => File = <<"LS", "UNABLE TO EXECUTE">>
    /\ job = parallel3 => File = <<"UNABLE TO EXECUTE", "UNABLE TO EXECUTE", "PS">>
    /\ job = parallel4 => File = <<"PS">>
    /\ job = overOld => File = <<"PS", "OLD">>
    /\ job = Single(Just("long")) => File = <<"1", "2", "3">>

\* What CanEnd says, and runTests.sh: each test leaves what the file in
\* expected_outputs/ holds, and of two programs of one name the one of the
\* directory named first in CS330_PATH runs.
EndsAsExpected ==
    /\ CanEnd => <>(Ended /\ Expected)
    /\ [](at = "exit" => CanEnd)
=============================================================================
