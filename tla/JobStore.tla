------------------------------ MODULE JobStore -------------------------------
(***************************************************************************)
(* The job list of src/run_test.py: main() (lines 326-411) splits the     *)
(* comma-separated axis options, loops over ways x entries x train ways x *)
(* train entries (skipping, unless --use-default-btb-record, the train    *)
(* values that differ from the simulated ones), then over run_list and    *)
(* the trace types, and extends `tasks` with foo()'s run() coroutines, one *)
(* per application (lines 248-294).  run() names its output from the job  *)
(* (lines 112-179, with get_result_dirname and get_output_filename).     *)
(* --generate and --use-twig-prefetch keep their defaults (False).      *)
(*                                                                         *)
(* An option value is a sequence of characters (digits and blanks), since *)
(* the properties are about strip() and about names built by             *)
(* concatenation.  A program name is a sequence of tokens: one run of     *)
(* letters, then single digits.  Fixed string pieces are single tokens    *)
(* none of the variable parts can produce, so two names are equal as      *)
(* strings exactly when they are equal as token sequences.  An            *)
(* application name is a model value.                                     *)
(***************************************************************************)
EXTENDS Integers, SequencesExt

CONSTANTS
  WaysLists,         \* candidate values of total_btb_ways.split(",")
  EntriesLists,      \* ... of total_btb_entries.split(",")
  TrainWaysLists,    \* ... of train_total_btb_ways.split(",")
  TrainEntriesLists, \* ... of train_total_btb_entries.split(",")
  RunLists,          \* ... of run_list.split(",")
  AppLists           \* ... of app_list.split(",")

\* The --trace-type choices (line 300) and the foo() calls each makes, in
\* the order of lines 347-409.
TraceTypes == {"ipc1", "pt", "both", "champsim-pt", "pgo"}
Modes(tt) ==
  CASE tt = "both" -> <<"ipc1", "pt">>
    [] OTHER       -> <<tt>>

\* The command lines main() can be given.
Inputs ==
  [ways: WaysLists, entries: EntriesLists, tways: TrainWaysLists,
   tentries: TrainEntriesLists, useDefault: BOOLEAN, tt: TraceTypes,
   run: RunLists, apps: AppLists]

\* str.strip() on a value made of digits and blanks.
Strip(s) ==
  LET keep == {i \in 1..Len(s) : s[i] # " "}
  IN IF keep = {} THEN <<>> ELSE SubSeq(s, Min(keep), Max(keep))

Digit == [c \in {"0", "1", "2", "4", "8"} |->
            CASE c = "0" -> 0 [] c = "1" -> 1 [] c = "2" -> 2
              [] c = "4" -> 4 [] c = "8" -> 8]

\* int() of a string of digits.
Val(s) ==
  LET v[i \in 0..Len(s)] == IF i = 0 THEN 0 ELSE 10 * v[i - 1] + Digit[s[i]]
  IN v[Len(s)]

\* Lines 335-344: the four nested loops, totals stripped, train values
\* not, and the skip of lines 341-344.
Kept(in, c) == in.useDefault \/ (c.w = c.tw /\ c.e = c.te)

Combos(in) ==
  LET W == [i \in 1..Len(in.ways) |-> Strip(in.ways[i])]
      E == [i \in 1..Len(in.entries) |-> Strip(in.entries[i])]
      all == FlattenSeq([a \in 1..Len(W) |->
               FlattenSeq([b \in 1..Len(E) |->
                 FlattenSeq([c \in 1..Len(in.tways) |->
                   [d \in 1..Len(in.tentries) |->
                     [w |-> W[a], e |-> E[b],
                      tw |-> in.tways[c], te |-> in.tentries[d]]]])])])
  IN SelectSeq(all, LAMBDA c : Kept(in, c))

\* Lines 345-409 and foo (lines 278-294): for a kept combination, one job
\* per program, foo() call and application, in that order.
JobsOf(in, c) ==
  LET ms == Modes(in.tt) IN
  FlattenSeq([p \in 1..Len(in.run) |->
    FlattenSeq([m \in 1..Len(ms) |->
      [k \in 1..Len(in.apps) |->
        [prog |-> in.run[p], mode |-> ms[m], app |-> in.apps[k],
         w |-> c.w, e |-> c.e, tw |-> c.tw, te |-> c.te]]])])

Jobs(in) ==
  LET cs == Combos(in) IN FlattenSeq([i \in 1..Len(cs) |-> JobsOf(in, cs[i])])

\* foo's parameters (lines 249-255), none with a default value.
FooParams ==
  {"trace_type", "run_program", "total_btb_ways", "total_btb_entries",
   "generate", "app_list", "use_default_btb_record", "train_total_btb_ways",
   "train_total_btb_entries", "twig_profile", "use_twig_prefetch"}

\* The parameters the foo() call for mode m binds (lines 347-408): five
\* positional arguments, then the keywords that call site passes.
CallArgs(m) ==
  {"trace_type", "run_program", "total_btb_ways", "total_btb_entries",
   "generate", "app_list", "use_default_btb_record", "train_total_btb_ways",
   "train_total_btb_entries", "use_twig_prefetch"}
  \cup (IF m = "ipc1" THEN {} ELSE {"twig_profile"})

\* Calling foo() binds its arguments before the generator body runs, so a
\* parameter left unbound raises TypeError at the call, the first time a
\* kept combination reaches that call site.
RaisesTypeError(in) ==
  /\ \E m \in Range(Modes(in.tt)) : FooParams \ CallArgs(m) # {}
  /\ Len(Combos(in)) > 0

\* Lines 112-117: the prefix of the result directory.
Prefix(e) ==
  IF e = <<"8">> THEN <<>>
  ELSE IF Val(e) < 1024 THEN e \o <<"K_">>
  ELSE e

\* Lines 119-136: the raw data directory and the directory template.
RawDir(m) ==
  CASE m = "pgo" -> "pgo_result" [] m = "pt" -> "pt_result"
    [] m = "ipc1" -> "correct_new_btb_fdip_result"
    [] m = "champsim-pt" -> "champsim_pt_result"
TemplateHead(m) == IF m = "ipc1" THEN <<"ipc1_fdip_">> ELSE <<>>

\* get_result_dirname (lines 85-94): prefix + template % (program, ways).
DirName(j) == Prefix(j.e) \o TemplateHead(j.mode) \o j.prog \o j.w \o <<"_result">>

\* Mutant: the train suffix left out of the file name.
FileNameNoTrain(j, useDefault) == <<j.app, "_result.txt">>

\* get_output_filename (lines 73-82): the short name (the application),
\* the unstripped train values when --use-default-btb-record, a suffix.
FileName(j, useDefault) ==
  <<j.app>>
  \o (IF useDefault THEN <<"_use_default_btb_record_">> \o j.tw \o <<"_">> \o j.te
      ELSE <<>>)
  \o <<"_result.txt">>

\* Lines 148-179: file_root / raw_data_dir / result_dirname / filename.
OutputPath(j, useDefault) == <<RawDir(j.mode), DirName(j), FileName(j, useDefault)>>

VARIABLES
  in,       \* the command line
  outcome,  \* "pending", "ok" (gather reached) or "TypeError"
  jobs      \* the run() coroutines handed to gather, in order

vars == <<in, outcome, jobs>>

Init == in \in Inputs /\ outcome = "pending" /\ jobs = <<>>

\* main() up to line 411.
Enumerate ==
  /\ outcome = "pending"
  /\ IF RaisesTypeError(in)
     THEN outcome' = "TypeError" /\ jobs' = <<>>
     ELSE outcome' = "ok" /\ jobs' = Jobs(in)
  /\ UNCHANGED in

Next == Enumerate

Spec == Init /\ [][Next]_vars

-----------------------------------------------------------------------------
\* No two jobs handed to gather write the same output file (spec.md 3):
\* the result directory and file name separate every mode, program, size
\* and, with default BTB records, every train configuration, whatever the
\* blanks around the option values.
OutputPathsDistinct ==
  \A a, b \in 1..Len(jobs) :
    a # b => OutputPath(jobs[a], in.useDefault) # OutputPath(jobs[b], in.useDefault)

\* spec.md 4.1: only invalid combinations are skipped: a train size equal
\* to the simulated one (up to blanks) is never dropped (violated: line 342
\* compares stripped totals with unstripped train values).
NoMatchingComboSkipped ==
  outcome = "ok" =>
    \A a \in 1..Len(in.ways), b \in 1..Len(in.entries),
       c \in 1..Len(in.tways), d \in 1..Len(in.tentries) :
      /\ Strip(in.tways[c]) = Strip(in.ways[a])
      /\ Strip(in.tentries[d]) = Strip(in.entries[b])
      => \E i \in 1..Len(jobs) :
           jobs[i].w = Strip(in.ways[a]) /\ jobs[i].e = Strip(in.entries[b])

=============================================================================
