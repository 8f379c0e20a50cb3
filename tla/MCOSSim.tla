------------------------------ MODULE MCOSSim ------------------------------
(* Instances of OSSim for TLC: small input files. *)
EXTENDS OSSim

Line(pid, type, priority, size) ==
  [port |-> "appIn", value |-> pid, value2 |-> type, value3 |-> priority,
   value4 |-> size]

Batch(wait, arrivals) == [wait |-> wait, arrivals |-> arrivals]

MCPids == 1..3
MCBlockSizes == 1..3
MCExecTimes == {1, 2, 3}
MCChildren == [size : {1, 2}, priority : {0, 1}]

\* Three I/O processes at time 0, in the order of the file; with blocks of
\* more than one cell some of them are refused.
MCIoWorkloads ==
  {<<Batch(0, <<Line(2, 1, a, 1), Line(1, 1, b, s), Line(3, 1, 1, 1)>>)>> :
     a \in {0, 1}, b \in {0, 1}, s \in {1, 2}}

\* A program that forks, alone or beside an I/O process.
MCForkWorkloads ==
  {<<Batch(0, <<Line(2, 2, 1, 1)>>)>>,
   <<Batch(0, <<Line(1, 1, 1, 1), Line(3, 2, 0, 1)>>)>>}

MCWorkloads == MCIoWorkloads \cup MCForkWorkloads

\* A process that arrives while the kernel is idle.
MCIdleWorkloads == {<<Batch(1, <<Line(1, 1, 1, 1)>>)>>}

\* Processes that arrive later than the first ones.
MCLateWorkloads ==
  {<<Batch(w, <<Line(1, 1, 1, 1)>>), Batch(v, <<Line(2, 1, 1, 1)>>)>> :
     w \in {0, 1}, v \in 1 .. 4}
============================================================================
