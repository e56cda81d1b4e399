---------------------------- MODULE MCMotorDriver ----------------------------
(***************************************************************************)
(* Every speed the driver accepts and one on each side; increments that    *)
(* stay inside the range and that leave it.  The files are as the kernel   *)
(* exports them, as a motor process killed in either direction leaves them *)
(* or as another program with a longer period does.                        *)
(***************************************************************************)
EXTENDS MotorDriver

MCSpeeds == -1..101
MCIncrements == {-101, -7, 7, 101}
MCStale ==
    {[period |-> 0, duty |-> 0, enable |-> 0],
     [period |-> 2 * Period, duty |-> Period + 1, enable |-> 0]}
    \cup [period : {Period}, duty : {MotorDuty(60, TRUE), MotorDuty(60, FALSE)},
          enable : {0, 1}]
==============================================================================
