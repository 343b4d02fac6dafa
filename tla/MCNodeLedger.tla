---------------------------- MODULE MCNodeLedger ----------------------------
(* Five transactions: 1 spends the genesis output, 2 the coinbase of block   *)
(* 1, of which 3 is a copy; 4 spends both, so that it conflicts with 1 and   *)
(* with 2; 5 spends what 2 creates.                                          *)
EXTENDS NodeLedger

MCSharedTxs == 1..4
MCCrashTxs == 2..4
MCOrdinary == {2, 5}
MCInputs == << << <<"genesis", 0, 0>> >>,
               << <<"coinbase", 1, 0>> >>,
               << >>,
               << <<"genesis", 0, 0>>, <<"coinbase", 1, 0>> >>,
               << <<"tx", 2, 0>> >> >>
MCOutput == << <<"tx", 1, 0>>, <<"tx", 2, 0>>, <<"coinbase", 1, 0>>, <<"tx", 4, 0>>,
               <<"tx", 5, 0>> >>
MCFee == <<50, 60, 70, 80, 90>>
=============================================================================
