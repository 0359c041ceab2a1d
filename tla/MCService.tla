------------------------------ MODULE MCService ------------------------------
(* Model values for Service.                                               *)
EXTENDS Service

(* Events with one, two, three sources and none, a source used twice, one  *)
(* that is not there; one target, two or none; nothing at all.             *)
MCConfigs == {
    [plugins |-> <<"src", "out">>,
     events  |-> << <<"src">>, <<"logfile", "src">> >>,
     targets |-> <<"out", "out">>],
    [plugins |-> <<"out">>,
     events  |-> << <<"logfile", "logfile", "src">>, <<"src">> >>,
     targets |-> <<"out">>],
    [plugins |-> <<"src">>,
     events  |-> << <<"src">>, <<>> >>,
     targets |-> <<>>],
    [plugins |-> <<"src", "out">>,
     events  |-> << <<"logfile", "src", "src">> >>,
     targets |-> <<"out">>],
    [plugins |-> <<>>, events |-> <<>>, targets |-> <<>>]}
==============================================================================
