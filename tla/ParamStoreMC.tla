---------------------------- MODULE ParamStoreMC ----------------------------
(***************************************************************************)
(* A small registry for TLC: one fixed parameter, two engines that give    *)
(* the same 0x02xx ids other bounds, one of them an id the other lacks,    *)
(* and a graph node that is re-registered by itself.                       *)
(***************************************************************************)
EXTENDS ParamStore

D(i, min, max, def) == [id |-> i, min |-> min, max |-> max, def |-> def]

MCFixed  == {D("volume", 0, 2, 1)}
MCLayout == [fm   |-> [range |-> {"e0", "e1"},
                       descs |-> {D("e0", 0, 3, 0), D("e1", 2, 3, 2)}],
             sub  |-> [range |-> {"e0", "e1"}, descs |-> {D("e0", 1, 1, 1)}],
             node |-> [range |-> {"e1"}, descs |-> {D("e1", 0, 1, 0)}]]
=============================================================================
