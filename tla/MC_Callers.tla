------------------------------- MODULE MC_Callers -------------------------------
(***************************************************************************)
(* Inputs for what calls a reader or a writer.  In each behaviour the      *)
(* caller is a program of the WASM package, a BasketReader, or a reader or *)
(* a writer of the model layer.                                            *)
(***************************************************************************)
EXTENDS WasmApi, BasketReader, MC_IlicModels

VARIABLE caller

\* Whole, with a warning; with an error that a lenient reader lets pass; ill-formed in a basket,
\* behind the transfer, and at once.
ProgramScripts == {
  <<"StartTransfer", "StartBasket", "Object", "warning", "EndBasket", "EndTransfer">>,
  <<"StartTransfer", "warning", "StartBasket", "error", "EndBasket", "EndTransfer">>,
  <<"StartTransfer", "StartBasket", "Object", "warning", "fault">>,
  <<"StartTransfer", "EndTransfer", "fault">>,
  <<"fault">> }

\* Two baskets, the second one empty or over the limit; the same faults.
Basket == <<"StartBasket", "Object", "EndBasket">>
BasketScripts == {
  <<"StartTransfer">> \o Basket \o <<"warning", "StartBasket", "EndBasket", "EndTransfer">>,
  <<"StartTransfer">> \o Basket \o <<"StartBasket", "Object", "Object", "EndBasket">>
    \o Basket \o <<"EndTransfer">>,
  <<"StartTransfer">> \o Basket \o <<"StartBasket", "error", "Object", "fault">>,
  <<"StartTransfer">> \o Basket \o <<"EndTransfer", "fault">>,
  <<"fault">> }

NoTrouble == [event |-> 0, reaction |-> "fine"]
Troubles == {NoTrouble} \cup [event : {3}, reaction : {"warns", "errs", "throws"}]

NoModels == [index |-> <<>>, content |-> <<>>]
NoOptions == [writer |-> FALSE, rejects |-> {}, ordered |-> FALSE, version |-> "V23"]

Models(case) == index = case.index /\ content = case.content

Init ==
  /\ \/ caller = "program" /\ script \in ProgramScripts /\ eager \in BOOLEAN /\ trouble \in Troubles
     \/ caller \in {"basket", "model"} /\ eager = FALSE /\ trouble = NoTrouble
  /\ caller = "basket" => script \in BasketScripts
  /\ \/ caller = "model" /\ script = Kinds /\ options \in ModelOptions
                         /\ \E case \in ModelCases : Models(case)
     \/ caller # "model" /\ options = NoOptions /\ Models(NoModels)
  /\ WasmInit /\ BasketInit /\ IlicInit
  /\ caller # "basket" => source = FreshReader

\* The program has closed both of its objects.
Done ==
  /\ reading = "closed" /\ writing = "closed" /\ pc = "idle"
  /\ UNCHANGED <<wasmVars, ilicVars>>

Next ==
  \/ caller = "program" /\ (WasmNext \/ Done) /\ UNCHANGED <<basketVars, ilicVars, caller>>
  \/ caller = "basket" /\ BasketNext /\ UNCHANGED <<wasmVars, ilicVars, caller>>
  \/ caller = "model" /\ IlicNext /\ UNCHANGED <<wasmVars, basketVars, caller>>

Spec == Init /\ [][Next]_<<wasmVars, basketVars, ilicVars, caller>>
=============================================================================
