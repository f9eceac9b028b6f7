------------------------------ MODULE ToolCall ------------------------------
(***************************************************************************)
(* internal/toolcall: the functions a request declares, the choice it      *)
(* makes among them, and what a response must contain to honour both.      *)
(*                                                                         *)
(* A call is a function_call item: the function it names and whether it    *)
(* has a call id and arguments that are one JSON value of the function's   *)
(* schema.                                                                 *)
(***************************************************************************)
EXTENDS Sequences, SequencesExt

CONSTANT FunctionNames

ASSUME NamesAreNoModes ==
    FunctionNames \cap {"absent", "none", "auto", "required", "invalid"} = {}

Modes == {"none", "auto", "required"}

Call == [name : FunctionNames, ok : BOOLEAN]

\* The choice of a request: a mode, the one function it must call, or an error.
ParseChoice(raw, functions) ==
    CASE raw = "absent"       -> IF functions = {} THEN "none" ELSE "auto"
      [] raw \in Modes        -> IF functions = {} /\ raw # "none" THEN "invalid" ELSE raw
      [] raw \in FunctionNames -> IF raw \in functions THEN raw ELSE "invalid"

Enabled(functions) == functions # {}

\* Mutant: several calls pass.
ValidateResponse_Parallel(functions, choice, calls) ==
    /\ \A k \in DOMAIN calls : calls[k].ok /\ calls[k].name \in functions
    /\ choice = "none" => calls = <<>>
    /\ choice = "required" => calls # <<>>
    /\ choice \in FunctionNames => calls # <<>> /\ Last(calls).name = choice

\* A response without an output field is one without calls.
ValidateResponse(functions, choice, calls) ==
    /\ \A k \in DOMAIN calls : calls[k].ok /\ calls[k].name \in functions
    /\ Len(calls) <= 1
    /\ choice = "none" => calls = <<>>
    /\ choice = "required" => Len(calls) = 1
    /\ choice \in FunctionNames => Len(calls) = 1 /\ Last(calls).name = choice
=============================================================================
