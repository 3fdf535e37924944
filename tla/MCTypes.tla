------------------------------- MODULE MCTypes -------------------------------
(***************************************************************************)
(* The passes that turn the declared types into finite, hashed and laid    *)
(* out ones, and those that turn generic functions into concrete ones.  A  *)
(* behaviour is about one of the two and the other rests.                  *)
(***************************************************************************)
EXTENDS Layout, Generics, TLC

CONSTANTS A, B, C

VARIABLE topic    \* "types" or "instances"

MCNames == <<A, B, C>>

\* what the names of two plain types read as in a symbol
PlainSpelling == "i32" :> <<"i32">> @@ "str" :> <<"str">>

\* a pack of nothing, and of one value of each plain type
TwoPacks == {<<>>, <<<<"i32">>, <<"str">>>>}

TypesRest ==
    /\ order = <<>> /\ kind = <<>> /\ body = <<>> /\ phase = "rest" /\ mark = <<>>
    /\ stack = <<>> /\ reported = {} /\ errors = {} /\ hashed = {}
InstancesRest ==
    /\ prog = <<>> /\ pass = "rest" /\ unit = 0 /\ round = 0 /\ types = {}
    /\ wanted = {} /\ worklist = {} /\ processed = {} /\ pending = {} /\ cache = {}
    /\ funcs = <<>> /\ copies = {} /\ bound = {} /\ diagnostics = {}

TypesInit ==
    \/ topic = "types" /\ Init /\ InstancesRest
    \/ topic = "instances" /\ InstancesInit /\ TypesRest

TypesStep     == topic = "types" /\ Next /\ UNCHANGED <<topic, instanceVars>>
InstancesStep == topic = "instances" /\ InstancesNext /\ UNCHANGED <<topic, vars>>

TypesSpec == TypesInit /\ [][TypesStep \/ InstancesStep]_<<topic, vars, instanceVars>>
=============================================================================
