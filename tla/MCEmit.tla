-------------------------------- MODULE MCEmit --------------------------------
(***************************************************************************)
(* The emitters: the members of a model, the reader of a union, a call of  *)
(* a generated method, and the files of an SDK.  The initial state chooses *)
(* which of the four runs.                                                 *)
(***************************************************************************)
EXTENDS SdkSources

VARIABLE part

modelVars == <<lang, model, at, used, members>>
fileVars == <<target, tagOf, files, opened, disk, report, failed>>
unionVars == <<reader, union, value, trying, picked>>
callVars == <<sdk, op, args, step, path, query, headers, outcome>>

\* Names that collide in one language or another, and unusable ones.
MCWireNames ==
  {<<"i", "f">>, <<"I", "f">>, <<"i", "-", "f">>, <<"i", "_", "f">>, <<"i", "F">>,
   <<"2">>, <<"-">>, <<"_">>, <<"i", "f", "2">>, <<"i", "f", "_", "2">>}
MCBaseNames == {<<"i", "f">>, <<"F">>}
MCTags == {<<>>, <<"I", "i", "2">>, <<"i">>, <<"I">>, <<"i", "-", "i">>}

MCInit ==
  /\ part \in {"models", "unions", "methods", "files"}
  /\ IF part = "models" THEN ModelsInit
     ELSE lang = "ts" /\ model = NoBase /\ at = 0 /\ used = {} /\ members = <<>>
  /\ IF part = "files" THEN FilesInit
     ELSE /\ target = "ts" /\ tagOf = <<>> /\ files = {} /\ opened = {}
          /\ disk = <<>> /\ report = {} /\ failed = {}
  /\ IF part = "unions" THEN UnionsInit
     ELSE reader = "ts" /\ union = {} /\ value = {} /\ trying = 1 /\ picked = -1
  /\ IF part = "methods" THEN MethodsInit
     ELSE /\ sdk = "ts" /\ op = {} /\ args = {} /\ step = "path" /\ path = <<>>
          /\ query = <<>> /\ headers = {} /\ outcome = "pending"

MCNext ==
  /\ UNCHANGED part
  /\ \/ part = "models" /\ EmitStep /\ UNCHANGED <<fileVars, unionVars, callVars>>
     \/ part = "files" /\ FileStep /\ UNCHANGED <<modelVars, unionVars, callVars>>
     \/ part = "unions" /\ ReadStep /\ UNCHANGED <<modelVars, fileVars, callVars>>
     \/ part = "methods" /\ CallStep /\ UNCHANGED <<modelVars, fileVars, unionVars>>

allVars == <<part, modelVars, fileVars, unionVars, callVars>>

MCSpec == MCInit /\ [][MCNext]_allVars

\* FieldsSound: the members emitted for a model have usable names, those that
\* are kept apart have distinct ones, and each property of the model is carried
\* exactly once, with the exceptions FieldsAreSound of SdkSources names: Go
\* constants, base and AdditionalProperties fields and the parameters of Rust and
\* Go may clash, a Go parameter may start with a digit, and a required Go
\* property called "-" is on no wire.
FieldsSound == part = "models" => FieldsAreSound

\* ArmsRight: the generated readers of a union return the arm a value was made
\* from as far as the discriminator or the structure tells (RightArm of
\* SdkSources).
ArmsRight == part = "unions" => RightArm

\* CallsAgree: the generated methods of the three SDKs send the request the
\* operation describes for plain arguments, and one whose successes have no body
\* never fails on the body of the answer (RequestsAgree of SdkSources).
CallsAgree == part = "methods" => RequestsAgree

\* FilesWhole: the parallel writers leave every operation in the file of its
\* tag, if the file name is its own (FilesComplete of SdkSources).
FilesWhole == part = "files" => FilesComplete
===============================================================================
