------------------------------ MODULE MCPayloads ------------------------------
(***************************************************************************)
(* Event streams, paginators and the validation middleware of the          *)
(* generated SDKs: the initial state chooses which of them runs.           *)
(***************************************************************************)
EXTENDS SdkPayloads

VARIABLE part

MCBodies ==
  {<<"data:", "a", "\n", "\n", "data:", "b", "\n", "data:", "hi", "lo", "\n", "\n">>,
   <<":", "\n", "\n", "data:", "a", "\n", "\n", "data:", "b", "\n", "\n">>,
   <<"event:", "e", "\r", "\n", "data:", "a", "\r", "\n", "\r", "\n",
     "id:", "a", "\r", "\n", "data:", "b">>,
   <<"data:", "a", "\n", "retry:", "b", "\n", "\n", "\n", "event:", "e", "\n", "\n">>,
   <<"data:", "a", "\n", "data:", "b", "\n", "\n", "data:", "a", "\n", "\n",
     "event:", "e", "\n">>,
   <<"data:", "a", "\r", "\n", "\r", "\n", "data:", "b", "\r", "\n", "\r", "\n">>}

String == [type |-> "Scalar", scalar |-> "String"]
Integer == [type |-> "Scalar", scalar |-> "Integer"]
OneTag == [type |-> "StringEnum", variants |-> {"a"}]
Dict == [type |-> "Map"]
MCLeaves == {String, Integer, OneTag, Dict}

A == [t |-> "str", s |-> "a"]
B == [t |-> "str", s |-> "b"]
N == [t |-> "num"]
Arr == [t |-> "arr", items |-> <<N, A>>]
Obj(f) == [t |-> "obj", fields |-> f]
Empty == Obj([p \in {} |-> N])
MCValues ==
  {A, B, N, [t |-> "null"], Arr, [t |-> "arr", items |-> <<N>>], Empty,
   Obj([name |-> A]), Obj([name |-> A, tag |-> B]), Obj([tag |-> A, list |-> Arr]),
   Obj([name |-> N, tag |-> A, dict |-> Empty]),
   Obj([name |-> A, list |-> [t |-> "arr", items |-> <<N>>]])}

Prop(leaf, arrays, req) == [ty |-> [leaf |-> leaf, arrays |-> arrays], required |-> req]
Pet == [model |-> "Object",
        props |-> [name |-> Prop(String, 0, TRUE), tag |-> Prop(OneTag, 0, FALSE),
                   list |-> Prop(Integer, 1, FALSE)]]
Loose == [model |-> "Object", props |-> [dict |-> Prop(Dict, 0, FALSE)]]
Kind == [model |-> "Enum", variants |-> {"a"}]

MCPaths == {<<"pets">>, <<"pets", "mine">>, <<"pets", "7">>}
MCBases == {<<>>, <<"http:", "host">>}
MCRoutes ==
  {[method |-> "POST", path |-> <<"pets">>, request |-> Pet, response |-> Kind],
   [method |-> "GET", path |-> <<"pets", "{}">>, request |-> NoModel, response |-> Pet],
   [method |-> "POST", path |-> <<"pets", "{}">>, request |-> Pet, response |-> NoModel],
   [method |-> "POST", path |-> <<"pets", "mine">>, request |-> Loose, response |-> Loose],
   [method |-> "POST", path |-> <<"http:", "host", "pets", "{}">>, request |-> Pet,
    response |-> Kind]}

(* What does not run stays as it starts, with some value of each constant. *)
Some(S) == CHOOSE x \in S : TRUE

MCInit ==
  /\ part \in {"stream", "pages", "validation"}
  /\ StreamInit /\ PagesInit /\ ValidInit
  /\ part # "stream" => sdk = "rust" /\ body = Some(Bodies)
  /\ part # "pages" => walkSdk = "rust" /\ mode = "cursor" /\ limit = Some(Limits)
  /\ part # "validation" =>
       /\ vsdk = "rust" /\ base = Some(Bases)
       /\ call = [method |-> "GET", path |-> Some(Paths), body |-> <<>>]

MCNext ==
  \/ part = "stream" /\ StreamNext /\ UNCHANGED <<part, pageVars, validVars>>
  \/ part = "pages" /\ PagesNext /\ UNCHANGED <<part, streamVars, validVars>>
  \/ part = "validation" /\ ValidNext /\ UNCHANGED <<part, streamVars, pageVars>>

allVars == <<part, streamVars, pageVars, validVars>>

MCSpec ==
  /\ MCInit /\ [][MCNext]_allVars
  /\ WF_allVars(part = "pages" /\ WalkStep /\ UNCHANGED <<part, streamVars, validVars>>)

--------------------------------------------------------------------------------
(* Wherever the body is cut, the Go and the TypeScript parser do what they would
   do if the whole body arrived at once: the chunks that arrive while a line is
   incomplete change nothing an application can see. *)
Whole == INSTANCE SdkPayloads WITH
           buffer <- buffer \o rest, rest <- <<>>,
           pc <- IF pc = "read" /\ rest # <<>> THEN "drain" ELSE pc

ChunksDoNotShow == Whole!AtOnce

(* A walk ends (WalkEnds). *)
WalksEnd == part = "pages" => WalkEnds
===============================================================================
