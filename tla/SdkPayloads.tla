------------------------------ MODULE SdkPayloads ------------------------------
(***************************************************************************)
(* What the runtimes of the generated SDKs do with the bodies of answers   *)
(* and requests: streams of events, lists that come in pages, and the      *)
(* validation of JSON bodies.                                              *)
(***************************************************************************)
EXTENDS Naturals, Sequences, SequencesExt, FiniteSetsExt

-------------------------------------------------------------------------------
(* streaming.rs, streaming.go and streaming.ts: a body of server-sent events
   arrives in chunks cut at any byte and is parsed into events.  Rust keeps a
   text buffer and cuts it at blank lines; Go and TypeScript read line by line.

   The body is a sequence of tokens: "\n", "\r", the field prefixes "data:",
   "event:", "id:", "retry:" and ":" (a comment), one-byte characters, and "hi"
   "lo", the two bytes of one character. *)

CONSTANT Bodies          \* the bodies a server sends

ASSUME BodiesAssumption == Bodies \subseteq Seq(STRING)

VARIABLES sdk, body,
          rest,          \* what has not arrived
          buffer,        \* what has arrived and is not parsed
          pc,            \* "drain", "read", "ended" or "failed"
          current,       \* Go and TypeScript: the fields of the current block
          out            \* the events the application got

streamVars == <<sdk, body, rest, buffer, pc, current, out>>

NoFields == [event |-> <<"message">>, data |-> <<>>, id |-> <<>>]
IsEvent(f) == f.data # <<>> \/ f.event # <<"message">>

StripCr(line) == IF line # <<>> /\ Last(line) = "\r" THEN Front(line) ELSE line

(* Cut at every newline; the last part is what follows the last one. *)
Lines(text) ==
  FoldLeft(LAMBDA ls, t : IF t = "\n" THEN Append(ls, <<>>)
                          ELSE Front(ls) \o <<Append(Last(ls), t)>>,
           <<<<>>>>, text)

(* Where the first line of a text ends. *)
FirstNewline(text) == Min({k \in 1..Len(text) : text[k] = "\n"})

(* One line changes the fields of its block. *)
Field(f, line) ==
  CASE line = <<>> -> f
    [] line # <<>> /\ line[1] = "data:" -> [f EXCEPT !.data = Append(@, Tail(line))]
    [] line # <<>> /\ line[1] = "event:" -> [f EXCEPT !.event = Tail(line)]
    [] line # <<>> /\ line[1] = "id:" -> [f EXCEPT !.id = Tail(line)]
    [] OTHER -> f                    \* comments, retry, unknown fields

ParseBlock(text) ==
  FoldLeft(LAMBDA f, line : Field(f, StripCr(line)), NoFields, Lines(text))

(* from_utf8_lossy of one chunk: half a character becomes a replacement. *)
Lossy(chunk) ==
  [i \in DOMAIN chunk |->
     IF \/ chunk[i] = "hi" /\ (i = Len(chunk) \/ chunk[i + 1] # "lo")
        \/ chunk[i] = "lo" /\ (i = 1 \/ chunk[i - 1] # "hi")
     THEN "?" ELSE chunk[i]]

-------------------------------------------------------------------------------
(* Rust: next_event. *)
BlankLine(gap) ==
  {i \in 1..Len(buffer) : /\ i + Len(gap) - 1 <= Len(buffer)
                          /\ SubSeq(buffer, i, i + Len(gap) - 1) = gap}

(* drain_one: the text before the first blank line, a bare one before a CRLF
   one; a block without an event sends the caller back to reading. *)
DrainOne ==
  /\ sdk = "rust" /\ pc = "drain"
  /\ LET bare == BlankLine(<<"\n", "\n">>)
         crlf == BlankLine(<<"\r", "\n", "\r", "\n">>)
         cut == IF bare # {} THEN Min(bare) ELSE Min(crlf)
         gap == IF bare # {} THEN 2 ELSE 4
         f == ParseBlock(SubSeq(buffer, 1, cut - 1))
     IN IF bare \cup crlf = {}
        THEN pc' = "read" /\ UNCHANGED <<buffer, out>>
        ELSE /\ buffer' = SubSeq(buffer, cut + gap, Len(buffer))
             /\ IF IsEvent(f) THEN out' = Append(out, f) /\ UNCHANGED pc
                              ELSE pc' = "read" /\ UNCHANGED out
  /\ UNCHANGED <<sdk, body, rest, current>>

RustChunk(n) ==
  /\ sdk = "rust" /\ pc = "read"
  /\ buffer' = buffer \o Lossy(SubSeq(rest, 1, n))
  /\ rest' = SubSeq(rest, n + 1, Len(rest))
  /\ pc' = "drain"
  /\ UNCHANGED <<sdk, body, current, out>>

(* End of the stream: drain_one_force takes the whole buffer as one block. *)
RustEnd ==
  /\ sdk = "rust" /\ pc = "read" /\ rest = <<>>
  /\ LET f == ParseBlock(buffer)
     IN out' = IF IsEvent(f) THEN Append(out, f) ELSE out
  /\ buffer' = <<>> /\ pc' = "ended"
  /\ UNCHANGED <<sdk, body, rest, current>>

-------------------------------------------------------------------------------
(* Go and TypeScript: a line completes the block or adds to it.  Go keeps the
   fields in Next, which starts from none after each event it returned. *)
(* Mutant: the fields survive the blank line. *)
TakeLineKeeping ==
  /\ sdk # "rust" /\ pc = "drain" /\ Contains(buffer, "\n")
  /\ LET end == FirstNewline(buffer)
         line == StripCr(SubSeq(buffer, 1, end - 1))
     IN /\ out' = IF line = <<>> /\ IsEvent(current) THEN Append(out, current) ELSE out
        /\ current' = Field(current, line)
        /\ buffer' = SubSeq(buffer, end + 1, Len(buffer))
  /\ UNCHANGED <<sdk, body, rest, pc>>

TakeLine ==
  /\ sdk # "rust" /\ pc = "drain" /\ Contains(buffer, "\n")
  /\ LET end == FirstNewline(buffer)
         line == StripCr(SubSeq(buffer, 1, end - 1))
     IN /\ out' = IF line = <<>> /\ IsEvent(current) THEN Append(out, current) ELSE out
        /\ current' = IF line = <<>> THEN NoFields ELSE Field(current, line)
        /\ buffer' = SubSeq(buffer, end + 1, Len(buffer))
  /\ UNCHANGED <<sdk, body, rest, pc>>

NeedMore ==
  /\ sdk # "rust" /\ pc = "drain" /\ ~Contains(buffer, "\n")
  /\ pc' = "read"
  /\ UNCHANGED <<sdk, body, rest, buffer, current, out>>

(* Mutant: the line that was cut off is forgotten. *)
LineChunkForgets(n) ==
  /\ sdk # "rust" /\ pc = "read"
  /\ buffer' = SubSeq(rest, 1, n)
  /\ rest' = SubSeq(rest, n + 1, Len(rest))
  /\ pc' = "drain"
  /\ UNCHANGED <<sdk, body, current, out>>

(* The scanner and the stateful decoder keep the bytes of a cut character. *)
LineChunk(n) ==
  /\ sdk # "rust" /\ pc = "read"
  /\ buffer' = buffer \o SubSeq(rest, 1, n)
  /\ rest' = SubSeq(rest, n + 1, Len(rest))
  /\ pc' = "drain"
  /\ UNCHANGED <<sdk, body, current, out>>

(* The scanner returns the unterminated line; Next flushes the block. *)
GoEnd ==
  /\ sdk = "go" /\ pc = "read" /\ rest = <<>>
  /\ LET f == Field(current, StripCr(buffer))
     IN out' = IF IsEvent(f) THEN Append(out, f) ELSE out
  /\ buffer' = <<>> /\ current' = NoFields /\ pc' = "ended"
  /\ UNCHANGED <<sdk, body, rest>>

(* streamLines yields the unterminated line, streamSse drops the open block. *)
TsEnd ==
  /\ sdk = "ts" /\ pc = "read" /\ rest = <<>>
  /\ buffer' = <<>> /\ current' = NoFields /\ pc' = "ended"
  /\ UNCHANGED <<sdk, body, rest, out>>

(* The connection breaks: next_event and Err() report it, the generator throws. *)
Break ==
  /\ pc = "read" /\ rest # <<>>
  /\ pc' = "failed"
  /\ UNCHANGED <<sdk, body, rest, buffer, current, out>>

StreamInit ==
  /\ sdk \in {"rust", "go", "ts"}
  /\ body \in Bodies
  /\ rest = body /\ buffer = <<>> /\ current = NoFields /\ out = <<>>
  /\ pc = "drain"

StreamNext ==
  \/ DrainOne \/ RustEnd
  \/ TakeLine \/ NeedMore \/ GoEnd \/ TsEnd
  \/ \E n \in 1..Len(rest) : RustChunk(n) \/ LineChunk(n)
  \/ Break

(* What Go and TypeScript promise: the same as if the body arrived at once, up to
   a break of the connection.  What Rust does depends on where the chunks end. *)
BreakOff ==
  /\ pc = "drain"
  /\ pc' = "failed"
  /\ UNCHANGED <<sdk, body, rest, buffer, current, out>>

AtOnce ==
  /\ body \in Bodies /\ buffer = body /\ rest = <<>> /\ current = NoFields
  /\ out = <<>> /\ pc = "drain"
  /\ [][sdk = "rust" \/ TakeLine \/ NeedMore \/ GoEnd \/ TsEnd \/ BreakOff]_streamVars

-------------------------------------------------------------------------------
(* The events of a body, read at once: its blocks are separated by blank lines,
   and the last one counts although nothing ends it, if `flush`. *)
EventsOf(text, flush) ==
  LET ls == [i \in DOMAIN Lines(text) |-> StripCr(Lines(text)[i])]
      whole == IF flush THEN Append(ls, <<>>) ELSE Front(ls)
  IN FoldLeft(LAMBDA acc, line :
                IF line = <<>>
                THEN [done |-> IF IsEvent(acc.open) THEN Append(acc.done, acc.open)
                               ELSE acc.done, open |-> NoFields]
                ELSE [acc EXCEPT !.open = Field(@, line)],
              [done |-> <<>>, open |-> NoFields], whole).done

(* Wherever the body is cut into chunks, the application gets the events of the
   body in order and none early: Go all of them, TypeScript all but one that no
   blank line ends, Rust all of a body that has one style of line ends, only
   one-byte characters, and an event in every block. *)
PlainForRust ==
  /\ \A i \in DOMAIN body : body[i] \notin {"hi", "lo"}
  /\ \/ ~Contains(body, "\r")
     \/ \A i \in DOMAIN body : body[i] = "\n" => i > 1 /\ body[i - 1] = "\r"
  /\ \A i \in DOMAIN Lines(body) :
       Lines(body)[i] # <<>> => Lines(body)[i][1] \in {"data:", "event:", "\r"}
  /\ \A i \in 1..Len(Lines(body)) - 2 :
       ~(StripCr(Lines(body)[i]) = <<>> /\ StripCr(Lines(body)[i + 1]) = <<>>)

EventsExact ==
  /\ sdk = "go" => IsPrefix(out, EventsOf(body, TRUE))
                   /\ (pc = "ended" => out = EventsOf(body, TRUE))
  /\ sdk = "ts" => IsPrefix(out, EventsOf(body, FALSE))
                   /\ (pc = "ended" => out = EventsOf(body, FALSE))
  /\ (sdk = "rust" /\ PlainForRust)
       => IsPrefix(out, EventsOf(body, TRUE))
          /\ (pc = "ended" => out = EventsOf(body, TRUE))

-------------------------------------------------------------------------------
(* paginate.rs, paginate.go and paginate.ts: walking a list endpoint page by
   page while other clients append to the list and delete from it.  Items are
   numbered in list order. *)

CONSTANTS FirstItems,    \* how many items the list starts with
          MaxItems,      \* how many are ever created
          Limits,        \* page sizes callers ask for
          DefaultLimit   \* what stands for 50

ASSUME PagesAssumption ==
  FirstItems \in Nat /\ MaxItems \in Nat /\ Limits \subseteq Nat /\ DefaultLimit \in Nat \ {0}

VARIABLES walkSdk, mode, limit,
          items,         \* the list on the server
          from,          \* the offset, or the cursor (0: none)
          seen,          \* the items handed to the application
          walk,          \* "fetch", "handle", "done", "stopped"
          page,          \* the page that was fetched, and its next cursor
          next, shrunk   \* shrunk: something was deleted while walking

pageVars == <<walkSdk, mode, limit, items, from, seen, walk, page, next, shrunk>>

(* The server: the first `n` items after a position, which an offset gives and
   a cursor names. *)
PageAfter(start, n) == SubSeq(items, start + 1, Min({start + n, Len(items)}))
OffsetPage(n) == PageAfter(from, n)
Passed == CHOOSE k \in 0..Len(items) : \A j \in 1..Len(items) : j <= k <=> items[j] <= from
CursorPage(n) == PageAfter(Passed, n)

(* Rust and Go replace a limit of 0, TypeScript only a missing one. *)
PageSize == IF limit = 0 /\ walkSdk # "ts" THEN DefaultLimit ELSE limit

(* ctx.Err() of a cancelled Go context, a failing fetch. *)
Stop ==
  /\ walk = "fetch"
  /\ walk' = "stopped"
  /\ UNCHANGED <<walkSdk, mode, limit, items, from, seen, page, next, shrunk>>

Fetch ==
  /\ walk = "fetch"
  /\ LET got == IF mode = "offset" THEN OffsetPage(PageSize) ELSE CursorPage(DefaultLimit)
         more == got # <<>> /\ Last(items) > Last(got)
     IN /\ page' = got
        /\ next' = IF mode = "cursor" /\ more THEN Last(got) ELSE 0
  /\ walk' = "handle"
  /\ UNCHANGED <<walkSdk, mode, limit, items, from, seen, shrunk>>

(* The handler may refuse the page, or the consumer leave the loop. *)
HandleFails ==
  /\ walk = "handle"
  /\ walk' = "stopped"
  /\ UNCHANGED <<walkSdk, mode, limit, items, from, seen, page, next, shrunk>>

(* Mutant: a full last page ends the walk. *)
HandleOffsetEarly ==
  /\ walk = "handle" /\ mode = "offset"
  /\ seen' = seen \o page
  /\ IF Len(page) <= PageSize
     THEN walk' = "done" /\ UNCHANGED from
     ELSE walk' = "fetch" /\ from' = from + Len(page)
  /\ UNCHANGED <<walkSdk, mode, limit, items, page, next, shrunk>>

(* Mutant: the comparison is the wrong way round. *)
HandleOffsetForever ==
  /\ walk = "handle" /\ mode = "offset"
  /\ seen' = seen \o page
  /\ walk' = "fetch" /\ from' = from + Len(page)
  /\ UNCHANGED <<walkSdk, mode, limit, items, page, next, shrunk>>

(* A page shorter than asked for is the last. *)
HandleOffset ==
  /\ walk = "handle" /\ mode = "offset"
  /\ seen' = seen \o page
  /\ IF Len(page) < PageSize
     THEN walk' = "done" /\ UNCHANGED from
     ELSE walk' = "fetch" /\ from' = from + Len(page)
  /\ UNCHANGED <<walkSdk, mode, limit, items, page, next, shrunk>>

HandleCursor ==
  /\ walk = "handle" /\ mode = "cursor"
  /\ seen' = seen \o page
  /\ IF next = 0 THEN walk' = "done" /\ UNCHANGED from
                 ELSE walk' = "fetch" /\ from' = next
  /\ UNCHANGED <<walkSdk, mode, limit, items, page, next, shrunk>>

(* Other clients.  A number is not given twice: the last of the first items
   stays. *)
Newest == IF items = <<>> THEN FirstItems ELSE Last(items)

AppendItem ==
  /\ walk \in {"fetch", "handle"} /\ Newest < MaxItems
  /\ items' = Append(items, Newest + 1)
  /\ UNCHANGED <<walkSdk, mode, limit, from, seen, walk, page, next, shrunk>>

DeleteItem(k) ==
  /\ walk \in {"fetch", "handle"} /\ items[k] < FirstItems
  /\ items' = RemoveAt(items, k) /\ shrunk' = TRUE
  /\ UNCHANGED <<walkSdk, mode, limit, from, seen, walk, page, next>>

PagesInit ==
  /\ walkSdk \in {"rust", "go", "ts"} /\ mode \in {"offset", "cursor"}
  /\ limit \in Limits
  /\ items = [i \in 1..FirstItems |-> i]
  /\ from = 0 /\ seen = <<>> /\ walk = "fetch" /\ page = <<>> /\ next = 0
  /\ shrunk = FALSE

PagesNext ==
  \/ Stop \/ Fetch \/ HandleFails \/ HandleOffset \/ HandleCursor
  \/ AppendItem \/ \E k \in DOMAIN items : DeleteItem(k)

WalkStep == Fetch \/ HandleOffset \/ HandleCursor

-------------------------------------------------------------------------------
(* Every item is handed over at most once and in list order; a walk that ends by
   itself has handed over every item that was there from its start to its end,
   except, for offsets, when a deletion shifted the list. *)
PagesComplete ==
  /\ \A i, j \in DOMAIN seen : i < j => seen[i] < seen[j]
  /\ (walk = "done" /\ (mode = "cursor" \/ ~shrunk))
       => 1..FirstItems \cap ToSet(items) \subseteq ToSet(seen)

(* A walk over a list that others only append to boundedly ends, unless a
   TypeScript caller asked for pages of size 0. *)
WalkEnds ==
  [](mode = "offset" /\ walkSdk = "ts" /\ limit = 0)
    \/ <>(walk \in {"done", "stopped"})

-------------------------------------------------------------------------------
(* The generated validators and the validation middleware: a request body is
   checked against the schema of its route before it is sent, a JSON response
   body of status 2xx after it arrived.

   JSON values are records [t, ...]: "null", "bool", "num", "str" with s, "arr"
   with items, "obj" with fields.  A model is an object with props (name ->
   [ty, required]) or an enum with variants.  A type is a leaf type inside so
   many arrays. *)

CONSTANTS Leaves,     \* the leaf types of the properties
          Values,     \* JSON values, closed under parts
          Routes,     \* the route schemas: [method, path, request, response]
          Bases,      \* base URLs, as sequences of path segments
          Paths       \* the paths of the requests

VARIABLES vsdk, base, call, vpc, route, response

validVars == <<vsdk, base, call, vpc, route, response>>

NoModel == [model |-> "none"]

IsModel(m) ==
  \/ m = NoModel \/ m.model = "Enum"
  \/ m.model = "Object" /\ \A p \in DOMAIN m.props :
                              m.props[p].ty.arrays \in Nat /\ m.props[p].ty.leaf \in Leaves

ASSUME RoutesAssumption ==
  NoModel \notin Routes /\ \A r \in Routes : IsModel(r.request) /\ IsModel(r.response)
ASSUME PartsAssumption ==
  \A v \in Values : /\ v.t = "arr" => \A i \in DOMAIN v.items : v.items[i] \in Values
                    /\ v.t = "obj" => \A p \in DOMAIN v.fields : v.fields[p] \in Values

Wild(seg) == seg = "{}"
Required(m) == {p \in DOMAIN m.props : m.props[p].required}
EnumProps(m) ==
  {p \in DOMAIN m.props : m.props[p].ty.arrays = 0 /\ m.props[p].ty.leaf.type = "StringEnum"}

(* What the schema means. *)
LeafConforms(leaf, v) ==
  CASE leaf.type = "Scalar" ->
         v.t = (CASE leaf.scalar \in {"Integer", "Integer64", "Float"} -> "num"
                  [] leaf.scalar = "Boolean" -> "bool"
                  [] OTHER -> "str")
    [] leaf.type = "StringEnum" -> v.t = "str" /\ v.s \in leaf.variants
    [] leaf.type = "Map" -> v.t = "obj"
    [] OTHER -> TRUE

Conforms[n \in Nat] ==
  [x \in Leaves \X Values |->
     IF n = 0 THEN LeafConforms(x[1], x[2])
     ELSE x[2].t = "arr" /\ \A i \in DOMAIN x[2].items : Conforms[n - 1][<<x[1], x[2].items[i]>>]]

ModelConforms(m, v) ==
  IF m.model = "Enum" THEN v.t = "str" /\ v.s \in m.variants
  ELSE /\ v.t = "obj"
       /\ Required(m) \subseteq DOMAIN v.fields
       /\ \A p \in DOMAIN m.props \cap DOMAIN v.fields :
            Conforms[m.props[p].ty.arrays][<<m.props[p].ty.leaf, v.fields[p]>>]

------------------------------------------------------------------------------
(* validate.rs and validate.go: required names and string enums, one level. *)
EnumAccepts(m, v) == v.t = "str" /\ v.s \in m.variants

FieldsAccept(m, v) ==
  /\ Required(m) \subseteq DOMAIN v.fields
  /\ \A p \in EnumProps(m) \cap DOMAIN v.fields :
       v.fields[p].t = "str" => v.fields[p].s \in m.props[p].ty.leaf.variants

(* Mutant: every property is treated as required. *)
RustAcceptsAll(m, v) ==
  IF m.model = "Enum" THEN EnumAccepts(m, v)
  ELSE v.t = "obj" /\ DOMAIN m.props \subseteq DOMAIN v.fields

(* Without a required field only an empty model looks at the value's kind. *)
RustAccepts(m, v) ==
  IF m.model = "Enum" THEN EnumAccepts(m, v)
  ELSE IF v.t # "obj" THEN Required(m) = {} /\ DOMAIN m.props # {}
  ELSE FieldsAccept(m, v)

GoAccepts(m, v) ==
  IF m.model = "Enum" THEN EnumAccepts(m, v)
  ELSE v.t = "obj" /\ FieldsAccept(m, v)

(* validate.ts: the descriptor of ts_schema_type and validateValue.  A map, an
   unknown type and a 64-bit integer are described as strings, a reference is
   not followed, null passes everywhere. *)
TsLeafAccepts(leaf, v) ==
  CASE leaf.type = "Scalar" ->
         v.t = (CASE leaf.scalar \in {"Integer", "Float"} -> "num"
                  [] leaf.scalar = "Boolean" -> "bool"
                  [] OTHER -> "str")
    [] leaf.type = "StringEnum" -> v.t = "str" /\ v.s \in leaf.variants
    [] leaf.type = "Reference" -> TRUE
    [] OTHER -> v.t = "str"

TsAccepts[n \in Nat] ==
  [x \in Leaves \X Values |->
     \/ x[2].t = "null"
     \/ IF n = 0 THEN TsLeafAccepts(x[1], x[2])
        ELSE x[2].t = "arr" /\ \A i \in DOMAIN x[2].items : TsAccepts[n - 1][<<x[1], x[2].items[i]>>]]

TsModelAccepts(m, v) ==
  \/ v.t = "null"
  \/ IF m.model = "Enum" THEN EnumAccepts(m, v)
     ELSE /\ v.t = "obj"
          /\ Required(m) \subseteq DOMAIN v.fields
          /\ \A p \in DOMAIN m.props \cap DOMAIN v.fields :
               TsAccepts[m.props[p].ty.arrays][<<m.props[p].ty.leaf, v.fields[p]>>]

Accepts(m, v) == CASE vsdk = "rust" -> RustAccepts(m, v)
                   [] vsdk = "go" -> GoAccepts(m, v)
                   [] OTHER -> TsModelAccepts(m, v)

------------------------------------------------------------------------------
(* validation_middleware: the path it compares is the request's URL without
   the query, the base URL included. *)
MatchesPath(pattern, actual) ==
  /\ Len(pattern) = Len(actual)
  /\ \A i \in DOMAIN pattern : Wild(pattern[i]) \/ pattern[i] = actual[i]

(* The exact key first, then any pattern that matches: the maps of Rust and Go
   have no order. *)
Candidates ==
  LET url == base \o call.path
      exact == {r \in Routes : r.method = call.method /\ r.path = url}
      other == {r \in Routes : r.method = call.method /\ MatchesPath(r.path, url)}
  IN IF exact # {} THEN exact ELSE other

(* TypeScript lets a body pass that is a string, unless its text is JSON of
   something else, which is not modelled. *)
Checked(v) == vsdk = "ts" => v.t \notin {"str", "null"}

CheckRequest ==
  /\ vpc = "start"
  /\ \E r \in IF Candidates = {} THEN {NoModel} ELSE Candidates :
       /\ route' = r
       /\ vpc' = IF r # NoModel /\ r.request # NoModel /\ call.body # <<>>
                    /\ Checked(call.body[1]) /\ ~Accepts(r.request, call.body[1])
                 THEN "refused" ELSE "sent"
  /\ UNCHANGED <<vsdk, base, call, response>>

(* The server: a status, perhaps a JSON body. *)
Respond(ok, json) ==
  /\ vpc = "sent"
  /\ response' = [ok |-> ok, body |-> json]
  /\ vpc' = "answered"
  /\ UNCHANGED <<vsdk, base, call, route>>

CheckResponse ==
  /\ vpc = "answered"
  /\ vpc' = IF route # NoModel /\ route.response # NoModel /\ response.ok
               /\ response.body # <<>> /\ ~Accepts(route.response, response.body[1])
            THEN "rejected" ELSE "done"
  /\ UNCHANGED <<vsdk, base, call, route, response>>

BodyChoices == {<<>>} \cup {<<v>> : v \in Values}

ValidInit ==
  /\ vsdk \in {"rust", "go", "ts"}
  /\ base \in Bases
  /\ call \in [method : {"GET", "POST"}, path : Paths, body : BodyChoices]
  /\ vpc = "start" /\ route = NoModel
  /\ response = [ok |-> FALSE, body |-> <<>>]

ValidNext ==
  \/ CheckRequest \/ CheckResponse
  \/ \E ok \in BOOLEAN, json \in BodyChoices : Respond(ok, json)

------------------------------------------------------------------------------
(* The types TypeScript describes as what they are. *)
Plain(m) ==
  m.model = "Object" =>
    \A p \in DOMAIN m.props :
      LET leaf == m.props[p].ty.leaf
      IN leaf.type = "StringEnum" \/ (leaf.type = "Scalar" /\ leaf.scalar # "Integer64")

(* No false alarm: a body is refused only if it does not conform to the schema
   of its route (in TypeScript for the types that have a descriptor of their
   own).  And nothing lacking is sent: an object that goes to a URL some route
   matches has what its route requires.  The URL is compared with the base URL in
   front of it, so routes that are written as in the document match only when
   that is empty. *)
ValidationSound ==
  /\ (vpc = "refused" /\ (vsdk = "ts" => Plain(route.request)))
       => ~ModelConforms(route.request, call.body[1])
  /\ (vpc = "rejected" /\ (vsdk = "ts" => Plain(route.response)))
       => ~ModelConforms(route.response, response.body[1])
  /\ (/\ vpc \in {"sent", "answered", "done", "rejected"}
      /\ call.body # <<>> /\ call.body[1].t = "obj"
      /\ \E r \in Routes : r.method = call.method /\ MatchesPath(r.path, base \o call.path))
       => /\ route \in Routes /\ route.method = call.method
          /\ MatchesPath(route.path, base \o call.path)
          /\ route.request.model = "Object" =>
               Required(route.request) \subseteq DOMAIN call.body[1].fields
===============================================================================
