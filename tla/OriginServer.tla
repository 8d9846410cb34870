---------------------------- MODULE OriginServer ----------------------------
(***************************************************************************)
(* The origin of the resources a generated client GETs (external to the    *)
(* repository).  A resource has a version, its representation is named by  *)
(* resource and version, and its ETag by the version alone: an entity tag  *)
(* tells versions of one resource apart, not resources.                    *)
(***************************************************************************)
EXTENDS Naturals

CONSTANTS Resources,    \* full URLs, query included
          MaxVersion,   \* bound: how often a resource changes
          Nothing       \* no ETag, no entry, no answer, an empty body

ASSUME MaxVersionAssumption == MaxVersion \in Nat \ {0}

VARIABLE version        \* version[r]: the current version of r

OriginInit == version = [r \in Resources |-> 1]

Versions == 1 .. MaxVersion

(* Somebody changes the resource. *)
Update(r) ==
    /\ version[r] < MaxVersion
    /\ version' = [version EXCEPT ![r] = @ + 1]

Body(r, v) == [of |-> r, version |-> v]
Bodies == [of : Resources, version : Versions]

(* The answer to GET r with the given If-None-Match. *)
Answer(r, ifNoneMatch) ==
    IF ifNoneMatch = version[r]
    THEN [status |-> 304, body |-> Nothing, etag |-> version[r]]
    ELSE [status |-> 200, body |-> Body(r, version[r]), etag |-> version[r]]

Answers == [status : {200, 304}, body : Bodies \cup {Nothing}, etag : Versions]

ASSUME NothingAssumption ==
    /\ Nothing \notin Versions /\ Nothing \notin Resources
    /\ Nothing \notin Bodies /\ Nothing \notin Answers
=============================================================================
