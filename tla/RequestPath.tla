---------------------------- MODULE RequestPath ----------------------------
(***************************************************************************)
(* From the CGI variables of a request to the handler that serves it:      *)
(* FcgiRequest::path() and Router::route().  The accept loop calls path()  *)
(* too, to tell the reads that take a token.                               *)
(*                                                                         *)
(* A text is a sequence of characters; only '/' and '?' have a meaning.    *)
(* Web servers differ in the variables they set.  A request is a record of *)
(* what the client asked for (a name below the place where the server is   *)
(* mounted, and a query) and of what its web server sets.                  *)
(***************************************************************************)
EXTENDS Naturals, Sequences

CONSTANTS Char,       \* characters
          Mounts,     \* paths below which the server is mounted
          Names,      \* what clients ask for below it
          Queries     \* query strings, with the '?'

(* '?' ends a path, and a name is the last component of one. *)
ASSUME RequestAssumption ==
    /\ {"/", "?", "l", "r", "w"} \subseteq Char
    /\ \A m \in Mounts : m \in Seq(Char) /\ \A i \in DOMAIN m : m[i] # "?"
    /\ \A n \in Names : n \in Seq(Char) /\ \A i \in DOMAIN n : n[i] \notin {"?", "/"}
    /\ \A q \in Queries : q \in Seq(Char) /\ (q # << >> => q[1] = "?")

VARIABLE request

NotFound == "404"

Requests ==
    [mount : Mounts, name : Names, query : Queries,
     sets : {"path_info", "script_and_uri", "endpoint_script_and_uri", "endpoint_script", "uri"}]

Endpoint(r) == <<"/">> \o r.name

(* The CGI variables.  The script is the mount or the endpoint itself.     *)
Environment(r) ==
    LET uri == r.mount \o Endpoint(r) \o r.query
        script == r.mount \o Endpoint(r)
    IN  CASE r.sets = "path_info" ->
               [path_info |-> Endpoint(r), request_uri |-> uri, script_name |-> r.mount]
          [] r.sets = "script_and_uri" ->
               [path_info |-> << >>, request_uri |-> uri, script_name |-> r.mount]
          [] r.sets = "endpoint_script_and_uri" ->
               [path_info |-> << >>, request_uri |-> uri, script_name |-> script]
          [] r.sets = "endpoint_script" ->
               [path_info |-> << >>, request_uri |-> << >>, script_name |-> script]
          [] r.sets = "uri" ->
               [path_info |-> << >>, request_uri |-> uri, script_name |-> << >>]

(* The places of a character in a text, its first and its last one.        *)
Places(text, ch) == {i \in DOMAIN text : text[i] = ch}

find(text, ch) == CHOOSE i \in Places(text, ch) : \A j \in Places(text, ch) : i <= j

rfind(text, ch) == CHOOSE i \in Places(text, ch) : \A j \in Places(text, ch) : i >= j

(* The text up to the first '?', and from the last '/' on.                 *)
WithoutQuery(uri) ==
    IF Places(uri, "?") = {} THEN uri ELSE SubSeq(uri, 1, find(uri, "?") - 1)

HasSlash(text) == Places(text, "/") # {}

LastComponent(text) == SubSeq(text, rfind(text, "/"), Len(text))

(* Without REQUEST_URI. *)
PathFromScript(script) ==
    IF HasSlash(script) /\ LastComponent(script) # <<"/">> THEN LastComponent(script)
    ELSE << >>

StartsWith(text, start) == Len(start) <= Len(text) /\ SubSeq(text, 1, Len(start)) = start

(* Mutant: a script that is all of the path is not told apart. *)
PathFromUriStripped(uri_path, script) ==
    IF script # << >> /\ StartsWith(uri_path, script)
    THEN SubSeq(uri_path, Len(script) + 1, Len(uri_path))
    ELSE uri_path

(* With it: SCRIPT_NAME is cut off, and if nothing is left its own end is  *)
(* the path.                                                               *)
PathFromUri(uri_path, script) ==
    IF script # << >> /\ StartsWith(uri_path, script)
    THEN LET trail == SubSeq(uri_path, Len(script) + 1, Len(uri_path))
         IN  CASE trail # << >> -> trail
               [] trail = << >> /\ HasSlash(script) -> LastComponent(script)
               [] OTHER -> uri_path
    ELSE uri_path

path(env) ==
    CASE env.path_info # << >> -> env.path_info
      [] env.path_info = << >> /\ env.request_uri = << >> -> PathFromScript(env.script_name)
      [] OTHER -> PathFromUri(WithoutQuery(env.request_uri), env.script_name)

route(env) ==
    CASE path(env) = <<"/", "l">> -> "l"
      [] path(env) = <<"/", "r">> -> "r"
      [] path(env) = <<"/", "w">> -> "w"
      [] OTHER -> NotFound

--------------------------------------------------------------------------
(* A web server that sets nothing but REQUEST_URI does not say where the   *)
(* server is mounted: it has to be at the root.                            *)
MountKnown(r) == r.sets = "uri" => r.mount = << >>

(* Whatever the web server sets and whatever is in the query, a request    *)
(* reaches the handler of the name it asks for wherever the server is      *)
(* mounted, as long as the variables tell where, and "404" for any other   *)
(* name; with REQUEST_URI alone and a mount below the root it is always    *)
(* "404", never the handler of another name.                               *)
EndpointReached ==
    route(Environment(request)) =
        IF request.name \in {<<"l">>, <<"r">>, <<"w">>} /\ MountKnown(request)
        THEN request.name[1] ELSE NotFound
=============================================================================
