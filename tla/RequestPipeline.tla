---------------------------- MODULE RequestPipeline ----------------------------
(***************************************************************************)
(* GET /api/v1/namespaces: requests are authenticated by the header that a *)
(* proxy sets or by a token review, the user is turned into subjects, and  *)
(* the subjects are looked up in the access cache, which synchs restock    *)
(* meanwhile. A listing is one step, as AtomicListRestockCache shows.      *)
(*                                                                         *)
(* A name is the sequence of its parts between colons. The logging         *)
(* layers pass requests through and are left out, and so are the error     *)
(* branches of the handler: neither the lister nor the encoding of its     *)
(* result fails.                                                           *)
(***************************************************************************)
EXTENDS AccessVersions

CONSTANTS Requests,    \* requests, each served by a goroutine
          Usernames,   \* user names, sequences of parts
          GroupLists,  \* sequences of names of groups, at most MaxKeys - 1 long
          NoUser       \* no user: a header not set, a token not accepted

User(name) == [kind |-> "User", namespace |-> "", name |-> name]
Group(name) == [kind |-> "Group", namespace |-> "", name |-> name]
ServiceAccount(ns, name) ==
    [kind |-> "ServiceAccount", namespace |-> ns, name |-> name]

Infos == [name : Usernames, groups : GroupLists]

ASSUME PipelineAssumption ==
    /\ <<>> \in GroupLists
    /\ \A groups \in GroupLists :
           /\ groups \in Seq({groups[i] : i \in DOMAIN groups})
           /\ Len(groups) < MaxKeys
    /\ NoUser \notin Infos
    /\ NoUser \notin Usernames

VARIABLES
    usernameHeader,  \* a header for the user name is configured
    groupsHeader,    \* a header for the groups is configured
    data,            \* what the access cache has published
    pc,              \* where r is
    header,          \* header[r]: the user name and groups the headers hold
    token,           \* token[r]: what the token review made of r's token
    user,            \* user[r]: ContextKeyUserDetails in r's context
    code,            \* code[r]: the status written, 0 when there is none
    body,            \* body[r]: the namespaces written
    read             \* history: the version r's listing read

configVars == <<usernameHeader, groupsHeader>>
vars == <<configVars, data, pc, header, token, user, code, body, read>>

States == {"none", "authn", "handler", "done", "aborted"}

Init ==
    /\ usernameHeader \in BOOLEAN
    /\ groupsHeader \in BOOLEAN
    /\ data \in Versions
    /\ pc = [r \in Requests |-> "none"]
    /\ header = [r \in Requests |-> [name |-> NoUser, groups |-> <<>>]]
    /\ token = [r \in Requests |-> NoUser]
    /\ user = [r \in Requests |-> NoUser]
    /\ code = [r \in Requests |-> 0]
    /\ body = [r \in Requests |-> {}]
    /\ read = [r \in Requests |-> NoData]

Restock(version) ==
    /\ data' = version
    /\ UNCHANGED <<configVars, pc, header, token, user, code, body, read>>

Arrive(r, name, groups) ==
    /\ pc[r] = "none"
    /\ pc' = [pc EXCEPT ![r] = "authn"]
    /\ header' = [header EXCEPT ![r] = [name |-> name, groups |-> groups]]
    /\ UNCHANGED <<configVars, data, token, user, code, body, read>>

--------------------------------------------------------------------------------
(* Authentication.                                                         *)

ByHeader(r) == usernameHeader /\ header[r].name # NoUser

(* The values of a header with the empty name are none.                    *)
HeaderInfo(r) ==
    [name |-> header[r].name,
     groups |-> IF groupsHeader THEN header[r].groups ELSE <<>>]

(* Mutant: the middleware looks at the error and not at ok.                *)
AuthenticatedIgnoringOk(r, info) ==
    /\ user' = [user EXCEPT ![r] = info]
    /\ pc' = [pc EXCEPT ![r] = "handler"]
    /\ UNCHANGED code

(* The middleware: 401 on an error or a refusal, else the next handler,    *)
(* with the user in the request's context.                                 *)
Authenticated(r, info) ==
    /\ user' = [user EXCEPT ![r] = info]
    /\ pc' = [pc EXCEPT ![r] = IF info = NoUser THEN "done" ELSE "handler"]
    /\ code' = [code EXCEPT ![r] = IF info = NoUser THEN 401 ELSE 0]

AuthenticateByHeader(r) ==
    /\ pc[r] = "authn"
    /\ ByHeader(r)
    /\ Authenticated(r, HeaderInfo(r))
    /\ UNCHANGED <<configVars, data, header, token, body, read>>

(* The token review answers, or times out: an error is a refusal here.     *)
AuthenticateByToken(r, info) ==
    /\ pc[r] = "authn"
    /\ ~ByHeader(r)
    /\ token' = [token EXCEPT ![r] = info]
    /\ Authenticated(r, info)
    /\ UNCHANGED <<configVars, data, header, body, read>>

--------------------------------------------------------------------------------
(* The handler.                                                            *)

(* The prefix system:serviceaccount: and its last colon.                   *)
IsServiceAccount(ss) ==
    Len(ss) > 2 /\ ss[1] = "system" /\ ss[2] = "serviceaccount"

(* The part that parseUsername takes for the name may not be there.        *)
OutOfRange(ss) == IsServiceAccount(ss) /\ Len(ss) < 4

parseUsername(ss) ==
    IF IsServiceAccount(ss) THEN ServiceAccount(ss[3], <<ss[4]>>) ELSE User(ss)

(* Mutant: the groups come first.                                          *)
subjectsGroupsFirst(info) ==
    Append([i \in 1..Len(info.groups) |-> Group(info.groups[i])],
           parseUsername(info.name))

subjects(info) ==
    <<parseUsername(info.name)>> \o
        [i \in 1..Len(info.groups) |-> Group(info.groups[i])]

(* The lister: List over the subjects, in the version published now.       *)
ListNamespaces(info) == Answer(data, subjects(info))

ServeHTTP(r) ==
    /\ pc[r] = "handler"
    /\ ~OutOfRange(user[r].name)
    /\ body' = [body EXCEPT ![r] = ListNamespaces(user[r])]
    /\ read' = [read EXCEPT ![r] = data]
    /\ code' = [code EXCEPT ![r] = 200]
    /\ pc' = [pc EXCEPT ![r] = "done"]
    /\ UNCHANGED <<configVars, data, header, token, user>>

(* net/http recovers the goroutine and closes the connection.              *)
Abort(r) ==
    /\ pc[r] = "handler"
    /\ OutOfRange(user[r].name)
    /\ pc' = [pc EXCEPT ![r] = "aborted"]
    /\ UNCHANGED <<configVars, data, header, token, user, code, body, read>>

RequestStep(r) ==
    \/ AuthenticateByHeader(r)
    \/ \E info \in Infos \cup {NoUser} : AuthenticateByToken(r, info)
    \/ ServeHTTP(r)
    \/ Abort(r)

Next ==
    \/ \E version \in Versions : Restock(version)
    \/ \E r \in Requests, name \in Usernames \cup {NoUser}, groups \in GroupLists :
           Arrive(r, name, groups)
    \/ \E r \in Requests : RequestStep(r)

Spec == Init /\ [][Next]_vars

--------------------------------------------------------------------------------
(* Properties.                                                             *)

(* Whom r speaks for: the proxy's word if there is one, else the token's.  *)
Caller(r) == IF ByHeader(r) THEN HeaderInfo(r) ELSE token[r]

CanAccess(version, s, n) ==
    s \in DOMAIN version /\ \E e \in version[s] : e.name = n

(* AuthenticateRequest, AddAuthnMiddleware and ServeHTTP: only requests of *)
(* a user get to the handler, with that user in their context, and 401 is  *)
(* written for exactly the others, whatever else is served meanwhile.      *)
ListsForCallersOnly ==
    \A r \in Requests :
        /\ pc[r] = "handler" \/ code[r] = 200 =>
               Caller(r) # NoUser /\ user[r] = Caller(r)
        /\ code[r] = 401 <=> pc[r] = "done" /\ Caller(r) = NoUser

(* subjects and List: a response names each namespace once; it has those   *)
(* that the caller or one of its groups can access in a version that was   *)
(* published while the request was served; and where the caller has access *)
(* of its own, the labels tell of that and not of a group's.               *)
ResponseIsCallersAccess ==
    \A r \in Requests : code[r] = 200 =>
        LET me == parseUsername(Caller(r).name)
            groups == {Group(Caller(r).groups[i]) : i \in DOMAIN Caller(r).groups}
        IN  /\ \A e, f \in body[r] : e.name = f.name => e = f
            /\ \A n \in Names :
                   (\E e \in body[r] : e.name = n)
                       <=> \E s \in {me} \cup groups : CanAccess(read[r], s, n)
            /\ \A e \in body[r] : CanAccess(read[r], me, e.name) => e.via = me

================================================================================
