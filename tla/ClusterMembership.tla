-------------------------- MODULE ClusterMembership --------------------------
(***************************************************************************)
(* Cluster membership (beagle-host/services/cluster_membership.py): a       *)
(* leader issues join tokens and admits servers; a server joins with such a *)
(* token, and leaves in two phases, the leader's removal first.             *)
(*                                                                          *)
(* Every server keeps its own cluster directory: cluster-state.json,        *)
(* members.json, join-tokens.json, setup-codes.json.  Requests to the       *)
(* leader run in threads of its HTTP and RPC servers; each handler reads a  *)
(* file, works on its copy and writes the copy back, with no lock between.  *)
(* A handler that raises and a process that is killed end a thread between  *)
(* two of its steps.                                                        *)
(*                                                                          *)
(* A joining or leaving server calls the leader and waits for the answer.   *)
(* It may stop waiting at any time; what it asked for may still happen.     *)
(*                                                                          *)
(* There is one cluster, a server is known by its name, and a follower runs *)
(* one operation of its own at a time.  admitted and removed are history    *)
(* variables: the servers that had a token accepted, and the servers whose  *)
(* present leave the leader has carried out.                                *)
(***************************************************************************)
EXTENDS FiniteSets, Naturals

CONSTANTS
  Leader, Followers,   \* the server that creates the cluster, the others
  Threads,             \* request threads of the leader
  Tokens, NoToken,     \* secrets of join tokens
  Kinds,               \* the operations that are called in this instance
  MaxRequests,         \* bound: requests on their way to the leader at a time
  MaxCodes             \* bound: setup codes that can be used at a time

ASSUME ServerAssumption ==
  /\ Leader \notin Followers /\ NoToken \notin Tokens
  /\ MaxRequests \in Nat /\ MaxCodes \in Nat

Servers == Followers \cup {Leader}

VARIABLES
  state,      \* servers whose cluster-state.json has a cluster id
  members,    \* server -> the names in its members.json
  tokens,     \* the leader's join-tokens.json
  code,       \* followers with a setup code that can be used
  cred,       \* followers whose certificate files exist
  issued, expired,    \* tokens that were handed out, whose time is up
  pc, op, copy,       \* thread -> its step, its request, its copy of a file
  client,     \* follower -> the step its own operation is at
  inbox,      \* requests on their way to a thread of the leader
  reply,      \* follower -> the leader's answer
  admitted, removed

files == <<state, members, tokens, code, cred>>
clock == <<issued, expired>>
threads == <<pc, op, copy>>
network == <<inbox, reply>>
history == <<admitted, removed>>
vars == <<files, clock, threads, client, network, history>>

TokenFile == [Tokens -> {"none", "open", "used"}]
Message == [kind : {"join", "leave"}, from : Followers,
            token : Tokens \cup {NoToken}, waits : BOOLEAN]
LocalRequest == [kind |-> "local"]
EmptyCopy == [tokens |-> [k \in Tokens |-> "none"], members |-> {}]
NoReply == [ok |-> FALSE, members |-> {}, here |-> FALSE]
Accepted(list) == [ok |-> TRUE, members |-> list, here |-> TRUE]
Rejected == [ok |-> FALSE, members |-> {}, here |-> TRUE]

(* is_initialized                                                           *)
Initialized(s) == s \in state /\ members[s] # {}

Init ==
  /\ state = {} /\ members = [s \in Servers |-> {}]
  /\ tokens = [k \in Tokens |-> "none"]
  /\ code = {}
  /\ cred = {} /\ issued = {} /\ expired = {}
  /\ pc = [t \in Threads |-> "idle"]
  /\ op = [t \in Threads |-> LocalRequest]
  /\ copy = [t \in Threads |-> EmptyCopy]
  /\ client = [n \in Followers |-> "idle"]
  /\ inbox = {} /\ reply = [n \in Followers |-> NoReply]
  /\ admitted = {} /\ removed = {}

-----------------------------------------------------------------------------
(* Threads of the leader                                                    *)

GoesTo(t, step) == pc' = [pc EXCEPT ![t] = step]

Ends(t) ==
  /\ GoesTo(t, "idle")
  /\ op' = [op EXCEPT ![t] = LocalRequest]
  /\ copy' = [copy EXCEPT ![t] = EmptyCopy]

ReadsTokens(t) ==
  copy' = [copy EXCEPT ![t] = [tokens |-> tokens, members |-> {}]]
ReadsMembers(t) ==
  copy' = [copy EXCEPT ![t] = [tokens |-> EmptyCopy.tokens, members |-> members[Leader]]]

(* Thread t takes a request that has arrived.                               *)
Takes(t, kind, m) ==
  /\ pc[t] = "idle"
  /\ m \in inbox /\ m.kind = kind
  /\ inbox' = inbox \ {m}
  /\ op' = [op EXCEPT ![t] = m]

Starts(t, kind) == pc[t] = "idle" /\ kind \in Kinds

(* The answer reaches a client that still waits for it.                     *)
Answer(m, r) ==
  reply' = IF m.waits THEN [reply EXCEPT ![m.from] = r] ELSE reply

(* initialize_cluster, which is not refused on a running cluster either:    *)
(* the state is written, then a member list of the leader alone.            *)
InitializeState(t) ==
  /\ Starts(t, "init")
  /\ Initialized(Leader) => "reinit" \in Kinds
  /\ state' = state \cup {Leader}
  /\ GoesTo(t, "initialize")
  /\ UNCHANGED <<members, tokens, code, cred, clock, op, copy, client, network, history>>

InitializeMembers(t) ==
  /\ pc[t] = "initialize"
  /\ members' = [members EXCEPT ![Leader] = {Leader}]
  /\ Ends(t)
  /\ UNCHANGED <<state, tokens, code, cred, clock, client, network, history>>

(* create_join_token                                                        *)
CreateJoinToken(t) ==
  /\ Starts(t, "token")
  /\ Leader \in members[Leader]      \* local_member
  /\ ReadsTokens(t)
  /\ GoesTo(t, "issue")
  /\ UNCHANGED <<files, clock, op, client, network, history>>

IssueJoinToken(t, k) ==
  /\ pc[t] = "issue"
  /\ k \notin issued
  /\ tokens' = [copy[t].tokens EXCEPT ![k] = "open"]
  /\ issued' = issued \cup {k}
  /\ Ends(t)
  /\ UNCHANGED <<state, members, code, cred, expired, client, network, history>>

(* accept_join_request: the token is checked in a copy of the token file    *)
ReceiveJoin(t) ==
  /\ \E m \in inbox : Takes(t, "join", m)
  /\ ReadsTokens(t)
  /\ GoesTo(t, "validate")
  /\ UNCHANGED <<files, clock, client, reply, history>>

Usable(t) == copy[t].tokens[op[t].token] = "open"

(* Mutant of RejectJoin: an expired token is dropped, but nothing is raised. *)
RejectJoinContinues(t) ==
  LET k == op[t].token IN
  /\ pc[t] = "validate" /\ Usable(t) /\ k \in expired
  /\ tokens' = [copy[t].tokens EXCEPT ![k] = "none"]
  /\ GoesTo(t, "certify")
  /\ UNCHANGED <<state, members, code, cred, clock, op, copy, client, network, history>>

(* _validate_join_secret raises.  An expired token is dropped from the file.*)
RejectJoin(t) ==
  LET k == op[t].token IN
  /\ pc[t] = "validate"
  /\ \/ ~Usable(t) /\ UNCHANGED tokens
     \/ /\ Usable(t) /\ k \in expired
        /\ tokens' = [copy[t].tokens EXCEPT ![k] = "none"]
  /\ Answer(op[t], Rejected)
  /\ Ends(t)
  /\ UNCHANGED <<state, members, code, cred, clock, client, inbox, history>>

(* and is marked as used there.                                             *)
AcceptToken(t) ==
  LET k == op[t].token IN
  /\ pc[t] = "validate" /\ Usable(t) /\ k \notin expired
  /\ tokens' = [copy[t].tokens EXCEPT ![k] = "used"]
  /\ admitted' = admitted \cup {op[t].from}
  /\ GoesTo(t, "certify")
  /\ copy' = [copy EXCEPT ![t] = EmptyCopy]
  /\ UNCHANGED <<state, members, code, cred, clock, op, client, network, removed>>

(* The certificate is issued and the member list is read; the answer is the *)
(* list that is written.                                                    *)
IssueCertificate(t) ==
  /\ pc[t] = "certify"
  /\ ReadsMembers(t)
  /\ GoesTo(t, "admit")
  /\ UNCHANGED <<files, clock, op, client, network, history>>

(* Mutant of AdmitMember: the answer is the list before the new member.     *)
AdmitMemberUnlisted(t) ==
  /\ pc[t] = "admit"
  /\ members' = [members EXCEPT ![Leader] = copy[t].members \cup {op[t].from}]
  /\ Answer(op[t], Accepted(copy[t].members))
  /\ Ends(t)
  /\ UNCHANGED <<state, tokens, code, cred, clock, client, inbox, history>>

AdmitMember(t) ==
  LET list == copy[t].members \cup {op[t].from} IN
  /\ pc[t] = "admit"
  /\ members' = [members EXCEPT ![Leader] = list]
  /\ Answer(op[t], Accepted(list))
  /\ Ends(t)
  /\ UNCHANGED <<state, tokens, code, cred, clock, client, inbox, history>>

(* Mutant of ReceiveLeave: the request is handled as a leave, whatever it is.*)
ReceiveAny(t) ==
  /\ \E m \in inbox : Takes(t, m.kind, m)
  /\ ReadsMembers(t)
  /\ GoesTo(t, "remove")
  /\ UNCHANGED <<files, clock, client, reply, history>>

(* remove_member, called by the member through the cluster.member.leave RPC *)
ReceiveLeave(t) ==
  /\ \E m \in inbox : Takes(t, "leave", m)
  /\ ReadsMembers(t)
  /\ GoesTo(t, "remove")
  /\ UNCHANGED <<files, clock, client, reply, history>>

RejectLeave(t) ==
  /\ pc[t] = "remove" /\ op[t].from \notin copy[t].members
  /\ Answer(op[t], Rejected)
  /\ Ends(t)
  /\ UNCHANGED <<files, clock, client, inbox, history>>

(* Mutant of RemoveMember: the answer goes out, the list is not written.    *)
RemoveMemberUnwritten(t) ==
  /\ pc[t] = "remove" /\ op[t].from \in copy[t].members
  /\ Answer(op[t], Accepted({}))
  /\ Ends(t)
  /\ UNCHANGED <<files, clock, client, inbox, history>>

RemoveMember(t) ==
  LET n == op[t].from IN
  /\ pc[t] = "remove" /\ n \in copy[t].members
  /\ members' = [members EXCEPT ![Leader] = copy[t].members \ {n}]
  /\ removed' = IF op[t].waits THEN removed \cup {n} ELSE removed
  /\ Answer(op[t], Accepted({}))
  /\ Ends(t)
  /\ UNCHANGED <<state, tokens, code, cred, clock, client, inbox, admitted>>

(* update_member and probe_and_update_member_statuses change fields of the  *)
(* entries they have read; a probe that sees no change does not write.      *)
ReadMembers(t) ==
  /\ Starts(t, "refresh") /\ Initialized(Leader)
  /\ ReadsMembers(t)
  /\ GoesTo(t, "refresh")
  /\ UNCHANGED <<files, clock, op, client, network, history>>

WriteMembers(t) ==
  /\ pc[t] = "refresh"
  /\ \/ members' = [members EXCEPT ![Leader] = copy[t].members]
     \/ UNCHANGED members
  /\ Ends(t)
  /\ UNCHANGED <<state, tokens, code, cred, clock, client, network, history>>

(* A handler raises, or the process is killed, between two steps.           *)
Abort(t) ==
  /\ pc[t] # "idle"
  /\ Ends(t)
  /\ UNCHANGED <<files, clock, client, network, history>>

-----------------------------------------------------------------------------
(* A follower                                                               *)

CreateSetupCode(n) ==
  /\ "code" \in Kinds /\ Cardinality(code) < MaxCodes
  /\ client[n] = "idle" /\ ~Initialized(n)
  /\ code' = code \cup {n}
  /\ UNCHANGED <<state, members, tokens, cred, clock, threads, client, network, history>>

Sends(n, kind, k, step) ==
  /\ client[n] = "idle"
  /\ Cardinality(inbox) < MaxRequests
  /\ inbox' = inbox \cup {[kind |-> kind, from |-> n, token |-> k, waits |-> TRUE]}
  /\ client' = [client EXCEPT ![n] = step]

(* join_existing_cluster, with a token from the leader; a server that is a  *)
(* member already is not refused.                                           *)
JoinExistingCluster(n, k) ==
  /\ "join" \in Kinds /\ k \in issued
  /\ Sends(n, "join", k, "joining")
  /\ UNCHANGED <<files, clock, threads, reply, history>>

(* join_with_setup_code; the leader's auto_join_server calls it.            *)
JoinWithSetupCode(n, k) ==
  /\ k \in issued
  /\ ~Initialized(n) /\ n \in code
  /\ code' = code \ {n}
  /\ Sends(n, "join", k, "joining")
  /\ UNCHANGED <<state, members, tokens, cred, clock, threads, reply, history>>

(* apply_join_response: the state file, the member list, the certificate.   *)
ApplyState(n) ==
  /\ client[n] = "joining" /\ reply[n].ok
  /\ state' = state \cup {n}
  /\ client' = [client EXCEPT ![n] = "applying"]
  /\ UNCHANGED <<members, tokens, code, cred, clock, threads, network, history>>

ApplyMembers(n) ==
  /\ client[n] = "applying"
  /\ members' = [members EXCEPT ![n] = reply[n].members]
  /\ client' = [client EXCEPT ![n] = "installing"]
  /\ UNCHANGED <<state, tokens, code, cred, clock, threads, network, history>>

Done(n) ==
  /\ client' = [client EXCEPT ![n] = "idle"]
  /\ reply' = [reply EXCEPT ![n] = NoReply]
  /\ removed' = removed \ {n}

InstallCertificate(n) ==
  /\ client[n] = "installing"
  /\ cred' = cred \cup {n}
  /\ Done(n)
  /\ UNCHANGED <<state, members, tokens, code, clock, threads, inbox, admitted>>

(* remove_member through HTTP DELETE.  The requester is the server itself,  *)
(* so that only its own entry, and never the leader's, can be removed.      *)
DeleteOwnEntry(n) ==
  /\ "delete" \in Kinds
  /\ client[n] = "idle" /\ Initialized(n) /\ n \in members[n]
  /\ members' = [members EXCEPT ![n] = @ \ {n}]
  /\ UNCHANGED <<state, tokens, code, cred, clock, threads, client, network, history>>

(* leave_local_cluster                                                      *)
LeaveLocalCluster(n) ==
  /\ "leave" \in Kinds
  /\ Initialized(n) /\ {n, Leader} \subseteq members[n] /\ n \in cred
  /\ Sends(n, "leave", NoToken, "leaving")
  /\ UNCHANGED <<files, clock, threads, reply, history>>

(* _cleanup_local_cluster_state: the certificate, then the whole directory. *)
RemoveCredentials(n) ==
  /\ client[n] = "leaving" /\ reply[n].ok
  /\ cred' = cred \ {n}
  /\ client' = [client EXCEPT ![n] = "cleaning"]
  /\ UNCHANGED <<state, members, tokens, code, clock, threads, network, history>>

RemoveClusterDir(n) ==
  /\ client[n] = "cleaning"
  /\ state' = state \ {n}
  /\ members' = [members EXCEPT ![n] = {}]
  /\ code' = code \ {n}
  /\ Done(n)
  /\ UNCHANGED <<tokens, cred, clock, threads, inbox, admitted>>

(* The leader refuses.                                                      *)
Refused(n) ==
  /\ client[n] \in {"joining", "leaving"}
  /\ reply[n].here /\ ~reply[n].ok
  /\ Done(n)
  /\ UNCHANGED <<files, clock, threads, inbox, admitted>>

Deaf(m) == [m EXCEPT !.waits = FALSE]

(* The call times out, the connection breaks or the server is restarted:    *)
(* nobody waits for the answer any more.                                    *)
GivesUp(n) ==
  /\ client[n] # "idle"
  /\ Done(n)
  /\ inbox' = {IF m.from = n THEN Deaf(m) ELSE m : m \in inbox}
  /\ op' = [t \in Threads |->
              IF op[t].kind # "local" /\ op[t].from = n THEN Deaf(op[t]) ELSE op[t]]
  /\ UNCHANGED <<files, clock, pc, copy, admitted>>

TokenExpires(k) ==
  /\ k \in issued \ expired
  /\ expired' = expired \cup {k}
  /\ UNCHANGED <<files, issued, threads, client, network, history>>

CodeExpires(n) ==
  /\ n \in code
  /\ code' = code \ {n}
  /\ UNCHANGED <<state, members, tokens, cred, clock, threads, client, network, history>>

JoinStep(t) ==
  \/ ReceiveJoin(t) \/ RejectJoin(t) \/ AcceptToken(t)
  \/ IssueCertificate(t) \/ AdmitMember(t)
LeaveStep(t) == ReceiveLeave(t) \/ RejectLeave(t) \/ RemoveMember(t)
AdminStep(t) ==
  \/ InitializeState(t) \/ InitializeMembers(t)
  \/ CreateJoinToken(t) \/ ReadMembers(t) \/ WriteMembers(t)
  \/ \E k \in Tokens : IssueJoinToken(t, k)
Apply(n) == ApplyState(n) \/ ApplyMembers(n) \/ InstallCertificate(n)
Leave(n) == LeaveLocalCluster(n) \/ RemoveCredentials(n) \/ RemoveClusterDir(n)

Next ==
  \/ \E t \in Threads : AdminStep(t) \/ JoinStep(t) \/ LeaveStep(t) \/ Abort(t)
  \/ \E n \in Followers :
       \/ CreateSetupCode(n) \/ CodeExpires(n) \/ DeleteOwnEntry(n)
       \/ \E k \in Tokens : JoinExistingCluster(n, k) \/ JoinWithSetupCode(n, k)
       \/ Apply(n) \/ Leave(n) \/ Refused(n) \/ GivesUp(n)
  \/ \E k \in Tokens : TokenExpires(k)

Spec == Init /\ [][Next]_vars

-----------------------------------------------------------------------------
(* Properties                                                               *)

(* Every variable has its type, and a request names a token or a member.    *)
TypeOK ==
  /\ state \subseteq Servers
  /\ members \in [Servers -> SUBSET Servers]
  /\ tokens \in TokenFile
  /\ code \subseteq Followers /\ cred \subseteq Followers
  /\ issued \subseteq Tokens /\ expired \subseteq Tokens
  /\ pc \in [Threads -> {"idle", "initialize", "issue", "validate", "certify", "admit",
                         "remove", "refresh"}]
  /\ op \in [Threads -> Message \cup {LocalRequest}]
  /\ copy \in [Threads -> [tokens : TokenFile, members : SUBSET Servers]]
  /\ \A t \in Threads : /\ pc[t] \in {"validate", "certify", "admit"} => op[t].kind = "join"
                        /\ pc[t] = "remove" => op[t].kind = "leave"
  /\ client \in [Followers -> {"idle", "joining", "applying", "installing", "leaving",
                               "cleaning"}]
  /\ inbox \subseteq Message
  /\ \A m \in inbox \cup {op[t] : t \in Threads} : m.kind = "join" => m.token \in Tokens
  /\ reply \in [Followers -> [ok : BOOLEAN, members : SUBSET Servers, here : BOOLEAN]]
  /\ admitted \subseteq Followers /\ removed \subseteq Followers

(* A server that is part of the cluster has the leader in its list, without *)
(* which it could not leave, and a server that has joined has itself there, *)
(* without which it could not either: whatever lists overwrite one another, *)
(* and wherever a join or a leave breaks off.                               *)
ViewsAreSound ==
  /\ \A s \in Servers : Initialized(s) => Leader \in members[s]
  /\ \A n \in Followers : client[n] = "installing" => n \in members[n]

(* Nobody is in a member list, the leader's or any other, who has not had a *)
(* join token accepted: not even through lost updates, retried or broken    *)
(* off joins.                                                               *)
ListedWasAdmitted ==
  \A s \in Servers : members[s] \subseteq admitted \cup {Leader}

(* A server deletes its cluster state only after the leader has taken it    *)
(* out of its list in answer to this very leave (docs/refactor/             *)
(* 07-decisions.md:506-509, the two phases of a leave).                     *)
LeaveIsConfirmed ==
  [][\A n \in Followers : n \in state /\ n \notin state' => n \in removed]_vars

==============================================================================
