----------------------- MODULE ClusterMembershipProofs -----------------------
(* Theorems about ClusterMembership, for any numbers of servers, threads,   *)
(* tokens and requests on their way.                                        *)
EXTENDS ClusterMembership, TLAPS

Steps == {"idle", "initialize", "issue", "validate", "certify", "admit", "remove", "refresh"}
Moves == {"idle", "joining", "applying", "installing", "leaving", "cleaning"}
Copies == [tokens : TokenFile, members : SUBSET Servers]
Replies == [ok : BOOLEAN, members : SUBSET Servers, here : BOOLEAN]
(* What a thread works on: nothing, or a request that names a token if it   *)
(* is a join.                                                               *)
Tasks == {m \in Message \cup {LocalRequest} : m.kind = "join" => m.token \in Tokens}
(* A request a thread may have at a step.                                   *)
Fits(step, m) ==
  /\ step \in {"validate", "certify", "admit"} => m.kind = "join"
  /\ step = "remove" => m.kind = "leave"

(* TypeOK in four parts, none of which looks into another one's variables.  *)
FileType ==
  /\ state \subseteq Servers /\ members \in [Servers -> SUBSET Servers]
  /\ tokens \in TokenFile
  /\ code \subseteq Followers /\ cred \subseteq Followers
  /\ issued \subseteq Tokens /\ expired \subseteq Tokens
ThreadType ==
  /\ pc \in [Threads -> Steps] /\ op \in [Threads -> Tasks] /\ copy \in [Threads -> Copies]
  /\ \A t \in Threads : Fits(pc[t], op[t])
NetworkType ==
  /\ client \in [Followers -> Moves]
  /\ inbox \subseteq Message /\ inbox \subseteq Tasks
  /\ reply \in [Followers -> Replies]
HistoryType ==
  admitted \subseteq Followers /\ removed \subseteq Followers

(* The four parts together.                                                 *)
LEMMA TypeParts == TypeOK <=> FileType /\ ThreadType /\ NetworkType /\ HistoryType
<1>1. TypeOK => FileType /\ NetworkType /\ HistoryType
  BY DEF TypeOK, FileType, NetworkType, HistoryType, Moves, Replies, Tasks
<1>2. TypeOK => ThreadType
  BY DEF TypeOK, ThreadType, Steps, Tasks, Copies, Fits
<1>3. FileType /\ ThreadType /\ NetworkType /\ HistoryType => TypeOK
  <2>1. \A m \in Tasks : m \in Message \cup {LocalRequest} /\ (m.kind = "join" => m.token \in Tokens)
    BY DEF Tasks
  <2> QED
    BY <2>1 DEF TypeOK, FileType, ThreadType, NetworkType, HistoryType, Steps, Moves, Copies,
                Replies, Fits
<1> QED BY <1>1, <1>2, <1>3

(* The records and copies that the code builds.                             *)
LEMMA RecordTypes ==
  /\ LocalRequest \in Tasks /\ EmptyCopy \in Copies
  /\ NoReply \in Replies /\ Rejected \in Replies
  /\ \A list \in SUBSET Servers : Accepted(list) \in Replies
  /\ FileType => /\ [tokens |-> tokens, members |-> {}] \in Copies
                 /\ [tokens |-> EmptyCopy.tokens, members |-> members[Leader]] \in Copies
BY DEF Tasks, LocalRequest, EmptyCopy, Copies, NoReply, Rejected, Replies, Accepted, FileType,
       TokenFile, Servers

(* A thread goes to a step, with a request and a copy.                      *)
LEMMA ThreadMoves ==
  ASSUME ThreadType, NEW t \in Threads, NEW step \in Steps, NEW m \in Tasks, NEW c \in Copies,
         pc' = [pc EXCEPT ![t] = step],
         op' = [op EXCEPT ![t] = m], copy' = [copy EXCEPT ![t] = c],
         Fits(step, m)
  PROVE  ThreadType'
BY DEF ThreadType

(* A thread ends.                                                           *)
LEMMA EndsType == ASSUME ThreadType, NEW t \in Threads, Ends(t) PROVE ThreadType'
<1>1. Fits("idle", LocalRequest)
  BY DEF Fits
<1> QED BY <1>1, ThreadMoves, RecordTypes DEF Ends, GoesTo, Steps

(* A thread reads a file, and keeps its request.                            *)
LEMMA ReadType ==
  ASSUME ThreadType, FileType, NEW t \in Threads, NEW step \in Steps, GoesTo(t, step),
         ReadsTokens(t) \/ ReadsMembers(t), op' = op, Fits(step, op[t])
  PROVE  ThreadType'
<1>1. op[t] \in Tasks /\ op' = [op EXCEPT ![t] = op[t]]
  BY DEF ThreadType
<1> QED BY <1>1, ThreadMoves, RecordTypes DEF GoesTo, ReadsTokens, ReadsMembers

(* A thread takes a request that its step can handle.                       *)
LEMMA TakeType ==
  ASSUME ThreadType, FileType, NetworkType, NEW t \in Threads, NEW step \in Steps,
         GoesTo(t, step), ReadsTokens(t) \/ ReadsMembers(t), NEW m, NEW kind,
         Takes(t, kind, m), Fits(step, [kind |-> kind]), reply' = reply, client' = client
  PROVE  ThreadType' /\ NetworkType'
<1>1. m \in Tasks /\ m.kind = kind /\ m \in inbox
  BY DEF Takes, NetworkType
<1>2. Fits(step, m)
  BY <1>1 DEF Fits
<1>3. ThreadType'
  BY <1>1, <1>2, ThreadMoves, RecordTypes DEF Takes, GoesTo, ReadsTokens, ReadsMembers
<1>4. NetworkType'
  BY DEF Takes, NetworkType
<1> QED BY <1>3, <1>4

(* An answer is stored for a client that waits for it.                      *)
LEMMA AnswerType ==
  ASSUME NetworkType, NEW m \in Tasks, m.kind # "local", NEW r \in Replies, Answer(m, r),
         inbox' = inbox, client' = client
  PROVE  NetworkType'
<1>1. m.from \in Followers
  BY DEF Tasks, Message, LocalRequest
<1> QED BY <1>1 DEF Answer, NetworkType

(* A client ends its call.                                                  *)
LEMMA DoneType ==
  ASSUME NetworkType, HistoryType, NEW n \in Followers, Done(n), inbox' = inbox,
         UNCHANGED admitted
  PROVE  NetworkType' /\ HistoryType'
BY RecordTypes DEF Done, NetworkType, HistoryType, Moves

(* The initial state has its types.                                         *)
LEMMA TypeInit == Init => TypeOK
BY ServerAssumption DEF Init, TypeOK, TokenFile, LocalRequest, EmptyCopy, NoReply, Servers

(* A thread goes to a step, and that is all.                                *)
LEMMA StepType ==
  ASSUME ThreadType, NEW t \in Threads, NEW step \in Steps, GoesTo(t, step),
         op' = op, copy' = copy \/ copy' = [copy EXCEPT ![t] = EmptyCopy], Fits(step, op[t])
  PROVE  ThreadType'
<1>1. /\ op[t] \in Tasks /\ op' = [op EXCEPT ![t] = op[t]]
      /\ copy[t] \in Copies /\ copy = [copy EXCEPT ![t] = copy[t]]
  BY DEF ThreadType
<1> QED BY <1>1, ThreadMoves, RecordTypes DEF GoesTo

(* Steps of the leader's administration.                                    *)
LEMMA AdminType ==
  ASSUME FileType, ThreadType, NEW t \in Threads, AdminStep(t)
  PROVE  FileType' /\ ThreadType'
<1> USE DEF files, clock
<1>0. copy[t] \in Copies /\ \A step \in {"initialize", "issue", "refresh"} : Fits(step, op[t])
  BY DEF ThreadType, Fits
<1>1. CASE InitializeState(t)
  BY <1>0, <1>1, StepType DEF InitializeState, FileType, Steps, Servers
<1>2. CASE InitializeMembers(t)
  BY <1>2, EndsType DEF InitializeMembers, FileType, Servers
<1>3. CASE CreateJoinToken(t)
  BY <1>0, <1>3, ReadType DEF CreateJoinToken, FileType, Steps
<1>4. CASE ReadMembers(t)
  BY <1>0, <1>4, ReadType DEF ReadMembers, FileType, Steps
<1>5. CASE WriteMembers(t)
  BY <1>0, <1>5, EndsType DEF WriteMembers, FileType, Copies, Servers
<1>6. ASSUME NEW k \in Tokens, IssueJoinToken(t, k)
      PROVE  FileType' /\ ThreadType'
  BY <1>0, <1>6, EndsType DEF IssueJoinToken, FileType, Copies, TokenFile
<1> QED BY <1>1, <1>2, <1>3, <1>4, <1>5, <1>6 DEF AdminStep

(* Steps of a thread that handles a join.                                   *)
LEMMA JoinType ==
  ASSUME FileType, ThreadType, NetworkType, HistoryType, NEW t \in Threads, JoinStep(t)
  PROVE  FileType' /\ ThreadType' /\ NetworkType' /\ HistoryType'
<1> USE DEF files, clock, network, history
<1>0. copy[t] \in Copies /\ op[t] \in Tasks /\ Fits(pc[t], op[t])
  BY DEF ThreadType
<1>1. CASE ReceiveJoin(t)
  <2>1. PICK m \in inbox : Takes(t, "join", m)
    BY <1>1 DEF ReceiveJoin
  <2>2. Fits("validate", [kind |-> "join"]) /\ "validate" \in Steps
    BY DEF Fits, Steps
  <2>3. ThreadType' /\ NetworkType'
    BY <1>1, <2>1, <2>2, TakeType DEF ReceiveJoin
  <2> QED BY <1>1, <2>3 DEF ReceiveJoin, FileType, HistoryType
<1>2. CASE RejectJoin(t)
  <2>1. op[t].kind = "join" /\ op[t].kind # "local" /\ op[t].token \in Tokens
    BY <1>0, <1>2 DEF RejectJoin, Fits, Tasks
  <2>2. ThreadType' /\ NetworkType'
    BY <1>0, <1>2, <2>1, EndsType, AnswerType, RecordTypes DEF RejectJoin
  <2>3. FileType'
    BY <1>0, <1>2 DEF RejectJoin, FileType, Copies, TokenFile
  <2> QED BY <1>2, <2>2, <2>3 DEF RejectJoin, HistoryType
<1>3. CASE AcceptToken(t)
  <2>1. op[t].kind = "join" /\ op[t].token \in Tokens /\ op[t].from \in Followers
    BY <1>0, <1>3 DEF AcceptToken, Fits, Tasks, Message, LocalRequest
  <2>2. ThreadType'
    BY <1>3, <2>1, StepType DEF AcceptToken, Steps, Fits
  <2>3. FileType' /\ HistoryType'
    BY <1>0, <1>3, <2>1 DEF AcceptToken, FileType, HistoryType, Copies, TokenFile
  <2> QED BY <1>3, <2>2, <2>3 DEF AcceptToken, NetworkType
<1>4. CASE IssueCertificate(t)
  <2>1. Fits("admit", op[t])
    BY <1>0, <1>4 DEF IssueCertificate, Fits
  <2>2. ThreadType'
    BY <1>4, <2>1, ReadType DEF IssueCertificate, Steps
  <2> QED BY <1>4, <2>2 DEF IssueCertificate, FileType, NetworkType, HistoryType
<1>5. CASE AdmitMember(t)
  <2>1. op[t].kind # "local" /\ op[t].from \in Followers
    BY <1>0, <1>5 DEF AdmitMember, Fits, Tasks, Message, LocalRequest
  <2>2. copy[t].members \cup {op[t].from} \in SUBSET Servers
    BY <1>0, <2>1 DEF Copies, Servers
  <2>3. ThreadType' /\ NetworkType'
    BY <1>0, <1>5, <2>1, <2>2, EndsType, AnswerType, RecordTypes DEF AdmitMember
  <2> QED BY <1>5, <2>2, <2>3 DEF AdmitMember, FileType, HistoryType
<1> QED BY <1>1, <1>2, <1>3, <1>4, <1>5 DEF JoinStep

(* Steps of a thread that handles a leave, or that ends early.              *)
LEMMA LeaveType ==
  ASSUME FileType, ThreadType, NetworkType, HistoryType, NEW t \in Threads,
         LeaveStep(t) \/ Abort(t)
  PROVE  FileType' /\ ThreadType' /\ NetworkType' /\ HistoryType'
<1> USE DEF files, clock, network, history
<1>0. copy[t] \in Copies /\ op[t] \in Tasks /\ Fits(pc[t], op[t])
  BY DEF ThreadType
<1>1. CASE ReceiveLeave(t)
  <2>1. PICK m \in inbox : Takes(t, "leave", m)
    BY <1>1 DEF ReceiveLeave
  <2>2. Fits("remove", [kind |-> "leave"]) /\ "remove" \in Steps
    BY DEF Fits, Steps
  <2>3. ThreadType' /\ NetworkType'
    BY <1>1, <2>1, <2>2, TakeType DEF ReceiveLeave
  <2> QED BY <1>1, <2>3 DEF ReceiveLeave, FileType, HistoryType
<1>2. CASE RejectLeave(t)
  <2>1. op[t].kind # "local"
    BY <1>0, <1>2 DEF RejectLeave, Fits
  <2>2. ThreadType' /\ NetworkType'
    BY <1>0, <1>2, <2>1, EndsType, AnswerType, RecordTypes DEF RejectLeave
  <2> QED BY <1>2, <2>2 DEF RejectLeave, FileType, HistoryType
<1>3. CASE RemoveMember(t)
  <2>1. op[t].kind # "local" /\ op[t].from \in Followers
    BY <1>0, <1>3 DEF RemoveMember, Fits, Tasks, Message, LocalRequest
  <2>2. ThreadType' /\ NetworkType'
    BY <1>0, <1>3, <2>1, EndsType, AnswerType, RecordTypes DEF RemoveMember
  <2>3. FileType' /\ HistoryType'
    BY <1>0, <1>3, <2>1 DEF RemoveMember, FileType, HistoryType, Copies
  <2> QED BY <2>2, <2>3
<1>4. CASE Abort(t)
  BY <1>4, EndsType DEF Abort, FileType, NetworkType, HistoryType
<1> QED BY <1>1, <1>2, <1>3, <1>4 DEF LeaveStep

(* A request is sent.                                                       *)
LEMMA SendType ==
  ASSUME NetworkType, NEW n \in Followers, NEW k \in Tokens \cup {NoToken}, NEW step \in Moves,
         NEW kind \in {"join", "leave"}, Sends(n, kind, k, step), kind = "join" => k \in Tokens,
         reply' = reply
  PROVE  NetworkType'
<1>1. [kind |-> kind, from |-> n, token |-> k, waits |-> TRUE] \in Message \cap Tasks
  BY DEF Message, Tasks
<1> QED BY <1>1 DEF Sends, NetworkType

(* Nobody waits for a request any more: it is a request still.              *)
LEMMA DeafType ==
  /\ \A m \in Message : Deaf(m) \in Message
  /\ \A m \in Tasks : m.kind # "local" =>
       /\ Deaf(m) \in Tasks /\ Deaf(m).kind = m.kind /\ Deaf(m).from = m.from
       /\ Deaf(m).token = m.token /\ ~Deaf(m).waits
<1>1. \A m \in Message : /\ Deaf(m) \in Message /\ Deaf(m).kind = m.kind
                         /\ Deaf(m).from = m.from /\ Deaf(m).token = m.token
                         /\ Deaf(m).waits = FALSE
  BY DEF Deaf, Message
<1>2. \A m \in Tasks : m.kind # "local" => m \in Message
  BY DEF Tasks, LocalRequest
<1> QED BY <1>1, <1>2 DEF Tasks

(* Steps of a follower that change nothing of the threads.                  *)
LEMMA FollowerType ==
  ASSUME FileType, NetworkType, HistoryType, NEW n \in Followers,
         \/ CreateSetupCode(n) \/ CodeExpires(n) \/ DeleteOwnEntry(n)
         \/ \E k \in Tokens : JoinExistingCluster(n, k) \/ JoinWithSetupCode(n, k)
         \/ Apply(n) \/ Leave(n) \/ Refused(n)
  PROVE  FileType' /\ NetworkType' /\ HistoryType' /\ UNCHANGED threads
<1> USE DEF files, clock, network, history
<1>0. reply[n].members \in SUBSET Servers
  BY DEF NetworkType, Replies
<1>1. CASE CreateSetupCode(n)
  BY <1>1 DEF CreateSetupCode, FileType, NetworkType, HistoryType
<1>2. CASE CodeExpires(n)
  BY <1>2 DEF CodeExpires, FileType, NetworkType, HistoryType
<1>3. CASE DeleteOwnEntry(n)
  BY <1>3 DEF DeleteOwnEntry, FileType, NetworkType, HistoryType, Servers
<1>4. ASSUME NEW k \in Tokens, JoinExistingCluster(n, k)
      PROVE  FileType' /\ NetworkType' /\ HistoryType' /\ UNCHANGED threads
  BY <1>4, SendType DEF JoinExistingCluster, FileType, HistoryType, Moves
<1>5. ASSUME NEW k \in Tokens, JoinWithSetupCode(n, k)
      PROVE  FileType' /\ NetworkType' /\ HistoryType' /\ UNCHANGED threads
  BY <1>5, SendType DEF JoinWithSetupCode, FileType, HistoryType, Moves
<1>6. CASE ApplyState(n)
  BY <1>6 DEF ApplyState, FileType, NetworkType, HistoryType, Moves, Servers
<1>7. CASE ApplyMembers(n)
  BY <1>0, <1>7 DEF ApplyMembers, FileType, NetworkType, HistoryType, Moves, Servers
<1>8. CASE InstallCertificate(n)
  BY <1>8, DoneType DEF InstallCertificate, FileType
<1>9. CASE LeaveLocalCluster(n)
  BY <1>9, SendType DEF LeaveLocalCluster, FileType, HistoryType, Moves
<1>10. CASE RemoveCredentials(n)
  BY <1>10 DEF RemoveCredentials, FileType, NetworkType, HistoryType, Moves
<1>11. CASE RemoveClusterDir(n)
  BY <1>11, DoneType DEF RemoveClusterDir, FileType
<1>12. CASE Refused(n)
  BY <1>12, DoneType DEF Refused, FileType
<1> QED BY <1>1, <1>2, <1>3, <1>4, <1>5, <1>6, <1>7, <1>8, <1>9, <1>10, <1>11, <1>12
        DEF Apply, Leave

(* A client stops waiting, and its requests go on without it.               *)
LEMMA GivesUpType ==
  ASSUME FileType, ThreadType, NetworkType, HistoryType, NEW n \in Followers, GivesUp(n)
  PROVE  FileType' /\ ThreadType' /\ NetworkType' /\ HistoryType'
<1>1. FileType'
  BY DEF GivesUp, FileType, files, clock
<1>2. HistoryType'
  BY DEF GivesUp, Done, HistoryType
<1>3. inbox' \subseteq Message /\ inbox' \subseteq Tasks
  <2>1. \A m \in inbox : m \in Message /\ m \in Tasks /\ m.kind # "local"
    BY DEF NetworkType, Message
  <2> QED BY <2>1, DeafType DEF GivesUp
<1>4. NetworkType'
  BY <1>3, RecordTypes DEF GivesUp, Done, NetworkType, Moves
<1>5. \A t \in Threads : op'[t] \in Tasks /\ Fits(pc[t], op'[t])
  <2> TAKE t \in Threads
  <2>1. op[t] \in Tasks /\ Fits(pc[t], op[t])
    BY DEF ThreadType
  <2>2. op'[t] = op[t] \/ (op'[t] = Deaf(op[t]) /\ op[t].kind # "local")
    BY DEF GivesUp
  <2> QED BY <2>1, <2>2, DeafType DEF Fits
<1>6. op' \in [Threads -> Tasks]
  BY <1>5 DEF GivesUp
<1>7. ThreadType'
  BY <1>5, <1>6 DEF GivesUp, ThreadType
<1> QED BY <1>1, <1>2, <1>4, <1>7

(* Every step keeps the types.                                              *)
LEMMA TypeStep == TypeOK /\ [Next]_vars => TypeOK'
<1> SUFFICES ASSUME FileType, ThreadType, NetworkType, HistoryType, [Next]_vars
             PROVE  FileType' /\ ThreadType' /\ NetworkType' /\ HistoryType'
  BY TypeParts, PTL
<1>1. ASSUME NEW t \in Threads, AdminStep(t)
      PROVE  FileType' /\ ThreadType' /\ NetworkType' /\ HistoryType'
  <2>1. UNCHANGED <<client, network, history>>
    BY <1>1 DEF AdminStep, InitializeState, InitializeMembers, CreateJoinToken, IssueJoinToken,
                ReadMembers, WriteMembers
  <2> QED BY <1>1, <2>1, AdminType DEF network, history, NetworkType, HistoryType
<1>2. ASSUME NEW t \in Threads, JoinStep(t) \/ LeaveStep(t) \/ Abort(t)
      PROVE  FileType' /\ ThreadType' /\ NetworkType' /\ HistoryType'
  BY <1>2, JoinType, LeaveType
<1>3. ASSUME NEW n \in Followers,
             \/ CreateSetupCode(n) \/ CodeExpires(n) \/ DeleteOwnEntry(n)
             \/ \E k \in Tokens : JoinExistingCluster(n, k) \/ JoinWithSetupCode(n, k)
             \/ Apply(n) \/ Leave(n) \/ Refused(n)
      PROVE  FileType' /\ ThreadType' /\ NetworkType' /\ HistoryType'
  BY <1>3, FollowerType DEF threads, ThreadType
<1>4. ASSUME NEW n \in Followers, GivesUp(n)
      PROVE  FileType' /\ ThreadType' /\ NetworkType' /\ HistoryType'
  BY <1>4, GivesUpType
<1>5. ASSUME NEW k \in Tokens, TokenExpires(k)
      PROVE  FileType' /\ ThreadType' /\ NetworkType' /\ HistoryType'
  BY <1>5 DEF TokenExpires, files, threads, network, history, FileType, ThreadType, NetworkType,
              HistoryType
<1>6. CASE UNCHANGED vars
  BY <1>6 DEF vars, files, clock, threads, network, history, FileType, ThreadType, NetworkType,
              HistoryType
<1> QED BY <1>1, <1>2, <1>3, <1>4, <1>5, <1>6 DEF Next

(* TypeOK holds in every state: requests keep a shape that the step they    *)
(* are handled at can work with (accept_join_request, remove_member).       *)
THEOREM TypeCorrect == Spec => []TypeOK
BY TypeInit, TypeStep, PTL DEF Spec

(* A member list in a file, a copy or an answer: it names admitted servers  *)
(* only, and the leader unless it is empty.                                 *)
Sound(list) == list \subseteq admitted \cup {Leader} /\ (list # {} => Leader \in list)

(* Every list is sound, and whoever is about to be listed was admitted.     *)
ListInv ==
  /\ \A s \in Servers : Sound(members[s])
  /\ \A n \in Followers : Sound(reply[n].members)
  /\ \A t \in Threads : /\ Sound(copy[t].members)
                        /\ pc[t] \in {"certify", "admit"} => op[t].from \in admitted
                        /\ pc[t] \in {"admit", "refresh"} => Leader \in copy[t].members

Founded == Leader \in members[Leader]
(* No token exists, and no certificate is issued, before the leader has a   *)
(* member list: the list a join is added to is never empty.                 *)
FoundedInv ==
  /\ \A k \in Tokens : tokens[k] # "none" => Founded
  /\ \A t \in Threads : /\ pc[t] \in {"issue", "certify"} => Founded
                        /\ \A k \in Tokens : copy[t].tokens[k] # "none" => Founded

Waits(m) == m.kind # "local" /\ m.waits
(* A server waits for one answer at most, to the call that it is in, and    *)
(* for none once the answer is there.                                       *)
AwaitedBy(m) ==
  /\ client[m.from] = IF m.kind = "join" THEN "joining" ELSE "leaving"
  /\ ~reply[m.from].here
CallInv ==
  /\ \A m \in inbox : Waits(m) => AwaitedBy(m)
  /\ \A t \in Threads : Waits(op[t]) => AwaitedBy(op[t])
  /\ \A m1, m2 \in inbox : Waits(m1) /\ Waits(m2) /\ m1.from = m2.from => m1 = m2
  /\ \A t1, t2 \in Threads : Waits(op[t1]) /\ Waits(op[t2]) /\ op[t1].from = op[t2].from => t1 = t2
  /\ \A m \in inbox, t \in Threads : Waits(m) /\ Waits(op[t]) => m.from # op[t].from

(* What an answer entitles its receiver to: a list with itself in it, or    *)
(* the end of its membership.                                               *)
Entitled(n) ==
  /\ reply[n].ok => reply[n].here
  /\ client[n] = "idle" => ~reply[n].here
  /\ client[n] = "applying" \/ (client[n] = "joining" /\ reply[n].ok) =>
       reply[n].here /\ n \in reply[n].members
  /\ client[n] = "cleaning" \/ (client[n] = "leaving" /\ reply[n].ok) => n \in removed
  /\ client[n] \in {"installing", "cleaning"} => reply[n].here
  /\ client[n] = "installing" => n \in members[n]
AnswerInv == \A n \in Followers : Entitled(n)

(* All of it in the initial state.                                          *)
LEMMA ListInit == Init => ListInv /\ FoundedInv /\ CallInv /\ AnswerInv
<1> SUFFICES ASSUME Init
             PROVE  ListInv /\ FoundedInv /\ CallInv /\ AnswerInv
  OBVIOUS
<1>1. ListInv /\ FoundedInv
  BY DEF Init, ListInv, FoundedInv, Sound, Servers, EmptyCopy, NoReply
<1>2. CallInv
  BY DEF Init, CallInv, Waits, LocalRequest
<1>3. AnswerInv
  BY DEF Init, AnswerInv, Entitled, NoReply
<1> QED BY <1>1, <1>2, <1>3

Typed == FileType /\ ThreadType /\ NetworkType /\ HistoryType
Listed == ListInv /\ FoundedInv

(* Nothing of the lists' invariants depends on other variables than these.  *)
LEMMA ListUnchanged ==
  ASSUME Listed, UNCHANGED <<members, reply, copy, pc, op, tokens, admitted>>
  PROVE  Listed'
BY DEF Listed, ListInv, FoundedInv, Founded, Sound

(* A thread ends, and the leader's list is as it was or sound.              *)
LEMMA EndsListed ==
  ASSUME Typed, Listed, NEW t \in Threads, Ends(t), admitted' = admitted,
         NEW list, Sound(list),
         members' = members \/ (members' = [members EXCEPT ![Leader] = list] /\ Leader \in list),
         tokens' = tokens \/ \A k \in Tokens : tokens'[k] # "none" => Founded,
         \A n \in Followers : reply'[n].members = reply[n].members \/ reply'[n].members = list
                                \/ reply'[n].members = {}
  PROVE  Listed'
<1>1. \A u \in Threads : /\ pc'[u] = pc[u] \/ pc'[u] = "idle"
                         /\ op'[u] = op[u] \/ pc'[u] = "idle"
                         /\ copy'[u] = copy[u] \/ (copy'[u] = EmptyCopy /\ pc'[u] = "idle")
  BY DEF Ends, GoesTo, Typed, ThreadType
<1>2. \A s \in Servers : members'[s] = members[s] \/ members'[s] = list
  BY DEF Typed, FileType
<1>3. Founded => Founded'
  BY DEF Founded, Typed, FileType, Servers
<1>4. ListInv'
  BY <1>1, <1>2 DEF Listed, ListInv, Sound, EmptyCopy
<1>5. FoundedInv'
  BY <1>1, <1>3 DEF Listed, FoundedInv, EmptyCopy
<1> QED BY <1>4, <1>5 DEF Listed

(* Thread t goes to a step with a request and a copy; files, answers and    *)
(* admissions stay.                                                         *)
GoesOn(t, step, m, c) ==
  /\ pc' = [pc EXCEPT ![t] = step] /\ op' = [op EXCEPT ![t] = m]
  /\ copy' = [copy EXCEPT ![t] = c]
  /\ UNCHANGED <<tokens, members, reply, admitted>>

(* A thread goes on with a copy and a request.                              *)
LEMMA GoesListed ==
  ASSUME Typed, Listed, NEW t \in Threads, NEW step \in Steps, NEW c \in Copies, NEW m \in Tasks,
         GoesOn(t, step, m, c),
         Sound(c.members), step \in {"certify", "admit"} => m.from \in admitted,
         step \in {"admit", "refresh"} => Leader \in c.members,
         step \in {"issue", "certify"} \/ (\E k \in Tokens : c.tokens[k] # "none") => Founded
  PROVE  Listed'
<1>1. \A u \in Threads : \/ u = t /\ pc'[u] = step /\ op'[u] = m /\ copy'[u] = c
                         \/ pc'[u] = pc[u] /\ op'[u] = op[u] /\ copy'[u] = copy[u]
  BY DEF GoesOn, Typed, ThreadType
<1>2. ListInv'
  BY <1>1 DEF GoesOn, Listed, ListInv, Sound
<1>3. FoundedInv'
  BY <1>1 DEF GoesOn, Listed, FoundedInv, Founded
<1> QED BY <1>2, <1>3 DEF Listed

(* What a thread may read.                                                  *)
LEMMA ReadListed ==
  ASSUME Typed, Listed
  PROVE  /\ Sound({}) /\ Sound(members[Leader]) /\ Sound(EmptyCopy.members)
         /\ \A k \in Tokens : EmptyCopy.tokens[k] = "none"
         /\ Founded <=> members[Leader] # {}
BY DEF Listed, ListInv, Sound, EmptyCopy, Servers, Founded

(* Administration keeps the lists sound: what is written was read, or is    *)
(* the leader alone.                                                        *)
LEMMA AdminListed ==
  ASSUME Typed, Listed, NEW t \in Threads, AdminStep(t)
  PROVE  Listed'
<1> USE DEF files, clock, network, history
<1>0. /\ copy[t] \in Copies /\ op[t] \in Tasks
      /\ copy = [copy EXCEPT ![t] = copy[t]] /\ op = [op EXCEPT ![t] = op[t]]
      /\ Sound(copy[t].members) /\ \A k \in Tokens : tokens[k] # "none" => Founded
      /\ \A k \in Tokens : copy[t].tokens[k] # "none" => Founded
      /\ admitted \subseteq admitted
  BY DEF Typed, ThreadType, Listed, ListInv, FoundedInv
<1>1. CASE InitializeState(t)
  <2>1. GoesOn(t, "initialize", op[t], copy[t])
    BY <1>0, <1>1 DEF InitializeState, GoesTo, GoesOn
  <2> QED BY <1>0, <2>1, GoesListed DEF Steps
<1>2. CASE InitializeMembers(t)
  BY <1>0, <1>2, EndsListed DEF InitializeMembers, Sound
<1>3. CASE CreateJoinToken(t)
  <2>1. Founded /\ [tokens |-> tokens, members |-> {}] \in Copies
    BY <1>3, RecordTypes DEF CreateJoinToken, Founded, Typed
  <2>2. GoesOn(t, "issue", op[t], [tokens |-> tokens, members |-> {}])
    BY <1>0, <1>3 DEF CreateJoinToken, ReadsTokens, GoesTo, GoesOn
  <2> QED BY <1>0, <2>1, <2>2, ReadListed, GoesListed DEF Steps
<1>4. CASE ReadMembers(t)
  <2>1. Leader \in members[Leader] /\ [tokens |-> EmptyCopy.tokens, members |-> members[Leader]] \in Copies
    BY <1>4, ReadListed, RecordTypes DEF ReadMembers, Founded, Typed, Initialized
  <2>2. GoesOn(t, "refresh", op[t], [tokens |-> EmptyCopy.tokens, members |-> members[Leader]])
    BY <1>0, <1>4 DEF ReadMembers, ReadsMembers, GoesTo, GoesOn
  <2> QED BY <1>0, <2>1, <2>2, ReadListed, GoesListed DEF Steps
<1>5. CASE WriteMembers(t)
  <2>1. Leader \in copy[t].members
    BY <1>5 DEF WriteMembers, Listed, ListInv
  <2> QED BY <1>0, <1>5, <2>1, EndsListed DEF WriteMembers
<1>6. ASSUME NEW k \in Tokens, IssueJoinToken(t, k)
      PROVE  Listed'
  <2>1. Founded
    BY <1>6 DEF IssueJoinToken, Listed, FoundedInv
  <2> QED BY <1>0, <1>6, <2>1, EndsListed DEF IssueJoinToken
<1> QED BY <1>1, <1>2, <1>3, <1>4, <1>5, <1>6 DEF AdminStep

(* A join adds a server that had its token accepted to a list with the      *)
(* leader.                                                                  *)
LEMMA JoinListed ==
  ASSUME Typed, Listed, NEW t \in Threads, JoinStep(t)
  PROVE  Listed'
<1> USE DEF files, clock, network, history
<1>0. /\ copy[t] \in Copies /\ op[t] \in Tasks
      /\ copy = [copy EXCEPT ![t] = copy[t]] /\ op = [op EXCEPT ![t] = op[t]]
      /\ Sound(copy[t].members) /\ \A k \in Tokens : tokens[k] # "none" => Founded
      /\ \A k \in Tokens : copy[t].tokens[k] # "none" => Founded
      /\ admitted \subseteq admitted
  BY DEF Typed, ThreadType, Listed, ListInv, FoundedInv
<1>1. CASE ReceiveJoin(t)
  <2>1. PICK m \in inbox : Takes(t, "join", m)
    BY <1>1 DEF ReceiveJoin
  <2>2. m \in Tasks /\ [tokens |-> tokens, members |-> {}] \in Copies
    BY <2>1, RecordTypes DEF Typed, NetworkType
  <2>3. GoesOn(t, "validate", m, [tokens |-> tokens, members |-> {}])
    BY <1>1, <2>1 DEF ReceiveJoin, Takes, ReadsTokens, GoesTo, GoesOn
  <2> QED BY <1>0, <2>2, <2>3, ReadListed, GoesListed DEF Steps
<1>2. CASE RejectJoin(t)
  <2>1. Fits("validate", op[t])
    BY <1>2 DEF RejectJoin, Typed, ThreadType
  <2>2. op[t].token \in Tokens
    BY <1>0, <2>1 DEF Fits, Tasks
  <2>3. tokens' = tokens \/ \A k \in Tokens : tokens'[k] # "none" => Founded
    BY <1>0, <1>2, <2>2 DEF RejectJoin, Copies, TokenFile
  <2>4. \A n \in Followers : reply'[n].members = reply[n].members \/ reply'[n].members = {}
    BY <1>2 DEF RejectJoin, Answer, Rejected, Typed, NetworkType
  <2> QED BY <1>0, <1>2, <2>3, <2>4, EndsListed DEF RejectJoin
<1>3. CASE AcceptToken(t)
  <2>1. Fits("validate", op[t])
    BY <1>3 DEF AcceptToken, Typed, ThreadType
  <2>2. op[t].token \in Tokens
    BY <1>0, <2>1 DEF Fits, Tasks
  <2>3. Founded
    BY <1>0, <1>3, <2>2 DEF AcceptToken, Usable
  <2>4. \A u \in Threads : /\ u # t => pc'[u] = pc[u] /\ copy'[u] = copy[u]
                           /\ u = t => pc'[u] = "certify" /\ copy'[u] = EmptyCopy
    BY <1>3 DEF AcceptToken, GoesTo, Typed, ThreadType
  <2>5. ListInv'
    BY <1>3, <2>4, ReadListed DEF AcceptToken, Listed, ListInv, Sound
  <2>6. FoundedInv'
    BY <1>3, <2>3, <2>4, ReadListed DEF AcceptToken, Listed, FoundedInv, Founded
  <2> QED BY <2>5, <2>6 DEF Listed
<1>4. CASE IssueCertificate(t)
  <2>1. Leader \in members[Leader] /\ op[t].from \in admitted
    BY <1>4 DEF IssueCertificate, Listed, ListInv, FoundedInv, Founded
  <2>2. [tokens |-> EmptyCopy.tokens, members |-> members[Leader]] \in Copies
    BY RecordTypes DEF Typed
  <2>3. GoesOn(t, "admit", op[t], [tokens |-> EmptyCopy.tokens, members |-> members[Leader]])
    BY <1>0, <1>4 DEF IssueCertificate, ReadsMembers, GoesTo, GoesOn
  <2> QED BY <1>0, <2>1, <2>2, <2>3, ReadListed, GoesListed DEF Steps
<1>5. CASE AdmitMember(t)
  <2> DEFINE list == copy[t].members \cup {op[t].from}
  <2>1. Sound(list) /\ Leader \in list
    BY <1>0, <1>5 DEF AdmitMember, Listed, ListInv, Sound
  <2>2. \A n \in Followers : reply'[n].members = reply[n].members \/ reply'[n].members = list
    BY <1>5 DEF AdmitMember, Answer, Accepted, Typed, NetworkType
  <2> QED BY <1>0, <1>5, <2>1, <2>2, EndsListed DEF AdmitMember
<1> QED BY <1>1, <1>2, <1>3, <1>4, <1>5 DEF JoinStep

(* A leave removes a server other than the leader.                          *)
LEMMA LeaveListed ==
  ASSUME Typed, Listed, NEW t \in Threads, LeaveStep(t) \/ Abort(t)
  PROVE  Listed'
<1> USE DEF files, clock, network, history
<1>0. /\ copy[t] \in Copies /\ op[t] \in Tasks
      /\ Sound(copy[t].members) /\ \A k \in Tokens : tokens[k] # "none" => Founded
      /\ admitted \subseteq admitted
  BY DEF Typed, ThreadType, Listed, ListInv, FoundedInv
<1>1. CASE ReceiveLeave(t)
  <2>1. PICK m \in inbox : Takes(t, "leave", m)
    BY <1>1 DEF ReceiveLeave
  <2>2. m \in Tasks /\ [tokens |-> EmptyCopy.tokens, members |-> members[Leader]] \in Copies
    BY <2>1, RecordTypes DEF Typed, NetworkType
  <2>3. GoesOn(t, "remove", m, [tokens |-> EmptyCopy.tokens, members |-> members[Leader]])
    BY <1>1, <2>1 DEF ReceiveLeave, Takes, ReadsMembers, GoesTo, GoesOn
  <2> QED BY <1>0, <2>2, <2>3, ReadListed, GoesListed DEF Steps
<1>2. CASE RejectLeave(t)
  <2>1. \A n \in Followers : reply'[n].members = reply[n].members \/ reply'[n].members = {}
    BY <1>2 DEF RejectLeave, Answer, Rejected, Typed, NetworkType
  <2> QED BY <1>0, <1>2, <2>1, ReadListed, EndsListed DEF RejectLeave
<1>3. CASE RemoveMember(t)
  <2> DEFINE list == copy[t].members \ {op[t].from}
  <2>1. op[t].from \in Followers /\ op[t].from # Leader
    BY <1>0, <1>3, ServerAssumption
    DEF RemoveMember, Typed, ThreadType, Fits, Tasks, Message, LocalRequest
  <2>2. Sound(list) /\ Leader \in list
    BY <1>0, <1>3, <2>1 DEF RemoveMember, Sound
  <2>3. \A n \in Followers : reply'[n].members = reply[n].members \/ reply'[n].members = {}
    BY <1>3 DEF RemoveMember, Answer, Accepted, Typed, NetworkType
  <2> QED BY <1>0, <1>3, <2>2, <2>3, EndsListed DEF RemoveMember
<1>4. CASE Abort(t)
  BY <1>0, <1>4, EndsListed DEF Abort
<1> QED BY <1>1, <1>2, <1>3, <1>4 DEF LeaveStep

(* A follower's own operation changes its own list and its own answer.      *)
LEMMA FollowerListed ==
  ASSUME Typed, Listed, NEW n \in Followers, UNCHANGED <<copy, pc, tokens, admitted>>,
         \A t \in Threads : op'[t] = op[t] \/ (op'[t] = Deaf(op[t]) /\ op[t].kind # "local"),
         NEW list, Sound(list),
         members' = members \/ members' = [members EXCEPT ![n] = list],
         reply' = reply \/ reply' = [reply EXCEPT ![n] = NoReply]
  PROVE  Listed'
<1>1. \A t \in Threads : op'[t].from = op[t].from \/ pc[t] \notin {"certify", "admit"}
  BY DeafType DEF Typed, ThreadType, Fits
<1>2. \A s \in Servers : members'[s] = members[s] \/ members'[s] = list
  BY DEF Typed, FileType
<1>3. members'[Leader] = members[Leader]
  BY ServerAssumption DEF Typed, FileType, Servers
<1>4. \A f \in Followers : reply'[f].members = reply[f].members \/ reply'[f].members = {}
  BY DEF Typed, NetworkType, NoReply
<1>5. ListInv'
  BY <1>1, <1>2, <1>4 DEF Listed, ListInv, Sound
<1>6. FoundedInv'
  BY <1>3 DEF Listed, FoundedInv, Founded
<1> QED BY <1>5, <1>6 DEF Listed

(* A follower writes the list of an answer, removes its own entry, or       *)
(* clears its list.                                                         *)
LEMMA ClientListed ==
  ASSUME Typed, Listed, NEW n \in Followers,
         \/ CreateSetupCode(n) \/ CodeExpires(n) \/ DeleteOwnEntry(n)
         \/ \E k \in Tokens : JoinExistingCluster(n, k) \/ JoinWithSetupCode(n, k)
         \/ Apply(n) \/ Leave(n) \/ Refused(n) \/ GivesUp(n)
  PROVE  Listed'
<1> USE DEF files, clock, threads, network, history
<1>0. /\ Sound({}) /\ Sound(reply[n].members) /\ Sound(members[n])
      /\ \A t \in Threads : op[t] = op[t]
  BY DEF Listed, ListInv, Sound, Servers
<1>1. CASE CreateSetupCode(n)
  BY <1>1, ListUnchanged DEF CreateSetupCode
<1>2. CASE CodeExpires(n)
  BY <1>2, ListUnchanged DEF CodeExpires
<1>3. CASE DeleteOwnEntry(n)
  <2> DEFINE list == members[n] \ {n}
  <2>1. Sound(list)
    BY <1>0, ServerAssumption DEF Sound
  <2>2. members' = [members EXCEPT ![n] = list]
    BY <1>3 DEF DeleteOwnEntry
  <2> QED BY <1>3, <2>1, <2>2, FollowerListed DEF DeleteOwnEntry
<1>4. CASE \E k \in Tokens : JoinExistingCluster(n, k) \/ JoinWithSetupCode(n, k)
  BY <1>4, ListUnchanged DEF JoinExistingCluster, JoinWithSetupCode
<1>5. CASE ApplyState(n)
  BY <1>5, ListUnchanged DEF ApplyState
<1>6. CASE ApplyMembers(n)
  BY <1>0, <1>6, FollowerListed DEF ApplyMembers
<1>7. CASE InstallCertificate(n) \/ RemoveClusterDir(n) \/ Refused(n)
  BY <1>0, <1>7, FollowerListed DEF InstallCertificate, RemoveClusterDir, Refused, Done
<1>8. CASE LeaveLocalCluster(n) \/ RemoveCredentials(n)
  BY <1>8, ListUnchanged DEF LeaveLocalCluster, RemoveCredentials
<1>9. CASE GivesUp(n)
  <2>1. \A t \in Threads : op'[t] = op[t] \/ (op'[t] = Deaf(op[t]) /\ op[t].kind # "local")
    BY <1>9 DEF GivesUp
  <2> QED BY <1>0, <1>9, <2>1, FollowerListed DEF GivesUp, Done
<1> QED BY <1>1, <1>2, <1>3, <1>4, <1>5, <1>6, <1>7, <1>8, <1>9 DEF Apply, Leave

(* Nobody waits for an answer to server n any more.                         *)
NoneWaits(n) ==
  /\ \A m \in inbox : Waits(m) => m.from # n
  /\ \A t \in Threads : Waits(op[t]) => op[t].from # n

(* No request to wait for is added, and whoever changes its place in its    *)
(* call, or has its answer, is waited for nowhere.                          *)
LEMMA CallShrinks ==
  ASSUME Typed, CallInv,
         \A m \in inbox' : Waits(m) => m \in inbox,
         \A t \in Threads : Waits(op'[t]) => op'[t] = op[t],
         \A n \in Followers :
           (client'[n] = client[n] /\ reply'[n].here = reply[n].here) \/ NoneWaits(n)'
  PROVE  CallInv'
<1>1. /\ \A m \in inbox' : Waits(m) => m.from \in Followers
      /\ \A t \in Threads : Waits(op'[t]) => op'[t].from \in Followers
  BY DEF Typed, NetworkType, ThreadType, Waits, Message, Tasks, LocalRequest
<1>2. \A m : Waits(m) /\ m.from \in Followers /\ ~NoneWaits(m.from)' /\ AwaitedBy(m) => AwaitedBy(m)'
  BY DEF AwaitedBy
<1>3. \A m \in inbox' : Waits(m) => AwaitedBy(m)'
  BY <1>1, <1>2 DEF CallInv, NoneWaits
<1>4. \A t \in Threads : Waits(op'[t]) => AwaitedBy(op[t])'
  BY <1>1, <1>2 DEF CallInv, NoneWaits
<1> QED BY <1>3, <1>4 DEF CallInv, Waits, AwaitedBy

(* One call that is waited for: nobody else waits for the same server.      *)
LEMMA TheOnlyOne ==
  ASSUME Typed, CallInv, NEW t \in Threads, Waits(op[t]), op' = [op EXCEPT ![t] = LocalRequest],
         inbox' = inbox, NEW n, n = op[t].from
  PROVE  NoneWaits(n)'
<1>1. \A u \in Threads : op'[u] = IF u = t THEN LocalRequest ELSE op[u]
  BY DEF Typed, ThreadType
<1>2. ~Waits(LocalRequest)
  BY DEF Waits, LocalRequest
<1>3. \A m \in inbox' : Waits(m) => m.from # n
  BY DEF CallInv
<1>4. \A u \in Threads : Waits(op'[u]) => op'[u].from # n
  BY <1>1, <1>2 DEF CallInv
<1> QED BY <1>3, <1>4 DEF NoneWaits, Waits

(* A server that has its answer, or waits for none, is waited for nowhere.  *)
LEMMA NotInCall ==
  ASSUME Typed, CallInv, NEW n \in Followers,
         reply[n].here \/ client[n] \notin {"joining", "leaving"}
  PROVE  NoneWaits(n)
BY DEF Typed, CallInv, NoneWaits, AwaitedBy, Waits

(* What a server is entitled to does not change with the others' steps.     *)
LEMMA AnswerKept ==
  ASSUME AnswerInv, NEW n \in Followers, client'[n] = client[n], reply'[n] = reply[n],
         members'[n] = members[n], n \in removed => n \in removed'
  PROVE  Entitled(n)'
BY DEF AnswerInv, Entitled

(* A thread ends without an answer, or goes on with the request it has.     *)
LEMMA SilentCall ==
  ASSUME Typed, CallInv, AnswerInv, NEW t \in Threads,
         UNCHANGED <<client, inbox, reply, removed>>,
         op' = op \/ op' = [op EXCEPT ![t] = LocalRequest],
         NEW list, members' = members \/ members' = [members EXCEPT ![Leader] = list]
  PROVE  CallInv' /\ AnswerInv'
<1>1. \A u \in Threads : op'[u] = op[u] \/ ~Waits(op'[u])
  BY DEF Typed, ThreadType, Waits, LocalRequest
<1>2. CallInv'
  BY <1>1, CallShrinks
<1>3. \A n \in Followers : members'[n] = members[n]
  BY ServerAssumption DEF Typed, FileType, Servers
<1>4. AnswerInv'
  BY <1>3, AnswerKept DEF AnswerInv
<1> QED BY <1>2, <1>4

(* A thread ends with an answer.                                            *)
LEMMA AnswerCall ==
  ASSUME Typed, CallInv, AnswerInv, NEW t \in Threads, Ends(t), op[t].kind # "local",
         UNCHANGED <<client, inbox>>, NEW r, r \in Replies, r.here, Answer(op[t], r),
         op[t].kind = "join" /\ r.ok => op[t].from \in r.members,
         op[t].kind = "leave" /\ r.ok /\ op[t].waits => op[t].from \in removed',
         removed \subseteq removed',
         NEW list, members' = members \/ members' = [members EXCEPT ![Leader] = list]
  PROVE  CallInv' /\ AnswerInv'
<1>0. /\ op[t].from \in Followers /\ op[t].kind \in {"join", "leave"}
      /\ op' = [op EXCEPT ![t] = LocalRequest]
  BY DEF Typed, ThreadType, Tasks, Message, LocalRequest, Ends
<1>1. \A u \in Threads : op'[u] = op[u] \/ ~Waits(op'[u])
  BY <1>0 DEF Typed, ThreadType, Waits, LocalRequest
<1>2. \A n \in Followers : reply'[n] = reply[n] \/ (n = op[t].from /\ Waits(op[t]) /\ reply'[n] = r)
  BY <1>0 DEF Answer, Waits, Typed, NetworkType
<1>3. CallInv'
  <2>1. \A n \in Followers : n = op[t].from /\ Waits(op[t]) => NoneWaits(n)'
    BY <1>0, TheOnlyOne
  <2> QED BY <1>1, <1>2, <2>1, CallShrinks
<1>4. \A n \in Followers : members'[n] = members[n]
  BY ServerAssumption DEF Typed, FileType, Servers
<1>5. ASSUME NEW n \in Followers
      PROVE  Entitled(n)'
  <2>1. CASE reply'[n] = reply[n]
    BY <1>4, <2>1, AnswerKept
  <2>2. CASE n = op[t].from /\ Waits(op[t]) /\ reply'[n] = r
    <3>1. client[n] = IF op[t].kind = "join" THEN "joining" ELSE "leaving"
      BY <2>2 DEF CallInv, AwaitedBy
    <3> QED BY <1>0, <2>2, <3>1 DEF Entitled, Waits
  <2> QED BY <1>2, <2>1, <2>2
<1> QED BY <1>3, <1>5 DEF AnswerInv

(* A request goes from the network to a thread.                             *)
LEMMA TakeCall ==
  ASSUME Typed, CallInv, AnswerInv, NEW t \in Threads, NEW m, NEW kind, Takes(t, kind, m),
         UNCHANGED <<client, reply, removed, members>>
  PROVE  CallInv' /\ AnswerInv'
<1>1. m \in inbox /\ inbox' = inbox \ {m}
  BY DEF Takes
<1>2. \A u \in Threads : op'[u] = IF u = t THEN m ELSE op[u]
  BY DEF Takes, Typed, ThreadType
<1>3. CallInv'
  BY <1>1, <1>2 DEF CallInv, AwaitedBy, Waits
<1>4. AnswerInv'
  BY AnswerKept DEF AnswerInv
<1> QED BY <1>3, <1>4

(* The leader's threads.                                                    *)
LEMMA ThreadCall ==
  ASSUME Typed, CallInv, AnswerInv, NEW t \in Threads,
         AdminStep(t) \/ JoinStep(t) \/ LeaveStep(t) \/ Abort(t)
  PROVE  CallInv' /\ AnswerInv'
<1> USE DEF files, network, history
<1>0. op[t] \in Tasks /\ Fits(pc[t], op[t]) /\ copy[t] \in Copies
  BY DEF Typed, ThreadType
<1>1. CASE \/ InitializeState(t) \/ CreateJoinToken(t) \/ ReadMembers(t)
           \/ IssueCertificate(t) \/ AcceptToken(t)
  BY <1>1, SilentCall
  DEF InitializeState, CreateJoinToken, ReadMembers, IssueCertificate, AcceptToken
<1>2. CASE InitializeMembers(t) \/ WriteMembers(t) \/ Abort(t)
  BY <1>2, SilentCall DEF InitializeMembers, WriteMembers, Abort, Ends
<1>3. ASSUME NEW k \in Tokens, IssueJoinToken(t, k)
      PROVE  CallInv' /\ AnswerInv'
  BY <1>3, SilentCall DEF IssueJoinToken, Ends
<1>4. CASE ReceiveJoin(t) \/ ReceiveLeave(t)
  BY <1>4, TakeCall DEF ReceiveJoin, ReceiveLeave
<1>5. CASE RejectJoin(t) \/ RejectLeave(t)
  <2>1. op[t].kind # "local" /\ Rejected.here /\ ~Rejected.ok
    BY <1>0, <1>5 DEF RejectJoin, RejectLeave, Fits, Rejected
  <2> QED BY <1>5, <2>1, AnswerCall, RecordTypes DEF RejectJoin, RejectLeave
<1>6. CASE AdmitMember(t)
  <2> DEFINE list == copy[t].members \cup {op[t].from}
  <2>1. op[t].kind = "join" /\ op[t].from \in Followers
    BY <1>0, <1>6 DEF AdmitMember, Fits, Tasks, Message, LocalRequest
  <2>2. list \in SUBSET Servers
    BY <1>0, <2>1 DEF Copies, Servers
  <2>3. Accepted(list) \in Replies /\ Accepted(list).here /\ Accepted(list).members = list
    BY <2>2, RecordTypes DEF Accepted
  <2> QED BY <1>6, <2>1, <2>3, AnswerCall DEF AdmitMember
<1>7. CASE RemoveMember(t)
  <2>1. op[t].kind = "leave"
    BY <1>0, <1>7 DEF RemoveMember, Fits
  <2>2. Accepted({}) \in Replies /\ Accepted({}).here
    BY RecordTypes DEF Accepted
  <2> QED BY <1>7, <2>1, <2>2, AnswerCall DEF RemoveMember
<1> QED BY <1>1, <1>2, <1>3, <1>4, <1>5, <1>6, <1>7 DEF AdminStep, JoinStep, LeaveStep

(* A follower sends a request: nobody waited for it before.                 *)
LEMMA SendCall ==
  ASSUME Typed, CallInv, AnswerInv, NEW n \in Followers, NEW kind, NEW k, NEW step,
         Sends(n, kind, k, step),
         <<kind, step>> \in {<<"join", "joining">>, <<"leave", "leaving">>},
         UNCHANGED <<op, reply, removed, members>>
  PROVE  CallInv' /\ AnswerInv'
<1> DEFINE r == [kind |-> kind, from |-> n, token |-> k, waits |-> TRUE]
<1>1. NoneWaits(n) /\ ~reply[n].here
  BY NotInCall DEF Sends, AnswerInv, Entitled
<1>2. r.from = n /\ r.kind = kind /\ inbox' = inbox \cup {r}
  BY DEF Sends
<1>3. \A f \in Followers : client'[f] = IF f = n THEN step ELSE client[f]
  BY DEF Sends, Typed, NetworkType
<1> HIDE DEF r
<1>4. \A m : m \in inbox \/ (\E t \in Threads : m = op[t]) => (Waits(m) => m.from \in Followers)
  BY DEF Typed, NetworkType, ThreadType, Waits, Message, Tasks, LocalRequest
<1>5. CallInv'
  BY <1>1, <1>2, <1>3, <1>4 DEF CallInv, NoneWaits, AwaitedBy, Waits
<1>6. \A f \in Followers : Entitled(f)'
  <2> TAKE f \in Followers
  <2>1. CASE f = n
    BY <1>1, <1>3, <2>1 DEF AnswerInv, Entitled
  <2>2. CASE f # n
    BY <1>3, <2>2, AnswerKept
  <2> QED BY <2>1, <2>2
<1> QED BY <1>5, <1>6 DEF AnswerInv

(* A follower goes on in its call, or ends it, and nobody waits for it.     *)
LEMMA MoveCall ==
  ASSUME Typed, CallInv, NEW n \in Followers, NoneWaits(n)',
         \A m \in inbox' : Waits(m) => m \in inbox,
         \A t \in Threads : Waits(op'[t]) => op'[t] = op[t],
         \A f \in Followers : f # n => client'[f] = client[f] /\ reply'[f] = reply[f]
  PROVE  CallInv'
BY CallShrinks

(* A call ends, with nobody waiting for it.                                 *)
LEMMA DoneCall ==
  ASSUME Typed, CallInv, AnswerInv, NEW n \in Followers, Done(n), NoneWaits(n)',
         \A m \in inbox' : Waits(m) => m \in inbox,
         \A t \in Threads : Waits(op'[t]) => op'[t] = op[t],
         NEW list, members' = members \/ members' = [members EXCEPT ![n] = list]
  PROVE  CallInv' /\ AnswerInv'
<1>1. /\ \A f \in Followers : f # n => client'[f] = client[f] /\ reply'[f] = reply[f]
                                       /\ members'[f] = members[f]
                                       /\ (f \in removed => f \in removed')
      /\ client'[n] = "idle" /\ reply'[n] = NoReply
  BY DEF Done, Typed, NetworkType, FileType, Servers
<1>2. CallInv'
  BY <1>1, MoveCall
<1>3. Entitled(n)'
  BY <1>1 DEF Entitled, NoReply
<1> QED BY <1>1, <1>2, <1>3, AnswerKept DEF AnswerInv

(* Steps of a follower keep calls and answers matched.                      *)
LEMMA ClientCall ==
  ASSUME Typed, CallInv, AnswerInv, NEW n \in Followers,
         \/ CreateSetupCode(n) \/ CodeExpires(n) \/ DeleteOwnEntry(n)
         \/ \E k \in Tokens : JoinExistingCluster(n, k) \/ JoinWithSetupCode(n, k)
         \/ Apply(n) \/ Leave(n) \/ Refused(n) \/ GivesUp(n)
  PROVE  CallInv' /\ AnswerInv'
<1> USE DEF files, clock, threads, network, history
<1>0. /\ Entitled(n) /\ reply[n].ok \in BOOLEAN
      /\ \A f \in Followers : f # n => [members EXCEPT ![n] = {}][f] = members[f]
  BY DEF AnswerInv, Typed, NetworkType, Replies, FileType, Servers
<1>1. CASE CreateSetupCode(n) \/ CodeExpires(n)
  <2>1. UNCHANGED <<members, op, client, inbox, reply, removed>>
    BY <1>1 DEF CreateSetupCode, CodeExpires
  <2>2. AnswerInv'
    BY <2>1, AnswerKept DEF AnswerInv
  <2> QED BY <2>1, <2>2, CallShrinks
<1>2. CASE DeleteOwnEntry(n)
  <2>1. UNCHANGED <<op, client, inbox, reply, removed>>
    BY <1>2 DEF DeleteOwnEntry
  <2>2. client[n] = "idle" /\ \A f \in Followers : f # n => members'[f] = members[f]
    BY <1>2 DEF DeleteOwnEntry, Typed, FileType, Servers
  <2>3. AnswerInv'
    <3>1. Entitled(n)'
      BY <1>0, <2>1, <2>2 DEF Entitled
    <3> QED BY <2>1, <2>2, <3>1, AnswerKept DEF AnswerInv
  <2> QED BY <2>1, <2>3, CallShrinks
<1>3. ASSUME NEW k \in Tokens, JoinExistingCluster(n, k) \/ JoinWithSetupCode(n, k)
      PROVE  CallInv' /\ AnswerInv'
  <2>1. /\ Sends(n, "join", k, "joining")
        /\ op' = op /\ reply' = reply /\ removed' = removed /\ members' = members
    BY <1>3 DEF JoinExistingCluster, JoinWithSetupCode
  <2> QED BY <2>1, SendCall
<1>4. CASE LeaveLocalCluster(n)
  BY <1>4, SendCall DEF LeaveLocalCluster
<1>5. CASE ApplyState(n) \/ ApplyMembers(n) \/ RemoveCredentials(n)
  <2>1. /\ \A f \in Followers : f # n => client'[f] = client[f] /\ members'[f] = members[f]
        /\ UNCHANGED <<op, inbox, reply, removed>>
    BY <1>5 DEF ApplyState, ApplyMembers, RemoveCredentials, Typed, NetworkType, FileType, Servers
  <2>2. NoneWaits(n)
    BY <1>0, <1>5, NotInCall DEF ApplyState, ApplyMembers, RemoveCredentials, Entitled
  <2>3. CallInv'
    BY <2>1, <2>2, MoveCall DEF NoneWaits
  <2>4. Entitled(n)'
    <3>1. CASE ApplyState(n)
      BY <1>0, <2>1, <3>1 DEF ApplyState, Entitled, Typed, NetworkType
    <3>2. CASE ApplyMembers(n)
      <4>1. client'[n] = "installing" /\ members'[n] = reply[n].members
        BY <3>2 DEF ApplyMembers, Typed, NetworkType, FileType, Servers
      <4> QED BY <1>0, <2>1, <3>2, <4>1 DEF ApplyMembers, Entitled
    <3>3. CASE RemoveCredentials(n)
      BY <1>0, <2>1, <3>3 DEF RemoveCredentials, Entitled, Typed, NetworkType
    <3> QED BY <1>5, <3>1, <3>2, <3>3
  <2> QED BY <2>1, <2>3, <2>4, AnswerKept DEF AnswerInv
<1>6. CASE InstallCertificate(n) \/ RemoveClusterDir(n) \/ Refused(n)
  <2>1. NoneWaits(n) /\ UNCHANGED <<inbox, op>> /\ Done(n)
    BY <1>0, <1>6, NotInCall DEF InstallCertificate, RemoveClusterDir, Refused, Entitled
  <2>2. NoneWaits(n)'
    BY <2>1 DEF NoneWaits
  <2>3. members' = members \/ members' = [members EXCEPT ![n] = {}]
    BY <1>6 DEF InstallCertificate, RemoveClusterDir, Refused
  <2> QED BY <2>1, <2>2, <2>3, DoneCall
<1>7. CASE GivesUp(n)
  <2>1. \A m \in inbox' : (m \in inbox /\ m.from # n) \/ (~Waits(m) /\ m.from = n)
    <3>1. \A m \in inbox : m \in Tasks /\ m.kind # "local"
      BY DEF Typed, NetworkType, Message
    <3> QED BY <1>7, <3>1, DeafType DEF GivesUp, Waits
  <2>2. \A t \in Threads : \/ op'[t] = op[t] /\ (op[t].kind = "local" \/ op[t].from # n)
                           \/ ~Waits(op'[t])
    <3>1. \A t \in Threads : op[t] \in Tasks
      BY DEF Typed, ThreadType
    <3> QED BY <1>7, <3>1, DeafType DEF GivesUp, Waits
  <2>3. NoneWaits(n)'
    BY <2>1, <2>2 DEF NoneWaits, Waits
  <2>4. Done(n) /\ members' = members
    BY <1>7 DEF GivesUp
  <2> QED BY <2>1, <2>2, <2>3, <2>4, DoneCall
<1> QED BY <1>1, <1>2, <1>3, <1>4, <1>5, <1>6, <1>7 DEF Apply, Leave

(* The inductive invariant.                                                 *)
IInv == TypeOK /\ ListInv /\ FoundedInv /\ CallInv /\ AnswerInv

(* Every step preserves the invariant.                                      *)
LEMMA IInvStep == IInv /\ [Next]_vars => IInv'
<1> SUFFICES ASSUME IInv, [Next]_vars
             PROVE  IInv'
  OBVIOUS
<1>0. Typed /\ Listed /\ CallInv /\ AnswerInv /\ TypeOK'
  BY TypeParts, TypeStep DEF IInv, Typed, Listed
<1>1. ASSUME NEW t \in Threads, AdminStep(t) \/ JoinStep(t) \/ LeaveStep(t) \/ Abort(t)
      PROVE  Listed' /\ CallInv' /\ AnswerInv'
  BY <1>0, <1>1, AdminListed, JoinListed, LeaveListed, ThreadCall
<1>2. ASSUME NEW n \in Followers,
             \/ CreateSetupCode(n) \/ CodeExpires(n) \/ DeleteOwnEntry(n)
             \/ \E k \in Tokens : JoinExistingCluster(n, k) \/ JoinWithSetupCode(n, k)
             \/ Apply(n) \/ Leave(n) \/ Refused(n) \/ GivesUp(n)
      PROVE  Listed' /\ CallInv' /\ AnswerInv'
  BY <1>0, <1>2, ClientListed, ClientCall
<1>3. ASSUME UNCHANGED <<members, reply, copy, pc, op, tokens, admitted, client, inbox, removed>>
      PROVE  Listed' /\ CallInv' /\ AnswerInv'
  <2>1. Listed'
    BY <1>0, <1>3, ListUnchanged
  <2>2. CallInv'
    BY <1>0, <1>3, CallShrinks
  <2>3. AnswerInv'
    BY <1>0, <1>3, AnswerKept DEF AnswerInv
  <2> QED BY <2>1, <2>2, <2>3
<1>4. ASSUME NEW k \in Tokens, TokenExpires(k)
      PROVE  Listed' /\ CallInv' /\ AnswerInv'
  BY <1>3, <1>4 DEF TokenExpires, files, threads, network, history
<1>5. ASSUME UNCHANGED vars
      PROVE  Listed' /\ CallInv' /\ AnswerInv'
  BY <1>3, <1>5 DEF vars, files, threads, network, history
<1>6. Listed' /\ CallInv' /\ AnswerInv'
  BY <1>1, <1>2, <1>4, <1>5 DEF Next
<1> QED BY <1>0, <1>6 DEF IInv, Listed

(* The invariant holds in every state.                                      *)
LEMMA IInvHolds == Spec => []IInv
<1>1. Init => IInv
  BY TypeInit, ListInit DEF IInv
<1> QED BY <1>1, IInvStep, PTL DEF Spec

(* ListedWasAdmitted: no interleaving of joins, leaves, probes and lost     *)
(* answers lists a server that had no join token accepted (members.json as  *)
(* accept_join_request, remove_member and apply_join_response write it).    *)
THEOREM ListedAreAdmitted == Spec => []ListedWasAdmitted
<1>1. IInv => ListedWasAdmitted
  BY DEF IInv, ListInv, Sound, ListedWasAdmitted
<1> QED BY <1>1, IInvHolds, PTL

(* ViewsAreSound: every server that counts itself a member knows the        *)
(* leader, and is in the list that apply_join_response has just written.    *)
THEOREM SoundViews == Spec => []ViewsAreSound
<1>1. IInv => ViewsAreSound
  BY DEF IInv, ListInv, AnswerInv, Entitled, Sound, Initialized, ViewsAreSound
<1> QED BY <1>1, IInvHolds, PTL

(* LeaveIsConfirmed: leave_local_cluster deletes the cluster state only     *)
(* after the leader has removed the server in answer to this very call.     *)
THEOREM ConfirmedLeave == Spec => LeaveIsConfirmed
<1> DEFINE Confirmed == \A n \in Followers : n \in state /\ n \notin state' => n \in removed
<1>1. IInv /\ [Next]_vars => Confirmed
  <2> SUFFICES ASSUME IInv, [Next]_vars, NEW n \in Followers, n \in state, n \notin state'
               PROVE  n \in removed
    OBVIOUS
  <2> USE DEF files
  <2>1. \A t \in Threads : AdminStep(t) \/ JoinStep(t) \/ LeaveStep(t) \/ Abort(t) => FALSE
    BY DEF AdminStep, InitializeState, InitializeMembers, CreateJoinToken, IssueJoinToken,
           ReadMembers, WriteMembers, JoinStep, ReceiveJoin, RejectJoin, AcceptToken,
           IssueCertificate, AdmitMember, LeaveStep, ReceiveLeave, RejectLeave, RemoveMember, Abort
  <2>2. \A f \in Followers : CreateSetupCode(f) \/ CodeExpires(f) \/ DeleteOwnEntry(f) => FALSE
    BY DEF CreateSetupCode, CodeExpires, DeleteOwnEntry
  <2>3. \A f \in Followers, k \in Tokens : JoinExistingCluster(f, k) \/ JoinWithSetupCode(f, k) => FALSE
    BY DEF JoinExistingCluster, JoinWithSetupCode
  <2>4. \A f \in Followers : Apply(f) \/ LeaveLocalCluster(f) \/ RemoveCredentials(f)
                               \/ Refused(f) \/ GivesUp(f) => FALSE
    BY DEF Apply, ApplyState, ApplyMembers, InstallCertificate, LeaveLocalCluster,
           RemoveCredentials, Refused, GivesUp
  <2>5. \A k \in Tokens : TokenExpires(k) => FALSE
    BY DEF TokenExpires
  <2>6. UNCHANGED vars => FALSE
    BY DEF vars
  <2>7. \E f \in Followers : RemoveClusterDir(f)
    BY <2>1, <2>2, <2>3, <2>4, <2>5, <2>6 DEF Next, Leave
  <2>8. PICK f \in Followers : RemoveClusterDir(f)
    BY <2>7
  <2>9. f = n /\ client[n] = "cleaning"
    BY <2>8 DEF RemoveClusterDir
  <2> QED BY <2>9 DEF IInv, AnswerInv, Entitled
<1>2. IInv /\ [Next]_vars => [Confirmed]_vars
  BY <1>1
<1> QED BY <1>2, IInvHolds, PTL DEF Spec, LeaveIsConfirmed
==============================================================================
