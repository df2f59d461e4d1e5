---------------------------- MODULE Invitations -----------------------------
(***************************************************************************)
(* Invitations, from `tinc invite` (tincctl/src/lib.rs) over the daemon    *)
(* that takes them (tincd/src/state.rs, cli.rs) to `tinc join`.  The       *)
(* directories are shared by commands and a daemon that read them at       *)
(* different times; a join may be cut off between any two steps.  An       *)
(* administrator runs one command at a time.  The handshake that seals the *)
(* conversation is part of its first exchange.                             *)
(***************************************************************************)
EXTENDS Integers, Sequences, SequencesExt, FiniteSets, FiniteSetsExt, Removal

CONSTANTS
    Joiner,         \* the directories into which somebody may join, not 0
    Invitee,        \* the names that may be invited
    Settings,       \* what the inviter may have configured
    MaxInvites, MaxStarts, MaxReloads, MaxAges, MaxCuts

VARIABLES
    settings,       \* [server, host, added, expire] of the inviter
    inviter,        \* [key, files, hosts, loaded, known, keys] of the inviter
    urls,           \* the invitations handed out, [key, cookie]
    joins,          \* each joiner's command and directory
    conns,          \* its connection, as the daemon sees it
    spent,          \* the cookies for which data was sent, in order
    budget          \* what may still happen

inviteVars == <<settings, inviter, urls, joins, conns, spent, budget>>

Spend(what) == budget[what] > 0 /\ budget' = [budget EXCEPT ![what] = @ - 1]

-----------------------------------------------------------------------------
(* Lines of configuration files, [var, val], and what VARIABLES says of    *)
(* some of them.                                                           *)
Line(var, val) == [var |-> var, val |-> val]
Separator == Line("#-", "")
Flags == [Name |-> {"server"}, ConnectTo |-> {"server", "safe"}, Mode |-> {"server", "safe"},
          Broadcast |-> {"server", "safe"}, Proxy |-> {"server"}, Port |-> {"host"},
          Address |-> {"host"}, Subnet |-> {"host", "safe"}]
Inviter == "inviter"
ThePort == "its port"

(* The line that separates the parts of an invitation is a comment, which  *)
(* the inviter's own files do not have.                                    *)
ASSUME SettingsAssumption ==
    \A s \in Settings : \A seq \in {s.server, s.host, s.added} :
        seq \in Seq(ToSet(seq)) /\ Separator \notin ToSet(seq)

(* Joiners are told from 0, the key of a host that is not there.           *)
ASSUME JoinerAssumption == 0 \notin Joiner

(* build_invitation_body, with what the script invitation-created adds.    *)
ModeLines == {l \in ToSet(settings.server) : l.var \in {"Mode", "Broadcast"}}
HostLines == [i \in DOMAIN settings.host |->
                 IF settings.host[i].var = "Port" THEN Line("Port", ThePort) ELSE settings.host[i]]
BuildInvitationBody(n) ==
    <<Line("Name", n), Line("ConnectTo", Inviter)>>
    \o AllBut(settings.server, ToSet(settings.server) \ ModeLines) \o settings.added
    \o <<Separator, Line("Name", Inviter)>> \o HostLines

(* split_invitation_chunks, invitation_chunk_name: where the lines of the  *)
(* chunk are that follows the p-th line, and the name it gives.            *)
Chunk(body, p) == {i \in DOMAIN body : i > p /\ \A k \in p + 1 .. i : body[k] # Separator}
Named(body, p) == {i \in Chunk(body, p) : body[i].var = "Name"}
ChunkName(body, p) == body[Min(Named(body, p))].val

(* finalize_join_data_inner: what it makes of the invitation.              *)
Takes(l, force) == l.var \in DOMAIN Flags /\ l.var # "Name" /\ ("safe" \in Flags[l.var] \/ force)
Finalized(body, force) ==
    LET own == {body[i] : i \in Chunk(body, 0)}
        taken == {l \in own : Takes(l, force)}
        up == {l \in own : l.var \in {"Ifconfig", "Route"}}
    IN  [name |-> ChunkName(body, 0),
         server |-> {l \in taken : "host" \notin Flags[l.var]},
         host |-> {l \in taken : "host" \in Flags[l.var]},
         up |-> up, enabled |-> up = {} \/ force,
         peers |-> {[name |-> ChunkName(body, p),
                     lines |-> {body[i] : i \in Chunk(body, p) \ Named(body, p)}] :
                       p \in {i \in DOMAIN body : body[i] = Separator /\ Named(body, i) # {}}}]

(* The files it writes, in this order; then the key is sent.               *)
Writes == <<"tinc.conf", "host", "private key", "invitation-data", "tinc-up", "peers">>
NoConfig == [name |-> "", server |-> {}, host |-> {}, up |-> {}, enabled |-> FALSE, peers |-> {}]

-----------------------------------------------------------------------------
Idle == [phase |-> "idle", url |-> [key |-> 0, cookie |-> 0], force |-> FALSE,
         config |-> NoConfig, key |-> 0, written |-> 0]
NoConn == [phase |-> "none", name |-> "", in |-> <<>>, out |-> <<>>]
ExpiredForTool(f) == f.age >= 2
ExpiredForDaemon(f) == f.age >= settings.expire

(* run_invite_command with cleanup_expired_invitations and read_or_create_ *)
(* invitation_key: the key goes when no invitation needs it.               *)
Invite(n) ==
    /\ inviter.hosts[n] = 0 /\ Spend("invites")
    /\ LET kept == {f \in inviter.files : f.used \/ ~ExpiredForTool(f)}
           active == {f \in kept : ~f.used}
           renewed == active = {} \/ inviter.key = 0
           key == IF renewed THEN inviter.keys + 1 ELSE inviter.key
           cookie == Cardinality(urls) + 1
           file == [cookie |-> cookie, key |-> key, age |-> 0, used |-> FALSE, name |-> n]
       IN  /\ inviter' = [inviter EXCEPT !.files = kept \union {file}, !.key = key,
                                         !.keys = IF renewed THEN key ELSE @]
           /\ urls' = urls \union {[key |-> key, cookie |-> cookie]}
    /\ UNCHANGED <<settings, joins, conns, spent>>

Age ==
    /\ Spend("ages")
    /\ \E f \in inviter.files :
          /\ f.age < 2
          /\ inviter' = [inviter EXCEPT !.files = (@ \ {f}) \union {[f EXCEPT !.age = @ + 1]}]
    /\ UNCHANGED <<settings, urls, joins, conns, spent>>

(* enable_invitations and the keys of the hosts, at a reload.              *)
Reload ==
    /\ Spend("reloads")
    /\ inviter' = [inviter EXCEPT !.loaded = inviter.key, !.known = inviter.hosts]
    /\ UNCHANGED <<settings, urls, joins, conns, spent>>

(* The daemon starts again: every connection is gone.                      *)
Restart ==
    /\ Spend("reloads")
    /\ inviter' = [inviter EXCEPT !.loaded = inviter.key, !.known = inviter.hosts]
    /\ conns' = [j \in Joiner |-> [conns[j] EXCEPT !.phase = "closed", !.in = <<>>]]
    /\ UNCHANGED <<settings, urls, joins, spent>>

-----------------------------------------------------------------------------
SetJoin(j, new) == joins' = [joins EXCEPT ![j] = new]
SetConn(j, new) == conns' = [conns EXCEPT ![j] = new]
FailJoin(j) == [joins[j] EXCEPT !.phase = "failed"]
Answered(j, what) == [conns[j] EXCEPT !.in = Tail(@), !.out = Append(@, what)]
CloseConn(j) == SetConn(j, [conns[j] EXCEPT !.phase = "closed", !.in = <<>>])
Record(what, value) == [what |-> what, value |-> value]

(* run_join_command: with a directory or net named on the command line an  *)
(* existing tinc.conf ends it at once.                                     *)
StartJoin(j, url, given, force) ==
    /\ joins[j].phase \in {"idle", "failed"} /\ Spend("starts")
    /\ ~(given /\ joins[j].written > 0)
    /\ SetJoin(j, [joins[j] EXCEPT !.phase = "hello", !.url = url, !.force = force])
    /\ SetConn(j, [NoConn EXCEPT !.phase = "pending", !.in = <<Record("hello", 0)>>])
    /\ UNCHANGED <<settings, inviter, urls, spent>>

(* handle_pending_invitation_id                                            *)
HandleHello(j) ==
    /\ conns[j].phase = "pending" /\ conns[j].in # <<>>
    /\ IF inviter.loaded = 0 THEN CloseConn(j)
       ELSE SetConn(j, [Answered(j, Record("key", inviter.loaded)) EXCEPT !.phase = "cookie"])
    /\ UNCHANGED <<settings, inviter, urls, joins, spent, budget>>

(* read_runtime_invitation_file: the file is renamed before anything else  *)
(* is looked at, so that nobody else finds it.                             *)
Found(cookie) == {f \in inviter.files : f.cookie = cookie /\ f.key = inviter.loaded /\ ~f.used}
TakeFileKeeps(f) ==
    inviter' = [inviter EXCEPT !.files =
                  IF ExpiredForDaemon(f) THEN (@ \ {f}) \union {[f EXCEPT !.used = TRUE]} ELSE @]
TakeFile(f) ==
    inviter' = [inviter EXCEPT !.files =
                  (@ \ {f}) \union (IF ExpiredForDaemon(f) THEN {[f EXCEPT !.used = TRUE]} ELSE {})]

HandleCookie(j) ==
    /\ conns[j].phase \in {"cookie", "key"} /\ conns[j].in # <<>> /\ Head(conns[j].in).what = "cookie"
    /\ LET cookie == Head(conns[j].in).value
       IN  IF conns[j].phase = "key" \/ inviter.loaded = 0 \/ Found(cookie) = {}
           THEN CloseConn(j) /\ UNCHANGED <<inviter, spent>>
           ELSE \E f \in Found(cookie) :
                  /\ TakeFile(f)
                  /\ IF ExpiredForDaemon(f) THEN CloseConn(j) /\ UNCHANGED spent
                     ELSE /\ spent' = Append(spent, cookie)
                          /\ SetConn(j, [Answered(j, Record("data", BuildInvitationBody(f.name)))
                                           EXCEPT !.phase = "key", !.name = f.name])
    /\ UNCHANGED <<settings, urls, joins, budget>>

(* accept_runtime_invitation_public_key creates the file of the host, and  *)
(* accept_invited_peer makes the key known.                                *)
AcceptsName(n) == inviter.hosts[n] = 0
HandleKey(j) ==
    /\ conns[j].phase \in {"cookie", "key"} /\ conns[j].in # <<>> /\ Head(conns[j].in).what = "public key"
    /\ LET n == conns[j].name
           key == Head(conns[j].in).value
       IN  IF conns[j].phase = "key" /\ inviter.loaded # 0 /\ AcceptsName(n)
           THEN /\ inviter' = [inviter EXCEPT !.hosts[n] = key, !.known[n] = key]
                /\ SetConn(j, [Answered(j, Record("done", 0)) EXCEPT !.phase = "closed"])
           ELSE CloseConn(j) /\ UNCHANGED inviter
    /\ UNCHANGED <<settings, urls, joins, spent, budget>>

-----------------------------------------------------------------------------
(* accept_invitation, one record after the other.                          *)
Consumed(j) == [conns[j] EXCEPT !.out = Tail(@)]
Sends(j, what) == [Consumed(j) EXCEPT !.in = IF conns[j].phase = "closed" THEN @ ELSE Append(@, what)]
Reads(j, phase, what) ==
    /\ joins[j].phase = phase /\ conns[j].out # <<>> /\ Head(conns[j].out).what = what

ReadKey(j) ==
    /\ Reads(j, "hello", "key")
    /\ IF Head(conns[j].out).value = joins[j].url.key
       THEN /\ SetJoin(j, [joins[j] EXCEPT !.phase = "cookie"])
            /\ SetConn(j, Sends(j, Record("cookie", joins[j].url.cookie)))
       ELSE SetJoin(j, FailJoin(j)) /\ SetConn(j, NoConn)
    /\ UNCHANGED <<settings, inviter, urls, spent, budget>>

(* The data is complete: what was joined before must not be overwritten.   *)
ReadData(j) ==
    /\ Reads(j, "cookie", "data")
    /\ LET body == Head(conns[j].out).value
       IN  IF joins[j].written > 0
           THEN SetJoin(j, FailJoin(j)) /\ SetConn(j, NoConn)
           ELSE /\ SetJoin(j, [joins[j] EXCEPT !.phase = "write",
                                               !.config = Finalized(body, joins[j].force)])
                /\ SetConn(j, Consumed(j))
    /\ UNCHANGED <<settings, inviter, urls, spent, budget>>

Write(j) ==
    /\ joins[j].phase = "write" /\ joins[j].written < Len(Writes)
    /\ SetJoin(j, [joins[j] EXCEPT !.written = @ + 1,
                     !.key = IF Writes[joins[j].written + 1] = "private key" THEN j ELSE @])
    /\ UNCHANGED <<settings, inviter, urls, conns, spent, budget>>

SendKey(j) ==
    /\ joins[j].phase = "write" /\ joins[j].written = Len(Writes)
    /\ SetJoin(j, [joins[j] EXCEPT !.phase = "sent"])
    /\ SetConn(j, [conns[j] EXCEPT !.in = IF conns[j].phase = "closed" THEN @
                                          ELSE Append(@, Record("public key", joins[j].key))])
    /\ UNCHANGED <<settings, inviter, urls, spent, budget>>

ReadDone(j) ==
    /\ Reads(j, "sent", "done")
    /\ SetJoin(j, [joins[j] EXCEPT !.phase = "joined"]) /\ SetConn(j, NoConn)
    /\ UNCHANGED <<settings, inviter, urls, spent, budget>>

(* The end of the stream, or five seconds without an answer.               *)
Waiting(j) == joins[j].phase \in {"hello", "cookie", "sent"}
EndOfFile(j) ==
    /\ Waiting(j) /\ conns[j].phase = "closed" /\ conns[j].out = <<>>
    /\ SetJoin(j, FailJoin(j)) /\ SetConn(j, NoConn)
    /\ UNCHANGED <<settings, inviter, urls, spent, budget>>

(* The command is killed or gives up; the daemon still reads what it sent. *)
Abort(j) ==
    /\ joins[j].phase \in {"hello", "cookie", "write", "sent"} /\ Spend("cuts")
    /\ SetJoin(j, FailJoin(j))
    /\ SetConn(j, [conns[j] EXCEPT !.out = <<>>])
    /\ UNCHANGED <<settings, inviter, urls, spent>>

(* The daemon times the connection out, or the network cuts it.            *)
Cut(j) ==
    /\ conns[j].phase \in {"pending", "cookie", "key"} /\ Spend("cuts")
    /\ CloseConn(j)
    /\ UNCHANGED <<settings, inviter, urls, joins, spent>>

InviteInit ==
    /\ settings \in Settings
    /\ inviter = [key |-> 0, files |-> {}, hosts |-> [n \in Invitee |-> 0], loaded |-> 0,
                  known |-> [n \in Invitee |-> 0], keys |-> 0]
    /\ urls = {} /\ spent = <<>>
    /\ joins = [j \in Joiner |-> Idle] /\ conns = [j \in Joiner |-> NoConn]
    /\ budget = [invites |-> MaxInvites, starts |-> MaxStarts, reloads |-> MaxReloads,
                 ages |-> MaxAges, cuts |-> MaxCuts]

InviteNext ==
    \/ \E n \in Invitee : Invite(n)
    \/ Age \/ Reload \/ Restart
    \/ \E j \in Joiner :
        \/ \E url \in urls, given \in BOOLEAN, force \in BOOLEAN : StartJoin(j, url, given, force)
        \/ HandleHello(j) \/ HandleCookie(j) \/ HandleKey(j)
        \/ ReadKey(j) \/ ReadData(j) \/ Write(j) \/ SendKey(j) \/ ReadDone(j)
        \/ EndOfFile(j) \/ Abort(j) \/ Cut(j)

InviteSpec == InviteInit /\ [][InviteNext]_inviteVars

-----------------------------------------------------------------------------
(* Invariant: an invitation is good for one node, however many try it and  *)
(* whatever is cut off (the rename in read_runtime_invitation_file).       *)
UsedOnce == \A a, b \in DOMAIN spent : spent[a] = spent[b] => a = b

(* Invariant: who was told that it has joined is known to the daemon and   *)
(* in its files by the name and the key it has, and the key of any host    *)
(* is one that some joiner holds (accept_runtime_invitation_public_key).   *)
JoinedIsKnown ==
    /\ \A j \in Joiner :
         LET n == joins[j].config.name
         IN  joins[j].phase = "joined" =>
               /\ inviter.hosts[n] = joins[j].key /\ inviter.known[n] = joins[j].key
               /\ joins[j].written = Len(Writes)
    /\ \A n \in Invitee : inviter.hosts[n] # 0 =>
         \E j \in Joiner : joins[j].key = inviter.hosts[n] /\ joins[j].config.name = n

(* Invariant: the configuration a joiner ends up with connects it to the   *)
(* inviter, in the inviter's mode, with the inviter's host file and the    *)
(* port it really has; unless forced it takes nothing unsafe from the      *)
(* invitation and runs nothing that came with it (finalize_join_data_inner)*)
JoinedConfigFits ==
    \A j \in Joiner : joins[j].phase \in {"write", "sent", "joined"} =>
        LET c == joins[j].config
            unsafe == {l \in c.server \union c.host : "safe" \notin Flags[l.var]}
        IN  /\ c.name \in Invitee
            /\ Line("ConnectTo", Inviter) \in c.server
            /\ ModeLines \subseteq c.server
            /\ \E p \in c.peers :
                 /\ p.name = Inviter
                 /\ \A l \in ToSet(settings.host) :
                      \/ l.var = "Name" \/ l \in p.lines
                      \/ l.var = "Port" /\ Line("Port", ThePort) \in p.lines
            /\ ~joins[j].force => unsafe = {} /\ ~(c.enabled /\ c.up # {})

(* Invariant: an invitation is used at most once; who joined with it is    *)
(* known to the inviter under the name and key it has, and its files are   *)
(* what the inviter sent and may be taken from it.                         *)
InvitationsHold == UsedOnce /\ JoinedIsKnown /\ JoinedConfigFits
=============================================================================
