------------------------------- MODULE UnixXfr ------------------------------
(***************************************************************************)
(* The UNIX domain stream servers us_xfr_sv.c, us_xfr_v2_sv.c and          *)
(* us_xfr_sv_57-2.c with their clients.  A server gives its socket a name, *)
(* accepts one client at a time and copies what it writes to its standard  *)
(* output.  us_xfr_sv.c removes the path first; the second version does    *)
(* not; the server of 57-02 binds a name of the abstract namespace, which  *)
(* vanishes with its socket.                                               *)
(*                                                                         *)
(* name is the server whose socket has the name.  Chunk i of client c is   *)
(* <<c, i>>: sent[c] are written, pipe[c] is what the server has not read, *)
(* out[s] the output of server s.                                          *)
(***************************************************************************)
EXTENDS Integers, Sequences

CONSTANTS Servers, Clients_xfr, Chunks, MaxKills, None

VARIABLES kind, sst, name, backlog, cfd, out, cst, peer, sent, pipe, kills
vars_xfr == <<kind, sst, name, backlog, cfd, out, cst, peer, sent, pipe, kills>>
client_xfr == <<kind, cst, peer, sent, pipe, kills>>

Init_xfr ==
  /\ kind \in {"remove", "plain", "abstract"}
  /\ sst = [s \in Servers |-> "new"] /\ name = None
  /\ backlog = [s \in Servers |-> <<>>] /\ cfd = [s \in Servers |-> None]
  /\ out = [s \in Servers |-> <<>>] /\ cst = [c \in Clients_xfr |-> "new"]
  /\ peer = [c \in Clients_xfr |-> None] /\ sent = [c \in Clients_xfr |-> 0]
  /\ pipe = [c \in Clients_xfr |-> <<>>] /\ kills = 0

-----------------------------------------------------------------------------
\* The servers.
Goes(s, from, to) == sst[s] = from /\ sst' = [sst EXCEPT ![s] = to]
RemoveName(s) == Goes(s, "new", "removed") /\ name' = None /\ UNCHANGED <<backlog, cfd, out, client_xfr>>
bind(s, from) ==
  /\ IF name = None THEN Goes(s, from, "bound") /\ name' = s
                    ELSE Goes(s, from, "failed") /\ UNCHANGED name
  /\ UNCHANGED <<backlog, cfd, out, client_xfr>>
listen(s) == Goes(s, "bound", "listen") /\ UNCHANGED <<name, backlog, cfd, out, client_xfr>>
AcceptIf(s, free) ==
  /\ sst[s] = "listen" /\ free /\ backlog[s] # <<>>
  /\ cfd' = [cfd EXCEPT ![s] = Head(backlog[s])]
  /\ backlog' = [backlog EXCEPT ![s] = Tail(@)]
  /\ UNCHANGED <<sst, name, out, client_xfr>>
\* mutant: the next client is accepted before the end of this one's data
acceptEarly(s) == AcceptIf(s, cfd[s] # None => pipe[cfd[s]] = <<>>)
accept_xfr(s) == AcceptIf(s, cfd[s] = None)
Copy(s) ==
  /\ sst[s] = "listen" /\ cfd[s] # None /\ pipe[cfd[s]] # <<>>
  /\ out' = [out EXCEPT ![s] = Append(@, Head(pipe[cfd[s]]))]
  /\ pipe' = [pipe EXCEPT ![cfd[s]] = Tail(@)]
  /\ UNCHANGED <<kind, sst, name, backlog, cfd, cst, peer, sent, kills>>
close(s) ==
  /\ sst[s] = "listen" /\ cfd[s] # None /\ pipe[cfd[s]] = <<>> /\ cst[cfd[s]] # "open"
  /\ cfd' = [cfd EXCEPT ![s] = None] /\ UNCHANGED <<sst, name, backlog, out, client_xfr>>
Serve(s) == accept_xfr(s) \/ Copy(s) \/ close(s)
unixListen(s) == bind(s, "new") \/ listen(s)
us_xfr_sv(s) == RemoveName(s) \/ bind(s, "removed") \/ listen(s) \/ Serve(s)
us_xfr_v2_sv(s) == unixListen(s) \/ Serve(s)
us_xfr_sv_57_2(s) == bind(s, "new") \/ listen(s) \/ Serve(s)
Server_xfr(s) == \/ kind = "remove" /\ us_xfr_sv(s)
                 \/ kind = "plain" /\ us_xfr_v2_sv(s)
                 \/ kind = "abstract" /\ us_xfr_sv_57_2(s)
\* A path stays when its server is gone, an abstract name does not.
Kill_xfr(s) ==
  /\ kills < MaxKills /\ kills' = kills + 1 /\ Goes(s, "listen", "dead")
  /\ name' = IF kind = "abstract" THEN None ELSE name
  /\ cfd' = [cfd EXCEPT ![s] = None] /\ backlog' = [backlog EXCEPT ![s] = <<>>]
  /\ UNCHANGED <<kind, out, cst, peer, sent, pipe>>

-----------------------------------------------------------------------------
\* The clients.
connect(c) ==
  /\ cst[c] = "new"
  /\ \/ /\ name # None /\ sst[name] = "listen"
        /\ cst' = [cst EXCEPT ![c] = "open"] /\ peer' = [peer EXCEPT ![c] = name]
        /\ backlog' = [backlog EXCEPT ![name] = Append(@, c)]
     \/ /\ name # None => sst[name] # "listen"
        /\ cst' = [cst EXCEPT ![c] = "failed"] /\ UNCHANGED <<peer, backlog>>
  /\ UNCHANGED <<kind, sst, name, cfd, out, sent, pipe, kills>>
\* write() to a server that is gone kills the client with SIGPIPE
write(c) ==
  /\ cst[c] = "open" /\ sent[c] < Chunks
  /\ IF sst[peer[c]] = "dead" THEN cst' = [cst EXCEPT ![c] = "failed"] /\ UNCHANGED <<sent, pipe>>
     ELSE /\ sent' = [sent EXCEPT ![c] = @ + 1] /\ pipe' = [pipe EXCEPT ![c] = Append(@, <<c, sent[c] + 1>>)]
          /\ UNCHANGED cst
  /\ UNCHANGED <<kind, sst, name, backlog, cfd, out, peer, kills>>
exit_xfr(c) ==
  /\ cst[c] = "open" /\ sent[c] = Chunks /\ cst' = [cst EXCEPT ![c] = "done"]
  /\ UNCHANGED <<kind, sst, name, backlog, cfd, out, peer, sent, pipe, kills>>
us_xfr_cl(c) == connect(c) \/ write(c) \/ exit_xfr(c)
us_xfr_v2_cl(c) == connect(c) \/ write(c) \/ exit_xfr(c)
us_xfr_cl_57_2(c) == connect(c) \/ write(c) \/ exit_xfr(c)
Client_xfr(c) == \/ kind = "remove" /\ us_xfr_cl(c)
                 \/ kind = "plain" /\ us_xfr_v2_cl(c)
                 \/ kind = "abstract" /\ us_xfr_cl_57_2(c)

Next_xfr == (\E s \in Servers : Server_xfr(s) \/ Kill_xfr(s)) \/ (\E c \in Clients_xfr : Client_xfr(c))
Spec_xfr == Init_xfr /\ [][Next_xfr]_vars_xfr
Fair_xfr == (\E s \in Servers : Serve(s)) \/ (\E c \in Clients_xfr : write(c) \/ exit_xfr(c))

-----------------------------------------------------------------------------
\* Types.
TypeOK_xfr ==
  /\ sst \in [Servers -> {"new", "removed", "bound", "listen", "failed", "dead"}]
  /\ name \in Servers \cup {None} /\ cfd \in [Servers -> Clients_xfr \cup {None}]
  /\ cst \in [Clients_xfr -> {"new", "open", "done", "failed"}] /\ sent \in [Clients_xfr -> 0..Chunks]

\* A server's output is the data of its clients one after the other, each
\* from its first chunk on, with nothing lost between two clients; and
\* without remove() at most one live server has the name.
OneAfterTheOther ==
  /\ \A s \in Servers : \A i \in DOMAIN out[s] :
       LET c == out[s][i][1]  k == out[s][i][2]
       IN  IF k > 1 THEN i > 1 /\ out[s][i - 1] = <<c, k - 1>>
           ELSE i > 1 => cst[out[s][i - 1][1]] \in {"done", "failed"} /\ out[s][i - 1][2] = sent[out[s][i - 1][1]]
  /\ \A s, t \in Servers : s # t /\ kind # "remove" => ~({sst[s], sst[t]} \subseteq {"bound", "listen"})

\* Whatever a client wrote to a server that stays alive is copied.
Served == \A c \in Clients_xfr : peer[c] # None =>
            sst[peer[c]] = "dead" \/ (cst[c] # "open" /\ pipe[c] = <<>>)
=============================================================================
