--------------------------- MODULE ClientService ----------------------------
(***************************************************************************)
(* The HTTP server: the acceptor, a ClientService for each connection and  *)
(* what HttpManager does with a request, on the threads of the reactor.    *)
(* A request is the pieces it may come in, the first line in three: what   *)
(* a cut before the end of the method's name, or after it, leaves.         *)
(***************************************************************************)
EXTENDS Naturals, FiniteSets, SequencesExt

CONSTANTS
    Clients,     \* each has one connection
    Threads,     \* of the reactor
    Requests,    \* the requests a client may make
    MaxRequests, \* bound: requests of a client
    Pipelining,  \* a client does not wait for the answer to the last
    MaxStalls,   \* bound: clients that stop reading
    MaxFailures, \* bound: accept() fails
    FileNames    \* of uploads

\* body: pieces of content; lines: there is a header at all; close: the protocol is HTTP/1.0;
\* file: the part's file name, of an upload, and whether it may overwrite.
RequestTypes ==
    [method : {"POST", "GET", "PUT"}, lines : BOOLEAN, body : Nat, close : BOOLEAN,
     file : FileNames \cup {""}, overwrite : BOOLEAN]

ASSUME ClientAssumption ==
    /\ Threads \in Nat \ {0}
    /\ \A r \in Requests : r \in RequestTypes /\ (~r.lines => r.body = 0)
    /\ MaxRequests \in Nat
    /\ Pipelining \in BOOLEAN /\ MaxStalls \in Nat /\ MaxFailures \in Nat
    /\ IsFiniteSet(Clients) /\ "" \notin FileNames

VARIABLES
    acceptor, failures,
    conn,        \* by client
    sent,        \* its requests so far
    wire,        \* the pieces on their way, then perhaps End
    rawReq_,     \* of its ClientService
    stage,       \* where the thread in its handle_input() is, if there is one
    req,         \* what was parsed
    status,      \* of the response
    stalled,     \* clients that do not read
    files,       \* contents by name, of those there are: whose pieces
    mixed,       \* history: names of files that several uploads had open at once
    handled,     \* history: what was done for it, in order
    answers,     \* what it has received
    cut          \* history: its requests whose first line came in two reads

serverVars == <<acceptor, failures>>
httpVars == <<serverVars, conn, sent, wire, rawReq_, stage, req, status, stalled, files, mixed, handled, answers, cut>>

Piece(k, part) == [of |-> k, part |-> part]
End == Piece(0, "end")

\* The pieces of the k-th request.  Without a header line, only an empty line follows the first.
Pieces(k, r) ==
    <<Piece(k, "me"), Piece(k, "thod"), Piece(k, "target"),
      Piece(k, IF r.lines THEN "headers" ELSE "blank")>>
    \o [i \in 1..r.body |-> Piece(k, "body")]

NoRequest == [of |-> 0, method |-> "", body |-> <<>>]
Parts == {"me", "thod", "target", "headers", "blank", "body"}
AllPieces == [of : 1..MaxRequests, part : Parts]
Parsed == [of : 0..MaxRequests, method : {"", "POST", "GET", "PUT"}, body : Seq(AllPieces)]
HttpTypeOK ==
    /\ acceptor \in {"open", "closed"} /\ failures \in 0..MaxFailures
    /\ conn \in [Clients -> {"none", "waiting", "open", "closed"}]
    /\ sent \in [Clients -> Seq(Requests)] /\ \A c \in Clients : Len(sent[c]) <= MaxRequests
    /\ wire \in [Clients -> Seq(AllPieces \cup {End})]
    /\ rawReq_ \in [Clients -> Seq(AllPieces)]
    /\ stage \in [Clients -> {"idle", "handling", "opening", "writing", "sending"}]
    /\ Cardinality({c \in Clients : stage[c] # "idle"}) <= Threads
    /\ req \in [Clients -> Parsed] /\ status \in [Clients -> {200, 303, 500}]
    /\ stalled \subseteq Clients
    /\ DOMAIN files \subseteq FileNames /\ \A f \in DOMAIN files : files[f] \in Seq(Clients)
    /\ mixed \subseteq FileNames /\ handled \in [Clients -> Seq(Parsed)]
    /\ answers \in [Clients -> Seq([of : 1..MaxRequests, status : {200, 303, 500}])]
    /\ cut \in [Clients -> SUBSET (1..MaxRequests)]

HttpInit ==
    /\ acceptor = "open" /\ failures = 0
    /\ conn = [c \in Clients |-> "none"]
    /\ sent = [c \in Clients |-> <<>>] /\ wire = [c \in Clients |-> <<>>]
    /\ rawReq_ = [c \in Clients |-> <<>>] /\ stage = [c \in Clients |-> "idle"]
    /\ req = [c \in Clients |-> NoRequest] /\ status = [c \in Clients |-> 200]
    /\ stalled = {} /\ files = [f \in {} |-> <<>>] /\ mixed = {}
    /\ handled = [c \in Clients |-> <<>>] /\ answers = [c \in Clients |-> <<>>]
    /\ cut = [c \in Clients |-> {}]

-----------------------------------------------------------------------------
(* The clients.                                                            *)

Connect(c) ==
    /\ conn[c] = "none" /\ acceptor = "open"
    /\ conn' = [conn EXCEPT ![c] = "waiting"]
    /\ UNCHANGED <<serverVars, sent, wire, rawReq_, stage, req, status, stalled, files, mixed, handled, answers, cut>>

HungUp(c) == wire[c] # <<>> /\ Last(wire[c]) = End

\* A client that does not pipeline awaits each answer.
Ask(c, r) ==
    /\ conn[c] \in {"waiting", "open"} /\ ~HungUp(c)
    /\ Len(sent[c]) < MaxRequests
    /\ Pipelining \/ Len(answers[c]) = Len(sent[c])
    /\ sent' = [sent EXCEPT ![c] = Append(@, r)]
    /\ wire' = [wire EXCEPT ![c] = @ \o Pieces(Len(sent[c]) + 1, r)]
    /\ UNCHANGED <<serverVars, conn, rawReq_, stage, req, status, stalled, files, mixed, handled, answers, cut>>

HangUp(c) ==
    /\ conn[c] \in {"waiting", "open"} /\ ~HungUp(c)
    /\ wire' = [wire EXCEPT ![c] = Append(@, End)]
    /\ UNCHANGED <<serverVars, conn, sent, rawReq_, stage, req, status, stalled, files, mixed, handled, answers, cut>>

Stall(c) ==
    /\ c \notin stalled /\ Cardinality(stalled) < MaxStalls
    /\ stalled' = stalled \cup {c}
    /\ UNCHANGED <<serverVars, conn, sent, wire, rawReq_, stage, req, status, files, mixed, handled, answers, cut>>

-----------------------------------------------------------------------------
(* ClientAcceptor::handle_input().                                         *)

ThreadFree == Cardinality({c \in Clients : stage[c] # "idle"}) < Threads

Accept(c) ==
    /\ ThreadFree /\ acceptor = "open" /\ conn[c] = "waiting"
    /\ conn' = [conn EXCEPT ![c] = "open"]
    /\ UNCHANGED <<serverVars, sent, wire, rawReq_, stage, req, status, stalled, files, mixed, handled, answers, cut>>

\* The -1 it returns has the reactor call handle_close(), which closes the listening socket,
\* and with it the connections that wait.
AcceptFails ==
    /\ ThreadFree /\ acceptor = "open" /\ failures < MaxFailures
    /\ \E c \in Clients : conn[c] = "waiting"
    /\ failures' = failures + 1 /\ acceptor' = "closed"
    /\ conn' = [c \in Clients |-> IF conn[c] = "waiting" THEN "closed" ELSE conn[c]]
    /\ UNCHANGED <<sent, wire, rawReq_, stage, req, status, stalled, files, mixed, handled, answers, cut>>

-----------------------------------------------------------------------------
(* HttpRequest::parse().                                                   *)

PartsOf(raw) == [i \in DOMAIN raw |-> raw[i].part]

\* The octets up to the first end of line are a request line, or look like one: what is left
\* of the method's name is capital letters too.
LineLen(raw) ==
    IF IsPrefix(<<"me", "thod", "target">>, PartsOf(raw)) THEN 3
    ELSE IF IsPrefix(<<"thod", "target">>, PartsOf(raw)) THEN 2
    ELSE 0

\* Where the first empty line after a header ends, the first line's own end not counted.
HeaderLen(raw) ==
    LET ends == {i \in DOMAIN raw : raw[i].part = "headers"}
    IN IF ends = {} THEN 0 ELSE CHOOSE i \in ends : \A j \in ends : i <= j

\* Mutant: the head is not left out of the count.
WholeContentOfAll(c, raw) ==
    HeaderLen(raw) > 0 /\ Len(raw) >= sent[c][raw[1].of].body

\* Mutant: one octet more is waited for.
WholeContentAndMore(c, raw) ==
    HeaderLen(raw) > 0 /\ Len(raw) - HeaderLen(raw) > sent[c][raw[1].of].body

\* isComplete_.
WholeContent(c, raw) ==
    HeaderLen(raw) > 0 /\ Len(raw) - HeaderLen(raw) >= sent[c][raw[1].of].body

\* The content, if any was announced, is all the rest.
Parse(c, raw) ==
    LET r == sent[c][raw[1].of] IN
    [of |-> raw[1].of,
     method |-> IF LineLen(raw) = 3 THEN r.method ELSE "",
     body |-> IF r.body = 0 THEN <<>> ELSE SubSeq(raw, HeaderLen(raw) + 1, Len(raw))]

-----------------------------------------------------------------------------
(* ClientService::handle_input(): the handle is suspended until it returns. *)

Closed(c) ==
    /\ conn' = [conn EXCEPT ![c] = "closed"]
    /\ wire' = [wire EXCEPT ![c] = <<>>]

\* Mutant: what recv() returns is not looked at.
EndingUnseen(c) ==
    /\ ThreadFree /\ conn[c] = "open" /\ stage[c] = "idle"
    /\ wire[c] # <<>> /\ Head(wire[c]) = End
    /\ wire' = [wire EXCEPT ![c] = <<>>] /\ rawReq_' = [rawReq_ EXCEPT ![c] = Append(@, End)]
    /\ UNCHANGED <<serverVars, conn, sent, stage, req, status, stalled, files, mixed, handled, answers, cut>>

\* recv() returns none.
Ending(c) ==
    /\ ThreadFree /\ conn[c] = "open" /\ stage[c] = "idle"
    /\ wire[c] # <<>> /\ Head(wire[c]) = End
    /\ Closed(c) /\ rawReq_' = [rawReq_ EXCEPT ![c] = <<>>]
    /\ UNCHANGED <<serverVars, sent, stage, req, status, stalled, files, mixed, handled, answers, cut>>

\* recv() of whatever has come; what parse() throws at is forgotten, the request with it.
Input(c) ==
    /\ ThreadFree /\ conn[c] = "open" /\ stage[c] = "idle"
    /\ \E n \in 1..Len(wire[c]) :
        LET read == SubSeq(wire[c], 1, n)
            raw  == rawReq_[c] \o read
        IN /\ End \notin ToSet(read)
           /\ wire' = [wire EXCEPT ![c] = SubSeq(@, n + 1, Len(@))]
           /\ cut' = [cut EXCEPT ![c] =
                  IF read[n].part \in {"me", "thod"} THEN @ \cup {read[n].of} ELSE @]
           /\ \/ /\ LineLen(raw) = 0
                 /\ rawReq_' = [rawReq_ EXCEPT ![c] = <<>>] /\ UNCHANGED <<stage, req>>
              \/ /\ LineLen(raw) > 0 /\ ~WholeContent(c, raw)
                 /\ rawReq_' = [rawReq_ EXCEPT ![c] = raw] /\ UNCHANGED <<stage, req>>
              \/ /\ LineLen(raw) > 0 /\ WholeContent(c, raw)
                 /\ rawReq_' = [rawReq_ EXCEPT ![c] = raw]
                 /\ stage' = [stage EXCEPT ![c] = "handling"]
                 /\ req' = [req EXCEPT ![c] = Parse(c, raw)]
    /\ UNCHANGED <<serverVars, conn, sent, status, stalled, files, mixed, handled, answers>>

Asked(c) == sent[c][req[c].of]

-----------------------------------------------------------------------------
(* HttpManager::handleRequest().                                           *)

Answer(c, code) ==
    stage' = [stage EXCEPT ![c] = "sending"] /\ status' = [status EXCEPT ![c] = code]

\* Every method but POST is answered at once, the unsupported ones by the response as it was
\* made; so is a call.
HandleOthers(c) ==
    /\ stage[c] = "handling" /\ ~(req[c].method = "POST" /\ Asked(c).file # "")
    /\ handled' = [handled EXCEPT ![c] = Append(@, req[c])]
    /\ Answer(c, 200)
    /\ UNCHANGED <<serverVars, conn, sent, wire, rawReq_, req, stalled, files, mixed, answers, cut>>

\* _handleUpload(): stat() of a file that may not be overwritten.
Exists(c) == Asked(c).file \in DOMAIN files /\ ~Asked(c).overwrite
HandleUpload(c) ==
    /\ stage[c] = "handling" /\ req[c].method = "POST" /\ Asked(c).file # ""
    /\ handled' = [handled EXCEPT ![c] = Append(@, req[c])]
    /\ IF Exists(c) THEN Answer(c, 500)
       ELSE stage' = [stage EXCEPT ![c] = "opening"] /\ UNCHANGED status
    /\ UNCHANGED <<serverVars, conn, sent, wire, rawReq_, req, stalled, files, mixed, answers, cut>>

\* Who is between open() and write().
Writing(f) == \E c \in Clients : stage[c] = "writing" /\ Asked(c).file = f

\* open() with O_TRUNC.
Open(c) ==
    /\ stage[c] = "opening" /\ stage' = [stage EXCEPT ![c] = "writing"]
    /\ files' = [f \in DOMAIN files \cup {Asked(c).file} |->
                   IF f = Asked(c).file THEN <<>> ELSE files[f]]
    /\ mixed' = IF Writing(Asked(c).file) THEN mixed \cup {Asked(c).file}
                ELSE mixed \ {Asked(c).file}
    /\ UNCHANGED <<serverVars, conn, sent, wire, rawReq_, req, status, stalled, handled, answers, cut>>

\* Mutant: the file is appended to.
WriteAppending(c) ==
    /\ stage[c] = "writing"
    /\ files' = [files EXCEPT ![Asked(c).file] = @ \o [i \in DOMAIN req[c].body |-> c]]
    /\ Answer(c, 303)
    /\ UNCHANGED <<serverVars, conn, sent, wire, rawReq_, req, stalled, mixed, handled, answers, cut>>

\* write() from the beginning of the file, and close().
Write(c) ==
    /\ stage[c] = "writing"
    /\ LET mine == [i \in DOMAIN req[c].body |-> c]
           old  == files[Asked(c).file]
       IN files' = [files EXCEPT ![Asked(c).file] =
                        mine \o SubSeq(old, Len(mine) + 1, Len(old))]
    /\ Answer(c, 303)
    /\ UNCHANGED <<serverVars, conn, sent, wire, rawReq_, req, stalled, mixed, handled, answers, cut>>

\* Mutant: what was read is not cleared.
RespondUncleared(c) ==
    /\ stage[c] = "sending" /\ c \notin stalled
    /\ stage' = [stage EXCEPT ![c] = "idle"]
    /\ answers' = [answers EXCEPT ![c] = IF HungUp(c) THEN @ ELSE Append(@, [of |-> req[c].of, status |-> status[c]])]
    /\ IF Asked(c).close THEN Closed(c) ELSE UNCHANGED <<conn, wire>>
    /\ req' = [req EXCEPT ![c] = NoRequest]
    /\ UNCHANGED <<serverVars, sent, rawReq_, status, stalled, files, mixed, handled, cut>>

\* send() waits for a client that does not read.  One that has hung up loses the answer.
Respond(c) ==
    /\ stage[c] = "sending" /\ c \notin stalled
    /\ stage' = [stage EXCEPT ![c] = "idle"]
    /\ answers' = [answers EXCEPT ![c] = IF HungUp(c) THEN @ ELSE Append(@, [of |-> req[c].of, status |-> status[c]])]
    /\ IF Asked(c).close THEN Closed(c) ELSE UNCHANGED <<conn, wire>>
    /\ rawReq_' = [rawReq_ EXCEPT ![c] = <<>>]
    /\ req' = [req EXCEPT ![c] = NoRequest]
    /\ UNCHANGED <<serverVars, sent, status, stalled, files, mixed, handled, cut>>

-----------------------------------------------------------------------------
Handle(c) == HandleOthers(c) \/ HandleUpload(c) \/ Open(c) \/ Write(c) \/ Respond(c)
Serve(c) == Accept(c) \/ Ending(c) \/ Input(c) \/ Handle(c)

HttpNext ==
    \/ \E c \in Clients :
        \/ Connect(c) \/ HangUp(c) \/ Stall(c) \/ \E r \in Requests : Ask(c, r)
        \/ Serve(c)
    \/ AcceptFails

HttpSpec == HttpInit /\ [][HttpNext]_httpVars

\* The reactor's threads go round what is ready, and carry on with what they have begun.
HttpFairSpec == HttpSpec /\ \A c \in Clients : WF_httpVars(Serve(c))

-----------------------------------------------------------------------------
Increasing(s) == \A i, j \in DOMAIN s : i < j => s[i].of < s[j].of

\* No request is done, or answered, twice or out of turn, however its pieces came and whatever
\* was left of the one before (ClientService::handle_input(), HttpRequest::clear()).
DoneOnce == \A c \in Clients : Increasing(handled[c]) /\ Increasing(answers[c])

\* What is done is what was asked: by the request's own method, with all of its content and
\* nothing else, unless its first line came in two reads (HttpRequest::parse()).
DoneAsAsked ==
    \A c \in Clients : \A i \in DOMAIN handled[c] :
        LET h == handled[c][i] IN
        h.of \notin cut[c] =>
            /\ h.method = sent[c][h.of].method
            /\ h.body = [b \in 1..sent[c][h.of].body |-> Piece(h.of, "body")]

\* Every request is done at most once, in turn and as it was asked.
DoneOnceAsAsked == HttpTypeOK /\ DoneOnce /\ DoneAsAsked

\* The i-th thing done for c is an upload of that name.
IsUpload(c, i, f) == i \in DOMAIN handled[c] /\ sent[c][handled[c][i].of].file = f

\* The file is one upload's content, whole,
OneUpload(f) ==
    \E c \in Clients : \E i \in DOMAIN handled[c] :
        IsUpload(c, i, f) /\ files[f] = [b \in DOMAIN handled[c][i].body |-> c]

\* or begins with that,
BeginsWhole(f) ==
    \E c \in Clients : \E i \in DOMAIN handled[c] :
        /\ IsUpload(c, i, f)
        /\ \A b \in DOMAIN handled[c][i].body : b \in DOMAIN files[f] /\ files[f][b] = c

\* and every piece is where it is in an upload of that name.
InPlace(f) ==
    \A b \in DOMAIN files[f] :
        \E i \in DOMAIN handled[files[f][b]] :
            IsUpload(files[f][b], i, f) /\ b \in DOMAIN handled[files[f][b]][i].body

\* A file that is not empty, about to be written, is one upload's content and whole; if several
\* of them had it open at once, whatever their lengths, it begins with one that is, and goes on
\* with what a longer one has in that place (HttpManager::_handleUpload()).
FilesWhole ==
    \A f \in DOMAIN files :
        \/ Writing(f) /\ files[f] = <<>>
        \/ f \notin mixed /\ OneUpload(f)
        \/ f \in mixed /\ BeginsWhole(f) /\ InPlace(f)

\* A file is one upload's content and whole, but for the moment it is written.
NeverMixed == \A f \in DOMAIN files : Writing(f) \/ OneUpload(f)

\* A file that was there is replaced only on request: no upload that was not to overwrite does
\* so, however late its open() comes after its stat().
ReplacedOnRequest ==
    [][\A c \in Clients : Open(c) /\ Asked(c).file \in DOMAIN files => Asked(c).overwrite]_httpVars

\* Every client that goes on reading has its request answered, unless the first line came in
\* two reads or no header follows it (ClientService::handle_input(), on the reactor's threads
\* of which some may be stuck in send()).
EveryoneAnswered ==
    \A c \in Clients :
        Len(answers[c]) < Len(sent[c]) ~>
            \/ Len(answers[c]) = Len(sent[c])
            \/ c \in stalled \/ HungUp(c) \/ conn[c] = "closed"
            \/ \E k \in DOMAIN sent[c] : k \in cut[c] \/ ~sent[c][k].lines

\* Every connection is taken on.
EveryoneAccepted == \A c \in Clients : conn[c] = "waiting" ~> conn[c] = "open"
=============================================================================
