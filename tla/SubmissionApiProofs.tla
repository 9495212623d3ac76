------------------------- MODULE SubmissionApiProofs -------------------------
(***************************************************************************)
(* An execution id is accepted once, its 202 is true, and no submission    *)
(* takes back what a client knows, for every number of clients, ids,       *)
(* bodies, requests, lost answers and late scripts, and whatever status    *)
(* the workers write in whatever order.                                    *)
(***************************************************************************)
EXTENDS SubmissionApi, TLAPS

Results == {"accepted", "duplicate", "error"}

Answers ==
    [id : Ids, body : Bodies \cup {"none"}, code : {200, 202, 404, 409, 503},
     status : Nat, began : Nat]

Requests ==
    {NoRequest} \cup [phase : {"eval"}, command : Command, began : Nat]
                \cup [phase : {"get"}, id : Ids, began : Nat]
                \cup [phase : {"reply"}, answer : Answers]

\* The shape of the state that the steps need.
Shape ==
    /\ document \in [Ids -> [body : Bodies \cup {"none"}, status : Nat]]
    /\ stream \in Seq(Command)
    /\ request \in [Clients -> Requests]
    /\ late \subseteq Command
    /\ answers \in Seq(Answers)

InStream(command) == \E k \in DOMAIN stream : stream[k] = command

\* What is in the stream is stored, and there is one command of an id.
StreamInv ==
    /\ \A k \in DOMAIN stream :
          /\ document[stream[k].id].status # 0
          /\ document[stream[k].id].body = stream[k].body
    /\ \A m, n \in DOMAIN stream : stream[m].id = stream[n].id => m = n

\* The handler of c is about to answer 202, to this command.
Accepting(c) == request[c].phase = "reply" /\ request[c].answer.code = 202

CommandOf(a) == [id |-> a.id, body |-> a.body]

\* One handler at most is about to answer 202 for an id, nobody did before.
AcceptingInv ==
    /\ \A c \in Clients : Accepting(c) => InStream(CommandOf(request[c].answer))
    /\ \A c, d \in Clients :
          /\ Accepting(c) /\ Accepting(d)
          /\ request[c].answer.id = request[d].answer.id
          => c = d
    /\ \A c \in Clients, n \in DOMAIN answers :
          Accepting(c) /\ answers[n].code = 202
          => answers[n].id # request[c].answer.id

\* What was answered 202 is in the stream, and was answered once.
AnswersInv ==
    /\ \A n \in DOMAIN answers :
          answers[n].code = 202 => InStream(CommandOf(answers[n]))
    /\ \A m, n \in DOMAIN answers :
          /\ answers[m].code = 202 /\ answers[n].code = 202
          /\ answers[m].id = answers[n].id
          => m = n

ApiInv == Shape /\ StreamInv /\ AcceptingInv /\ AnswersInv

------------------------------------------------------------------------------
(* The script. *)

\* Submit leaves the stream alone, or appends a command of a new id.
StreamKept == stream' = stream

StreamGrows(command) ==
    /\ \A k \in DOMAIN stream : stream[k].id # command.id
    /\ stream' = Append(stream, command)

LEMMA StreamKeptOrGrown ==
    ASSUME Shape, NEW command \in Command,
           StreamKept \/ StreamGrows(command)
    PROVE  /\ stream' \in Seq(Command)
           /\ DOMAIN stream \subseteq DOMAIN stream'
           /\ \A k \in DOMAIN stream : stream'[k] = stream[k]
           /\ \A c : InStream(c) => InStream(c)'
    <1>1. stream \in Seq(Command)
          BY DEF Shape
    <1>2. CASE StreamKept
          BY <1>1, <1>2 DEF StreamKept, InStream
    <1>3. CASE StreamGrows(command)
          <2>1. stream' = Append(stream, command)
                BY <1>3 DEF StreamGrows
          <2>2. /\ stream' \in Seq(Command)
                /\ DOMAIN stream \subseteq DOMAIN stream'
                /\ \A k \in DOMAIN stream : stream'[k] = stream[k]
                BY <1>1, <2>1
          <2> QED BY <2>2 DEF InStream
    <1> QED BY <1>2, <1>3

LEMMA ScriptKeepsStream ==
    ASSUME ApiInv, NEW command \in Command, NEW result \in Results,
           Script(command, result)
    PROVE  /\ document' \in [Ids -> [body : Bodies \cup {"none"}, status : Nat]]
           /\ stream' \in Seq(Command)
           /\ StreamInv'
           /\ \A c : InStream(c) => InStream(c)'
           /\ result = "accepted" =>
                 /\ InStream(command)'
                 /\ \A k \in DOMAIN stream : stream[k].id # command.id
    <1> DEFINE id == command.id
    <1>0. Shape /\ StreamInv /\ id \in Ids /\ command.body \in Bodies
          BY DEF ApiInv, Command
    <1>1. CASE Exists(id) /\ result = "duplicate"
               /\ UNCHANGED <<document, stream>>
          BY <1>0, <1>1 DEF Shape, StreamInv, InStream
    <1>2. CASE ~Exists(id) /\ Store(command)
               /\ \/ result = "error" /\ UNCHANGED stream
                  \/ result = "accepted" /\ stream' = Append(stream, command)
          <2>1. document[id].status = 0
                BY <1>2 DEF Exists, Stored, Absent
          <2>2. \A k \in DOMAIN stream : stream[k].id # id
                BY <1>0, <2>1 DEF StreamInv
          <2>3. /\ document' \in [Ids -> [body : Bodies \cup {"none"}, status : Nat]]
                /\ document'[id] = [body |-> command.body, status |-> 1]
                /\ \A i \in Ids \ {id} : document'[i] = document[i]
                BY <1>0, <1>2 DEF Store, Shape
          <2>4. StreamKept \/ StreamGrows(command)
                BY <1>2, <2>2 DEF StreamKept, StreamGrows
          <2>5. /\ stream' \in Seq(Command)
                /\ \A c : InStream(c) => InStream(c)'
                BY <1>0, <2>4, StreamKeptOrGrown
          <2>6. \A k \in DOMAIN stream : stream[k].id \in Ids
                <3>1. \A k \in DOMAIN stream : stream[k] \in Command
                      BY <1>0 DEF Shape
                <3> QED BY <3>1 DEF Command
          <2>7. ASSUME StreamKept PROVE StreamInv'
                BY <1>0, <2>2, <2>3, <2>6, <2>7 DEF StreamInv, StreamKept
          <2>8. ASSUME StreamGrows(command) PROVE StreamInv'
                <3>1. /\ DOMAIN stream' = DOMAIN stream \cup {Len(stream) + 1}
                      /\ stream'[Len(stream) + 1] = command
                      /\ \A k \in DOMAIN stream : stream'[k] = stream[k]
                      BY <1>0, <2>8 DEF StreamGrows, Shape
                <3> QED BY <1>0, <2>2, <2>3, <2>6, <3>1 DEF StreamInv
          <2>9. StreamInv'
                BY <2>4, <2>7, <2>8
          <2>10. result = "accepted" => InStream(command)'
                <3>1. ASSUME result = "accepted" PROVE InStream(command)'
                      <4>1. stream' = Append(stream, command)
                            BY <1>2, <3>1
                      <4>2. /\ Len(stream) + 1 \in DOMAIN stream'
                            /\ stream'[Len(stream) + 1] = command
                            BY <1>0, <4>1 DEF Shape
                      <4> QED BY <4>2 DEF InStream
                <3> QED BY <3>1
          <2> QED BY <2>2, <2>3, <2>5, <2>9, <2>10
    <1> QED BY <1>1, <1>2 DEF Script
------------------------------------------------------------------------------
(* Requests and answers. *)

LEMMA RequestTypes ==
    ASSUME Shape, NEW c \in Clients
    PROVE  /\ request[c] \in Requests
           /\ request[c].phase = "eval" =>
                 request[c].command \in Command /\ request[c].began \in Nat
           /\ request[c].phase = "get" =>
                 request[c].id \in Ids /\ request[c].began \in Nat
           /\ request[c].phase = "reply" => request[c].answer \in Answers
    <1>1. request[c] \in Requests
          BY DEF Shape
    <1> QED BY <1>1 DEF Requests, NoRequest

LEMMA AnswerAppended ==
    ASSUME Shape, NEW a \in Answers, answers' = Append(answers, a)
    PROVE  /\ answers' \in Seq(Answers)
           /\ Len(answers) \in Nat /\ Len(answers') = Len(answers) + 1
           /\ DOMAIN answers = 1..Len(answers)
           /\ DOMAIN answers' = DOMAIN answers \cup {Len(answers) + 1}
           /\ Len(answers) + 1 \notin DOMAIN answers
           /\ answers'[Len(answers) + 1] = a
           /\ \A n \in DOMAIN answers : answers'[n] = answers[n]
    BY DEF Shape

\* Request of c becomes r, which is not about to be answered 202.
LEMMA RequestBecomes ==
    ASSUME Shape, NEW c \in Clients, NEW r \in Requests,
           request' = [request EXCEPT ![c] = r]
    PROVE  /\ request' \in [Clients -> Requests]
           /\ request'[c] = r
           /\ \A d \in Clients \ {c} : request'[d] = request[d]
    BY DEF Shape

\* The stream has what it had.
StreamHolds == \A command : InStream(command) => InStream(command)'

\* No handler that was not before is about to answer 202.
NothingAccepted ==
    \A c \in Clients : Accepting(c)' => Accepting(c) /\ request'[c] = request[c]

LEMMA NothingAcceptedStep ==
    ASSUME AcceptingInv, AnswersInv, StreamHolds, UNCHANGED answers,
           NothingAccepted
    PROVE  AcceptingInv' /\ AnswersInv'
    <1>1. AnswersInv'
          BY DEF AnswersInv, StreamHolds, CommandOf
    <1>2. ASSUME NEW c \in Clients, Accepting(c)'
          PROVE  InStream(CommandOf(request[c].answer))'
          <2>1. /\ request'[c] = request[c]
                /\ InStream(CommandOf(request[c].answer))
                BY <1>2 DEF NothingAccepted, AcceptingInv
          <2>2. PICK command : command = CommandOf(request[c].answer)
                OBVIOUS
          <2>3. InStream(command)'
                BY <2>1, <2>2 DEF StreamHolds
          <2> QED BY <2>1, <2>2, <2>3 DEF InStream, CommandOf
    <1>3. (\A c, d \in Clients :
              /\ Accepting(c) /\ Accepting(d)
              /\ request[c].answer.id = request[d].answer.id
              => c = d)'
          BY DEF NothingAccepted, AcceptingInv
    <1>4. (\A c \in Clients, n \in DOMAIN answers :
              Accepting(c) /\ answers[n].code = 202
              => answers[n].id # request[c].answer.id)'
          BY DEF NothingAccepted, AcceptingInv
    <1> QED BY <1>1, <1>2, <1>3, <1>4 DEF AcceptingInv
------------------------------------------------------------------------------
(* The steps. *)

LEMMA ApiInit == Init => ApiInv
    <1> SUFFICES ASSUME Init PROVE ApiInv
        OBVIOUS
    <1>1. Shape
          <2>1. Absent \in [body : Bodies \cup {"none"}, status : Nat]
                BY DEF Absent
          <2>2. NoRequest \in Requests
                BY DEF Requests
          <2> QED BY <2>1, <2>2 DEF Init, Shape
    <1>2. stream = <<>> /\ answers = <<>> /\ \A c \in Clients : ~Accepting(c)
          BY DEF Init, Accepting, NoRequest
    <1> QED BY <1>1, <1>2 DEF ApiInv, StreamInv, AcceptingInv, AnswersInv

\* Whatever writes no stream and no document, answers and accepts nothing.
LEMMA QuietStep ==
    ASSUME ApiInv, UNCHANGED <<document, stream, answers>>,
           NothingAccepted,
           request' \in [Clients -> Requests], late' \subseteq Command
    PROVE  ApiInv'
    <1>1. Shape /\ StreamInv /\ AcceptingInv /\ AnswersInv
          BY DEF ApiInv
    <1>2. StreamHolds
          BY DEF StreamHolds, InStream
    <1>3. StreamInv'
          BY <1>1 DEF StreamInv
    <1>4. AnswersInv' /\ AcceptingInv'
          BY <1>1, <1>2, NothingAcceptedStep
    <1>5. Shape'
          BY <1>1 DEF Shape
    <1> QED BY <1>3, <1>4, <1>5 DEF ApiInv

LEMMA BeginStep ==
    ASSUME ApiInv, NEW c \in Clients, NEW r \in Requests, r.phase # "reply",
           Begin(c, r)
    PROVE  ApiInv'
    <1>1. /\ request' = [request EXCEPT ![c] = r]
          /\ UNCHANGED <<document, stream, late, answers>>
          BY DEF Begin
    <1>2. Shape
          BY DEF ApiInv
    <1>3. NothingAccepted
          BY <1>1, <1>2, RequestBecomes DEF NothingAccepted, Accepting
    <1>4. request' \in [Clients -> Requests] /\ late' \subseteq Command
          BY <1>1, <1>2, RequestBecomes DEF Shape
    <1> QED BY <1>1, <1>3, <1>4, QuietStep

LEMMA Lengths == ASSUME Shape PROVE Len(answers) \in Nat
    BY DEF Shape

LEMMA PostStep ==
    ASSUME ApiInv, NEW c \in Clients, NEW command \in Command, Post(c, command)
    PROVE  ApiInv'
    <1> DEFINE r == [phase |-> "eval", command |-> command,
                     began |-> Len(answers)]
    <1>1. r \in Requests /\ r.phase # "reply"
          BY Lengths DEF Requests, ApiInv
    <1> QED BY <1>1, BeginStep DEF Post

LEMMA GetStep ==
    ASSUME ApiInv, NEW c \in Clients, NEW id \in Ids, Get(c, id)
    PROVE  ApiInv'
    <1> DEFINE r == [phase |-> "get", id |-> id, began |-> Len(answers)]
    <1>1. r \in Requests /\ r.phase # "reply"
          BY Lengths DEF Requests, ApiInv
    <1> QED BY <1>1, BeginStep DEF Get

LEMMA ReadTypes ==
    ASSUME Shape, NEW id \in Ids
    PROVE  /\ GetStatus(id) \in {200, 404, 503}
           /\ document[id].status \in Nat
           /\ document[id].body \in Bodies \cup {"none"}
    <1>1. GetStatus(id) \in {200, 404, 503}
          BY DEF GetStatus
    <1> QED BY <1>1 DEF Shape

LEMMA ReadDocumentStep ==
    ASSUME ApiInv, NEW c \in Clients, ReadDocument(c)
    PROVE  ApiInv'
    <1> DEFINE id == request[c].id
               a == [id     |-> id,
                     body   |-> document[id].body,
                     code   |-> GetStatus(id),
                     status |-> document[id].status,
                     began  |-> request[c].began]
               r == [phase |-> "reply", answer |-> a]
    <1>1. /\ request' = [request EXCEPT ![c] = r]
          /\ UNCHANGED <<document, stream, late, answers>>
          /\ request[c].phase = "get"
          BY DEF ReadDocument, Reply
    <1>2. Shape /\ id \in Ids /\ request[c].began \in Nat
          BY <1>1, RequestTypes DEF ApiInv
    <1>3. a \in Answers /\ a.code # 202
          BY <1>2, ReadTypes DEF Answers
    <1>4. r \in Requests
          BY <1>3 DEF Requests
    <1> HIDE DEF a
    <1>5. /\ request' \in [Clients -> Requests]
          /\ request'[c] = r
          /\ \A d \in Clients \ {c} : request'[d] = request[d]
          BY <1>1, <1>2, <1>4, RequestBecomes
    <1>6. NothingAccepted
          BY <1>3, <1>5 DEF NothingAccepted, Accepting
    <1>7. late' \subseteq Command
          BY <1>1, <1>2 DEF Shape
    <1> QED BY <1>1, <1>5, <1>6, <1>7, QuietStep

LEMMA StatusOfResult ==
    ASSUME NEW result \in Results
    PROVE  /\ SubmitStatus(result) \in {202, 409, 503}
           /\ SubmitStatus(result) = 202 <=> result = "accepted"
           /\ SubmitStatus(result) = 409 <=> result = "duplicate"
    <1>1. CASE result = "accepted"
          BY <1>1 DEF SubmitStatus
    <1>2. CASE result = "duplicate"
          BY <1>2 DEF SubmitStatus
    <1>3. CASE result = "error"
          BY <1>3 DEF SubmitStatus
    <1> QED BY <1>1, <1>2, <1>3 DEF Results

\* What RunScript leaves behind.
Submitted(c, command, result, a) ==
    /\ Script(command, result)
    /\ a.id = command.id /\ a.body = command.body
    /\ a.code = SubmitStatus(result)
    /\ a.status = (IF result = "error" THEN 0 ELSE 1)
    /\ a.began = request[c].began
    /\ request' = [request EXCEPT ![c] = [phase |-> "reply", answer |-> a]]

LEMMA RunScriptResult ==
    ASSUME Shape, NEW c \in Clients, RunScript(c)
    PROVE  /\ request[c].phase = "eval"
           /\ request[c].command \in Command /\ request[c].began \in Nat
           /\ \E result \in Results, a \in Answers :
                  Submitted(c, request[c].command, result, a)
           /\ UNCHANGED <<late, answers>>
    <1>1. /\ request[c].phase = "eval"
          /\ request[c].command \in Command /\ request[c].began \in Nat
          BY RequestTypes DEF RunScript
    <1> DEFINE command == request[c].command
               reply(result) ==
                   [id     |-> command.id,
                    body   |-> command.body,
                    code   |-> SubmitStatus(result),
                    status |-> IF result = "error" THEN 0 ELSE 1,
                    began  |-> request[c].began]
    <1>2. PICK result \in Results :
             Script(command, result) /\ Reply(c, reply(result))
          BY DEF RunScript, Results
    <1>3. reply(result) \in Answers
          BY <1>1, StatusOfResult DEF Answers, Command
    <1>4. Submitted(c, command, result, reply(result))
          BY <1>2 DEF Submitted, Reply
    <1> QED BY <1>1, <1>3, <1>4 DEF RunScript

LEMMA RunScriptStep ==
    ASSUME ApiInv, NEW c \in Clients, RunScript(c)
    PROVE  ApiInv'
    <1>1. Shape /\ StreamInv /\ AcceptingInv /\ AnswersInv
          BY DEF ApiInv
    <1>2. PICK command \in Command :
             command = request[c].command /\ UNCHANGED <<late, answers>>
          BY <1>1, RunScriptResult
    <1>3. PICK result \in Results, a \in Answers :
             Submitted(c, command, result, a)
          BY <1>1, <1>2, RunScriptResult
    <1>4. /\ a.id = command.id /\ a.body = command.body
          /\ a.code = 202 <=> result = "accepted"
          BY <1>3, StatusOfResult DEF Submitted
    <1> DEFINE r == [phase |-> "reply", answer |-> a]
    <1>5. /\ request' \in [Clients -> Requests]
          /\ request'[c] = r
          /\ \A d \in Clients \ {c} : request'[d] = request[d]
          <2>1. r \in Requests
                BY DEF Requests
          <2> QED BY <1>1, <1>3, <2>1, RequestBecomes DEF Submitted
    <1>6. /\ document' \in [Ids -> [body : Bodies \cup {"none"}, status : Nat]]
          /\ stream' \in Seq(Command)
          /\ StreamInv'
          /\ StreamHolds
          /\ result = "accepted" =>
                /\ InStream(command)'
                /\ \A k \in DOMAIN stream : stream[k].id # command.id
          <2>1. Script(command, result)
                BY <1>3 DEF Submitted
          <2> QED BY <1>2, <2>1, ScriptKeepsStream DEF StreamHolds
    <1>7. Shape'
          BY <1>1, <1>2, <1>5, <1>6 DEF Shape
    <1>8. AcceptingInv' /\ AnswersInv'
          <2>1. CASE result # "accepted"
                <3>1. NothingAccepted
                      BY <1>4, <1>5, <2>1 DEF NothingAccepted, Accepting
                <3> QED BY <1>1, <1>2, <1>6, <3>1, NothingAcceptedStep
          <2>2. CASE result = "accepted"
                <3>1. \A k \in DOMAIN stream : stream[k].id # command.id
                      BY <1>6, <2>2
                <3>2. \A d \in Clients \ {c} :
                         Accepting(d)' => /\ Accepting(d)
                                          /\ request[d].answer.id # command.id
                      BY <1>1, <1>5, <3>1
                      DEF Accepting, AcceptingInv, InStream, CommandOf
                <3>3. \A n \in DOMAIN answers :
                         answers[n].code = 202 => answers[n].id # command.id
                      BY <1>1, <3>1 DEF AnswersInv, InStream, CommandOf
                <3>4. (\A d \in Clients : Accepting(d) =>
                          InStream(CommandOf(request[d].answer)))'
                      <4>1. CommandOf(request[c].answer)' = command
                            BY <1>2, <1>4, <1>5 DEF CommandOf, Command
                      <4>2. ASSUME NEW d \in Clients \ {c}, Accepting(d)'
                            PROVE  InStream(CommandOf(request[d].answer))'
                            <5>1. PICK other : other = CommandOf(request[d].answer)
                                  OBVIOUS
                            <5>2. InStream(other)
                                  BY <1>1, <3>2, <4>2, <5>1 DEF AcceptingInv
                            <5>3. InStream(other)'
                                  BY <1>6, <5>2 DEF StreamHolds
                            <5> QED BY <1>5, <5>1, <5>3 DEF InStream, CommandOf
                      <4> QED BY <1>6, <2>2, <4>1, <4>2 DEF InStream
                <3>5. (\A d, e \in Clients :
                          /\ Accepting(d) /\ Accepting(e)
                          /\ request[d].answer.id = request[e].answer.id
                          => d = e)'
                      BY <1>1, <1>4, <1>5, <3>2 DEF AcceptingInv
                <3>6. (\A d \in Clients, n \in DOMAIN answers :
                          Accepting(d) /\ answers[n].code = 202
                          => answers[n].id # request[d].answer.id)'
                      BY <1>1, <1>2, <1>4, <1>5, <3>2, <3>3 DEF AcceptingInv
                <3>7. AnswersInv'
                      BY <1>1, <1>2, <1>6 DEF AnswersInv, StreamHolds, CommandOf
                <3> QED BY <3>4, <3>5, <3>6, <3>7 DEF AcceptingInv
          <2> QED BY <2>1, <2>2
    <1> QED BY <1>6, <1>7, <1>8 DEF ApiInv

\* A request that ends takes its token with it.
LEMMA RequestEnds ==
    ASSUME Shape, NEW c \in Clients,
           request' = [request EXCEPT ![c] = NoRequest]
    PROVE  /\ request' \in [Clients -> Requests]
           /\ NothingAccepted
           /\ ~Accepting(c)'
    <1>1. NoRequest \in Requests /\ NoRequest.phase # "reply"
          BY DEF Requests, NoRequest
    <1>2. /\ request' \in [Clients -> Requests]
          /\ request'[c] = NoRequest
          /\ \A d \in Clients \ {c} : request'[d] = request[d]
          BY <1>1, RequestBecomes
    <1> QED BY <1>1, <1>2 DEF NothingAccepted, Accepting

LEMMA RespondStep ==
    ASSUME ApiInv, NEW c \in Clients, Respond(c)
    PROVE  ApiInv'
    <1>1. Shape /\ StreamInv /\ AcceptingInv /\ AnswersInv
          BY DEF ApiInv
    <1>2. /\ request[c].phase = "reply"
          /\ request' = [request EXCEPT ![c] = NoRequest]
          /\ UNCHANGED <<document, stream, late>>
          BY DEF Respond
    <1>3. /\ request' \in [Clients -> Requests] /\ late' \subseteq Command
          /\ NothingAccepted
          /\ ~Accepting(c)'
          BY <1>1, <1>2, RequestEnds DEF Shape
    <1>4. PICK a \in Answers :
             a = request[c].answer /\ answers' = Append(answers, a)
          BY <1>1, <1>2, RequestTypes DEF Respond
    <1>5. /\ answers' \in Seq(Answers)
          /\ DOMAIN answers' = DOMAIN answers \cup {Len(answers) + 1}
          /\ Len(answers) + 1 \notin DOMAIN answers
          /\ answers'[Len(answers) + 1] = a
          /\ \A n \in DOMAIN answers : answers'[n] = answers[n]
          BY <1>1, <1>4, AnswerAppended
    <1>6. StreamInv' /\ Shape'
          BY <1>1, <1>2, <1>3, <1>5 DEF StreamInv, Shape
    <1>7. a.code = 202 =>
             /\ InStream(CommandOf(a))
             /\ \A n \in DOMAIN answers :
                   answers[n].code = 202 => answers[n].id # a.id
             /\ \A d \in Clients :
                   d # c /\ Accepting(d) => request[d].answer.id # a.id
          BY <1>1, <1>2, <1>4 DEF AcceptingInv, Accepting
    <1>8. AnswersInv'
          <2>1. \A n \in DOMAIN answers' :
                   answers'[n].code = 202 => InStream(CommandOf(answers'[n]))
                BY <1>1, <1>5, <1>7 DEF AnswersInv
          <2>2. \A m, n \in DOMAIN answers' :
                   /\ answers'[m].code = 202 /\ answers'[n].code = 202
                   /\ answers'[m].id = answers'[n].id
                   => m = n
                BY <1>1, <1>5, <1>7 DEF AnswersInv
          <2> QED BY <1>2, <2>1, <2>2 DEF AnswersInv, InStream, CommandOf
    <1>9. AcceptingInv'
          <2>1. \A d \in Clients : Accepting(d)' =>
                   /\ d # c /\ Accepting(d)
                   /\ request'[d] = request[d]
                BY <1>3 DEF NothingAccepted
          <2>2. (\A d \in Clients : Accepting(d) =>
                    InStream(CommandOf(request[d].answer)))'
                BY <1>1, <1>2, <2>1 DEF AcceptingInv, InStream, CommandOf
          <2>3. (\A d, e \in Clients :
                    /\ Accepting(d) /\ Accepting(e)
                    /\ request[d].answer.id = request[e].answer.id
                    => d = e)'
                BY <1>1, <2>1 DEF AcceptingInv
          <2>4. (\A d \in Clients, n \in DOMAIN answers :
                    Accepting(d) /\ answers[n].code = 202
                    => answers[n].id # request[d].answer.id)'
                BY <1>1, <1>5, <1>7, <2>1 DEF AcceptingInv
          <2> QED BY <2>2, <2>3, <2>4 DEF AcceptingInv
    <1> QED BY <1>6, <1>8, <1>9 DEF ApiInv

LEMMA GiveUpStep ==
    ASSUME ApiInv, NEW c \in Clients, GiveUp(c)
    PROVE  ApiInv'
    <1>1. Shape
          BY DEF ApiInv
    <1>2. /\ request' = [request EXCEPT ![c] = NoRequest]
          /\ UNCHANGED <<document, stream, answers>>
          BY DEF GiveUp
    <1>3. late' \subseteq Command
          BY <1>1, RequestTypes DEF GiveUp, Shape
    <1> QED BY <1>1, <1>2, <1>3, RequestEnds, QuietStep

LEMMA LateScriptStep ==
    ASSUME ApiInv, NEW command \in late, LateScript(command)
    PROVE  ApiInv'
    <1>1. Shape /\ StreamInv /\ AcceptingInv /\ AnswersInv
          BY DEF ApiInv
    <1>2. command \in Command
          BY <1>1 DEF Shape
    <1>3. PICK result \in Results : Script(command, result)
          BY DEF LateScript, Results
    <1>4. /\ document' \in [Ids -> [body : Bodies \cup {"none"}, status : Nat]]
          /\ stream' \in Seq(Command)
          /\ StreamInv'
          /\ StreamHolds
          BY <1>2, <1>3, ScriptKeepsStream DEF StreamHolds
    <1>5. UNCHANGED <<request, answers>> /\ late' \subseteq late
          BY DEF LateScript
    <1>6. NothingAccepted
          BY <1>5 DEF NothingAccepted, Accepting
    <1>7. AnswersInv' /\ AcceptingInv'
          BY <1>1, <1>4, <1>5, <1>6, NothingAcceptedStep
    <1>8. Shape'
          BY <1>1, <1>4, <1>5 DEF Shape
    <1> QED BY <1>4, <1>7, <1>8 DEF ApiInv

LEMMA ExecuteStep ==
    ASSUME ApiInv, NEW id \in Ids, Execute(id)
    PROVE  ApiInv'
    <1>1. Shape /\ StreamInv /\ AcceptingInv /\ AnswersInv
          BY DEF ApiInv
    <1>2. UNCHANGED <<stream, request, late, answers>>
          BY DEF Execute
    <1>3. PICK status \in 2..Len(Statuses) :
             document' = [document EXCEPT ![id].status = status]
          BY DEF Execute
    <1>4. /\ document' \in [Ids -> [body : Bodies \cup {"none"}, status : Nat]]
          /\ \A i \in Ids :
                /\ document'[i].body = document[i].body
                /\ document[i].status # 0 => document'[i].status # 0
          BY <1>1, <1>3 DEF Shape, Statuses
    <1>5. \A k \in DOMAIN stream : stream[k].id \in Ids
          <2>1. \A k \in DOMAIN stream : stream[k] \in Command
                BY <1>1 DEF Shape
          <2> QED BY <2>1 DEF Command
    <1>6. StreamInv'
          BY <1>1, <1>2, <1>4, <1>5 DEF StreamInv
    <1>7. Shape' /\ AcceptingInv' /\ AnswersInv'
          BY <1>1, <1>2, <1>4
          DEF Shape, AcceptingInv, AnswersInv, Accepting, InStream, CommandOf
    <1> QED BY <1>6, <1>7 DEF ApiInv

LEMMA ApiStep == ApiInv /\ [Next]_vars => ApiInv'
    <1> SUFFICES ASSUME ApiInv, [Next]_vars PROVE ApiInv'
        OBVIOUS
    <1>1. CASE \E c \in Clients :
                  \/ \E command \in Command : Post(c, command)
                  \/ \E id \in Ids : Get(c, id)
                  \/ RunScript(c) \/ ReadDocument(c) \/ Respond(c) \/ GiveUp(c)
          BY <1>1, PostStep, GetStep, RunScriptStep, ReadDocumentStep,
             RespondStep, GiveUpStep
    <1>2. CASE \E command \in late : LateScript(command)
          BY <1>2, LateScriptStep
    <1>3. CASE \E id \in Ids : Execute(id)
          BY <1>3, ExecuteStep
    <1>4. CASE UNCHANGED vars
          BY <1>4
          DEF vars, ApiInv, Shape, StreamInv, AcceptingInv, AnswersInv,
              Accepting, InStream, CommandOf
    <1> QED BY <1>1, <1>2, <1>3, <1>4 DEF Next

------------------------------------------------------------------------------
(***************************************************************************)
(* The stream never gets two commands of one id and no two POSTs of one id *)
(* are answered 202, whatever is retried, lost or carried out late.        *)
(***************************************************************************)
THEOREM IdAcceptedOnce == Spec => []AcceptedOnce
    <1>1. ApiInv => AcceptedOnce
          BY DEF ApiInv, StreamInv, AnswersInv, AcceptedOnce
    <1> QED BY <1>1, ApiInit, ApiStep, PTL DEF Spec

(***************************************************************************)
(* A 202 means that this client's command is in the stream, and what is in *)
(* the stream is stored under its id.                                      *)
(***************************************************************************)
THEOREM AcceptedIsStored == Spec => []AnswerIsTrue
    <1>1. ApiInv => AnswerIsTrue
          <2>1. ASSUME ApiInv, NEW k \in DOMAIN stream
                PROVE  Stored(stream[k].id)
                BY <2>1 DEF ApiInv, StreamInv, Stored, Absent
          <2> QED BY <2>1 DEF ApiInv, StreamInv, AnswersInv, AnswerIsTrue,
                              InStream, CommandOf
    <1> QED BY <1>1, ApiInit, ApiStep, PTL DEF Spec

------------------------------------------------------------------------------
(* What clients know. *)

\* A stored document is one; none is stored under the name of the stream.
DocumentsOK ==
    \A id \in Ids :
        /\ Stored(id) => /\ document[id].body \in Bodies
                         /\ document[id].status \in 1..3
        /\ id \in StreamIds => ~Stored(id)

CountersOK == requests \in 0..MaxRequests /\ faults \in 0..MaxFaults

\* What an answer tells is still so.
Honest(a) ==
    /\ a.status >= 1 => Exists(a.id)
    /\ a.status >= 2 => document[a.id].status >= 2

\* An answer agrees with all that was answered before its request.
Fresh(a) ==
    /\ a.began <= Len(answers)
    /\ \A m \in DOMAIN answers :
          m <= a.began /\ answers[m].id = a.id => Agrees(answers[m], a)

Sound(a) == Honest(a) /\ Fresh(a)

Waiting(c) == request[c].phase \in {"eval", "get"}

RequestsSound ==
    \A c \in Clients :
        /\ Waiting(c) => request[c].began <= Len(answers)
        /\ request[c].phase = "reply" => Sound(request[c].answer)

AnswersSound ==
    \A n \in DOMAIN answers : Sound(answers[n]) /\ answers[n].began < n

ReadInv == DocumentsOK /\ RequestsSound /\ AnswersSound /\ CountersOK

\* Nothing stored is deleted and no status goes back to QUEUED.
DocumentsHold ==
    \A id \in Ids :
        /\ Stored(id) => Stored(id)'
        /\ document[id].status >= 2 => document'[id].status >= 2

\* One answer is given, or none.
AnswersStep ==
    \/ UNCHANGED answers
    \/ \E c \in Clients : /\ request[c].phase = "reply"
                          /\ answers' = Append(answers, request[c].answer)

\* What a step may make of the request of c.
RequestStep(c) ==
    \/ request'[c] = request[c]
    \/ request'[c] = NoRequest
    \/ Waiting(c)' /\ request'[c].began = Len(answers)
    \/ request'[c].phase = "reply" /\ Sound(request[c].answer)'

LEMMA AnswerTypes ==
    ASSUME Shape, NEW n \in DOMAIN answers
    PROVE  answers[n] \in Answers
    BY DEF Shape

LEMMA AnswersLonger ==
    ASSUME Shape, AnswersStep
    PROVE  /\ DOMAIN answers = 1..Len(answers)
           /\ DOMAIN answers' = 1..Len(answers')
           /\ Len(answers) \in Nat /\ Len(answers') \in Nat
           /\ Len(answers) <= Len(answers')
           /\ \A n \in DOMAIN answers : answers'[n] = answers[n]
    <1>1. CASE UNCHANGED answers
          BY <1>1 DEF Shape
    <1>2. ASSUME NEW c \in Clients, request[c].phase = "reply",
                 answers' = Append(answers, request[c].answer)
          PROVE  /\ DOMAIN answers = 1..Len(answers)
                 /\ DOMAIN answers' = 1..Len(answers')
                 /\ Len(answers) \in Nat /\ Len(answers') \in Nat
                 /\ Len(answers) <= Len(answers')
                 /\ \A n \in DOMAIN answers : answers'[n] = answers[n]
          <2>1. PICK a \in Answers : a = request[c].answer
                BY <1>2, RequestTypes
          <2> QED BY <1>2, <2>1, AnswerAppended
    <1> QED BY <1>1, <1>2 DEF AnswersStep

\* Documents that hold and answers that are added keep an answer sound.
LEMMA StaysSound ==
    ASSUME Shape, DocumentsHold, AnswersStep, NEW a \in Answers, Sound(a)
    PROVE  Sound(a)'
    <1>1. Honest(a)'
          <2>1. a.id \in Ids
                BY DEF Answers
          <2> QED BY <2>1 DEF Sound, Honest, DocumentsHold, Exists, Stored
    <1>2. Fresh(a)'
          <2>1. a.began \in Nat /\ a.began <= Len(answers)
                BY DEF Answers, Sound, Fresh
          <2>2. a.began <= Len(answers')
                BY <2>1, AnswersLonger
          <2>3. ASSUME NEW m \in DOMAIN answers', m <= a.began,
                       answers'[m].id = a.id
                PROVE  Agrees(answers'[m], a)
                <3>1. m \in DOMAIN answers
                      BY <2>1, <2>3, AnswersLonger
                <3>2. answers'[m] = answers[m]
                      BY <3>1, AnswersLonger
                <3> QED BY <2>3, <3>1, <3>2 DEF Sound, Fresh
          <2> QED BY <2>2, <2>3 DEF Fresh, Agrees
    <1> QED BY <1>1, <1>2 DEF Sound

(***************************************************************************)
(* A step that deletes nothing, writes QUEUED over nothing, and answers    *)
(* and makes up only sound answers.                                        *)
(***************************************************************************)
LEMMA SoundStep ==
    ASSUME Shape, Shape', ReadInv, DocumentsOK', DocumentsHold, CountersOK',
           AnswersStep, \A c \in Clients : RequestStep(c)
    PROVE  ReadInv'
    <1>1. ASSUME NEW c \in Clients
          PROVE  (Waiting(c) => request[c].began <= Len(answers))'
          <2>1. CASE request'[c] = request[c]
                <3>1. ASSUME Waiting(c) PROVE request[c].began <= Len(answers')
                      <4>1. /\ request[c].began \in Nat
                            /\ request[c].began <= Len(answers)
                            BY <3>1, RequestTypes DEF Waiting, ReadInv, RequestsSound
                      <4> QED BY <4>1, AnswersLonger
                <3> QED BY <2>1, <3>1 DEF Waiting
          <2>2. CASE request'[c] = NoRequest
                BY <2>2 DEF Waiting, NoRequest
          <2>3. CASE request'[c].began = Len(answers)
                BY <2>3, AnswersLonger
          <2>4. CASE request'[c].phase = "reply"
                BY <2>4 DEF Waiting
          <2> QED BY <2>1, <2>2, <2>3, <2>4 DEF RequestStep
    <1>2. ASSUME NEW c \in Clients, request'[c].phase = "reply"
          PROVE  Sound(request[c].answer)'
          <2>1. CASE request'[c] = request[c]
                <3>1. PICK a \in Answers : a = request[c].answer
                      BY <1>2, <2>1, RequestTypes
                <3>2. Sound(a)
                      BY <1>2, <2>1, <3>1 DEF ReadInv, RequestsSound
                <3>3. Sound(a)'
                      BY <3>2, StaysSound
                <3>4. request'[c].answer = a
                      BY <2>1, <3>1
                <3> QED BY <3>3, <3>4 DEF Sound, Honest, Fresh, Agrees
          <2>2. CASE request'[c] = NoRequest
                BY <1>2, <2>2 DEF NoRequest
          <2>3. CASE Waiting(c)'
                BY <1>2, <2>3 DEF Waiting
          <2> QED BY <1>2, <2>1, <2>2, <2>3 DEF RequestStep
    <1>3. ASSUME NEW n \in DOMAIN answers'
          PROVE  Sound(answers[n])' /\ answers'[n].began < n
          <2>1. CASE n \in DOMAIN answers
                <3>1. answers'[n] = answers[n]
                      BY <2>1, AnswersLonger
                <3>2. PICK a \in Answers : a = answers[n]
                      BY <2>1, AnswerTypes
                <3>3. Sound(a) /\ a.began < n
                      BY <2>1, <3>2 DEF ReadInv, AnswersSound
                <3>4. Sound(a)'
                      BY <3>3, StaysSound
                <3> QED BY <3>1, <3>2, <3>3, <3>4 DEF Sound, Honest, Fresh, Agrees
          <2>2. CASE n \notin DOMAIN answers
                <3>1. PICK c \in Clients :
                         /\ request[c].phase = "reply"
                         /\ answers' = Append(answers, request[c].answer)
                      BY <1>3, <2>2 DEF AnswersStep
                <3>2. PICK a \in Answers : a = request[c].answer
                      BY <3>1, RequestTypes
                <3>3. Sound(a)
                      BY <3>1, <3>2 DEF ReadInv, RequestsSound
                <3>4. Sound(a)'
                      BY <3>3, StaysSound
                <3>5. n = Len(answers) + 1 /\ answers'[n] = a /\ Len(answers) \in Nat
                      BY <1>3, <2>2, <3>1, <3>2, AnswerAppended
                <3>6. a.began \in Nat /\ a.began <= Len(answers)
                      BY <3>3 DEF Answers, Sound, Fresh
                <3> QED BY <3>4, <3>5, <3>6 DEF Sound, Honest, Fresh, Agrees
          <2> QED BY <2>1, <2>2
    <1> QED BY <1>1, <1>2, <1>3 DEF ReadInv, RequestsSound, AnswersSound

------------------------------------------------------------------------------
(* Documents. *)

LEMMA DocumentStatus ==
    ASSUME DocumentsOK, NEW id \in Ids
    PROVE  /\ document[id].status \in 0..3
           /\ Stored(id) <=> document[id].status # 0
    BY DEF DocumentsOK, Stored, Absent

LEMMA DocumentsUnchanged ==
    ASSUME DocumentsOK, UNCHANGED document
    PROVE  DocumentsOK' /\ DocumentsHold
    BY DEF DocumentsOK, DocumentsHold, Stored

LEMMA ScriptKeepsDocuments ==
    ASSUME Shape, DocumentsOK, NEW command \in Command, NEW result \in Results,
           Script(command, result)
    PROVE  /\ DocumentsOK'
           /\ DocumentsHold
           /\ result \in {"accepted", "duplicate"} => Exists(command.id)'
           /\ result = "accepted" => ~Exists(command.id)
    <1> DEFINE id == command.id
    <1>1. id \in Ids /\ command.body \in Bodies
          BY DEF Command
    <1>2. CASE UNCHANGED document /\ Exists(id) /\ result = "duplicate"
          BY <1>2, DocumentsUnchanged DEF Exists, Stored
    <1>3. CASE ~Exists(id) /\ Store(command)
          <2>1. /\ document'[id] = [body |-> command.body, status |-> 1]
                /\ \A i \in Ids \ {id} : document'[i] = document[i]
                BY <1>1, <1>3 DEF Store, Shape
          <2>2. document[id] = Absent /\ id \notin StreamIds
                BY <1>3 DEF Exists, Stored
          <2>3. document'[id] # Absent
                BY <2>1 DEF Absent
          <2>4. DocumentsOK'
                BY <1>1, <2>1, <2>2 DEF DocumentsOK, Stored
          <2>5. DocumentsHold
                BY <2>1, <2>2 DEF DocumentsHold, Stored, Absent
          <2> QED BY <1>3, <2>3, <2>4, <2>5 DEF Exists, Stored
    <1> QED BY <1>2, <1>3 DEF Script

LEMMA ExecuteKeepsDocuments ==
    ASSUME ApiInv, DocumentsOK, NEW id \in Ids, Execute(id)
    PROVE  DocumentsOK' /\ DocumentsHold
    <1>1. document[id].status # 0
          BY DEF Execute, ApiInv, StreamInv
    <1>2. /\ Stored(id)
          /\ document[id].body \in Bodies
          BY <1>1, DocumentStatus DEF DocumentsOK
    <1>3. PICK status \in 2..3 :
             document' = [document EXCEPT ![id].status = status]
          BY DEF Execute, Statuses
    <1>4. /\ document'[id].status = status
          /\ document'[id].body = document[id].body
          /\ \A i \in Ids \ {id} : document'[i] = document[i]
          BY <1>3 DEF ApiInv, Shape
    <1>5. document'[id] # Absent
          BY <1>4 DEF Absent
    <1>6. DocumentsOK'
          BY <1>2, <1>4 DEF DocumentsOK, Stored
    <1>7. DocumentsHold
          BY <1>4, <1>5 DEF DocumentsHold, Stored
    <1> QED BY <1>6, <1>7

LEMMA CountersStep ==
    ASSUME CountersOK, [Next]_vars
    PROVE  CountersOK'
    <1>1. Fault => faults' \in 0..MaxFaults
          BY ApiConstants DEF CountersOK, Fault
    <1>2. UNCHANGED faults => faults' \in 0..MaxFaults
          BY DEF CountersOK
    <1>3. requests < MaxRequests /\ requests' = requests + 1 =>
              requests' \in 0..MaxRequests
          BY ApiConstants DEF CountersOK
    <1>4. UNCHANGED requests => requests' \in 0..MaxRequests
          BY DEF CountersOK
    <1>5. ASSUME NEW command, NEW result, Script(command, result)
          PROVE  faults' \in 0..MaxFaults
          BY <1>1, <1>2, <1>5 DEF Script
    <1>6. ASSUME NEW c, NEW r, Begin(c, r) PROVE CountersOK'
          BY <1>2, <1>3, <1>6 DEF Begin, CountersOK
    <1>7. ASSUME NEW c \in Clients, RunScript(c) PROVE CountersOK'
          BY <1>4, <1>5, <1>7 DEF RunScript, CountersOK
    <1>8. ASSUME NEW c \in Clients, ReadDocument(c) \/ Respond(c) \/ GiveUp(c)
          PROVE  CountersOK'
          BY <1>1, <1>2, <1>4, <1>8 DEF ReadDocument, Respond, GiveUp, CountersOK
    <1>9. ASSUME NEW c \in Clients,
                 \/ \E command \in Command : Post(c, command)
                 \/ \E id \in Ids : Get(c, id)
          PROVE  CountersOK'
          BY <1>6, <1>9 DEF Post, Get
    <1>10. ASSUME NEW command \in late, LateScript(command) PROVE CountersOK'
          BY <1>4, <1>5, <1>10 DEF LateScript, CountersOK
    <1>11. (\E id \in Ids : Execute(id)) \/ UNCHANGED vars => CountersOK'
          BY <1>2, <1>4 DEF Execute, vars, CountersOK
    <1> QED BY <1>7, <1>8, <1>9, <1>10, <1>11 DEF Next

------------------------------------------------------------------------------
(* The steps of what clients know. *)

LEMMA BeginReads ==
    ASSUME ApiInv, ApiInv', ReadInv, CountersOK', NEW c \in Clients,
           NEW r \in Requests, r.phase \in {"eval", "get"},
           r.began = Len(answers), Begin(c, r)
    PROVE  ReadInv'
    <1>1. Shape /\ Shape' /\ DocumentsOK
          BY DEF ApiInv, ReadInv
    <1>2. UNCHANGED <<document, answers>> /\ request' = [request EXCEPT ![c] = r]
          BY DEF Begin
    <1>3. DocumentsOK' /\ DocumentsHold
          BY <1>1, <1>2, DocumentsUnchanged
    <1>4. \A d \in Clients : RequestStep(d)
          BY <1>1, <1>2, RequestBecomes DEF RequestStep, Waiting
    <1> QED BY <1>1, <1>2, <1>3, <1>4, SoundStep DEF AnswersStep

LEMMA PostReads ==
    ASSUME ApiInv, ApiInv', ReadInv, CountersOK', NEW c \in Clients,
           NEW command \in Command, Post(c, command)
    PROVE  ReadInv'
    <1> DEFINE r == [phase |-> "eval", command |-> command,
                     began |-> Len(answers)]
    <1>1. r \in Requests /\ r.phase \in {"eval", "get"} /\ r.began = Len(answers)
          BY Lengths DEF Requests, ApiInv
    <1>2. Begin(c, r)
          BY DEF Post
    <1> HIDE DEF r
    <1> QED BY <1>1, <1>2, BeginReads

LEMMA GetReads ==
    ASSUME ApiInv, ApiInv', ReadInv, CountersOK', NEW c \in Clients,
           NEW id \in Ids, Get(c, id)
    PROVE  ReadInv'
    <1> DEFINE r == [phase |-> "get", id |-> id, began |-> Len(answers)]
    <1>1. r \in Requests /\ r.phase \in {"eval", "get"} /\ r.began = Len(answers)
          BY Lengths DEF Requests, ApiInv
    <1>2. Begin(c, r)
          BY DEF Get
    <1> HIDE DEF r
    <1> QED BY <1>1, <1>2, BeginReads

(***************************************************************************)
(* The handler of c makes up answer a: when it is honest, and agrees with  *)
(* every honest answer about its id, it is sound.                          *)
(***************************************************************************)
LEMMA ReplyReads ==
    ASSUME Shape, Shape', ReadInv, CountersOK', DocumentsOK', DocumentsHold,
           UNCHANGED answers, NEW c \in Clients, NEW a \in Answers,
           request' = [request EXCEPT ![c] = [phase |-> "reply", answer |-> a]],
           a.began = request[c].began, Waiting(c),
           Honest(a)',
           \A b \in Answers : Honest(b) /\ b.id = a.id => Agrees(b, a)
    PROVE  ReadInv'
    <1> DEFINE r == [phase |-> "reply", answer |-> a]
    <1>1. r \in Requests
          BY DEF Requests
    <1>2. /\ request'[c] = r
          /\ \A d \in Clients \ {c} : request'[d] = request[d]
          BY <1>1, RequestBecomes
    <1>3. a.began <= Len(answers)
          BY DEF ReadInv, RequestsSound
    <1>4. \A m \in DOMAIN answers :
             m <= a.began /\ answers[m].id = a.id => Agrees(answers[m], a)
          BY AnswerTypes DEF ReadInv, AnswersSound, Sound
    <1>5. Sound(a)'
          BY <1>3, <1>4 DEF Sound, Fresh, Agrees
    <1>6. Sound(request[c].answer)' /\ request'[c].phase = "reply"
          BY <1>2, <1>5 DEF Sound, Honest, Fresh, Agrees
    <1>7. \A d \in Clients : RequestStep(d)
          BY <1>2, <1>6 DEF RequestStep
    <1> QED BY <1>7, SoundStep DEF AnswersStep

LEMMA ReadDocumentReads ==
    ASSUME ApiInv, ApiInv', ReadInv, CountersOK', NEW c \in Clients,
           ReadDocument(c)
    PROVE  ReadInv'
    <1> DEFINE id == request[c].id
               read == [id     |-> id,
                        body   |-> document[id].body,
                        code   |-> GetStatus(id),
                        status |-> document[id].status,
                        began  |-> request[c].began]
    <1>1. Shape /\ Shape' /\ DocumentsOK
          BY DEF ApiInv, ReadInv
    <1>2. /\ request[c].phase = "get"
          /\ request' = [request EXCEPT ![c] = [phase |-> "reply", answer |-> read]]
          /\ UNCHANGED <<document, answers>>
          BY DEF ReadDocument, Reply
    <1>3. id \in Ids /\ request[c].began \in Nat
          BY <1>1, <1>2, RequestTypes
    <1>4. read \in Answers
          BY <1>1, <1>3, ReadTypes DEF Answers
    <1>5. PICK a \in Answers :
             /\ a.id = id /\ a.status = document[id].status
             /\ a.code = GetStatus(id) /\ a.began = request[c].began
             /\ request' = [request EXCEPT ![c] = [phase |-> "reply", answer |-> a]]
          BY <1>2, <1>4
    <1>6. DocumentsOK' /\ DocumentsHold
          BY <1>1, <1>2, DocumentsUnchanged
    <1>7. Honest(a)'
          <2>1. a.status >= 1 => Exists(id)
                BY <1>1, <1>3, <1>5, DocumentStatus DEF Exists
          <2> QED BY <1>2, <1>5, <2>1 DEF Honest, Exists, Stored
    <1>8. ASSUME NEW b \in Answers, Honest(b), b.id = a.id
          PROVE  Agrees(b, a)
          <2>1. Exists(id) => a.code \notin {202, 404}
                <3>1. CASE id \in StreamIds
                      <4>1. GetStatus(id) = 503
                            BY <1>1, <1>3, <3>1 DEF GetStatus, DocumentsOK
                      <4> QED BY <1>5, <4>1
                <3>2. CASE id \notin StreamIds /\ Stored(id)
                      <4>1. GetStatus(id) = 200
                            BY <3>2 DEF GetStatus
                      <4> QED BY <1>5, <4>1
                <3> QED BY <3>1, <3>2 DEF Exists
          <2> QED BY <1>5, <1>8, <2>1 DEF Agrees, Honest
    <1>9. Waiting(c)
          BY <1>2 DEF Waiting
    <1> QED BY <1>1, <1>2, <1>5, <1>6, <1>7, <1>8, <1>9, ReplyReads

LEMMA RunScriptReads ==
    ASSUME ApiInv, ApiInv', ReadInv, CountersOK', NEW c \in Clients,
           RunScript(c)
    PROVE  ReadInv'
    <1> DEFINE id == request[c].command.id
    <1>1. Shape /\ Shape' /\ DocumentsOK
          BY DEF ApiInv, ReadInv
    <1>2. PICK command \in Command : command = request[c].command
          BY <1>1, RunScriptResult
    <1>3. PICK result \in Results, a \in Answers :
             Submitted(c, command, result, a)
          BY <1>1, <1>2, RunScriptResult
    <1>4. /\ Script(command, result)
          /\ a.id = command.id
          /\ a.code = SubmitStatus(result)
          /\ a.status = (IF result = "error" THEN 0 ELSE 1)
          /\ a.began = request[c].began
          /\ request' = [request EXCEPT ![c] = [phase |-> "reply", answer |-> a]]
          BY <1>3 DEF Submitted
    <1>5. /\ DocumentsOK'
          /\ DocumentsHold
          /\ result \in {"accepted", "duplicate"} => Exists(command.id)'
          /\ result = "accepted" => ~Exists(command.id)
          BY <1>1, <1>4, ScriptKeepsDocuments
    <1>6. Honest(a)'
          <2>1. /\ a.status >= 1 => result \in {"accepted", "duplicate"}
                /\ ~(a.status >= 2)
                BY <1>4 DEF Results
          <2>2. a.status >= 1 => Exists(command.id)'
                BY <1>5, <2>1
          <2> QED BY <1>4, <2>1, <2>2 DEF Honest, Exists, Stored
    <1>7. ASSUME NEW b \in Answers, Honest(b), b.id = a.id
          PROVE  Agrees(b, a)
          <2>1. a.code \in {202, 409, 503} /\ (a.code = 202 <=> result = "accepted")
                BY <1>4, StatusOfResult
          <2>2. b.status >= 1 => Exists(command.id)
                BY <1>4, <1>7 DEF Honest
          <2>3. b.status >= 1 => a.code \notin {202, 404}
                BY <1>5, <2>1, <2>2
          <2>4. a.code # 200
                BY <2>1
          <2> QED BY <2>3, <2>4 DEF Agrees
    <1>8. Waiting(c) /\ UNCHANGED answers
          BY <1>1, RunScriptResult DEF Waiting
    <1> QED BY <1>1, <1>4, <1>5, <1>6, <1>7, <1>8, ReplyReads

LEMMA EndReads ==
    ASSUME ApiInv, ApiInv', ReadInv, CountersOK', NEW c \in Clients,
           Respond(c) \/ GiveUp(c)
    PROVE  ReadInv'
    <1>1. Shape /\ Shape' /\ DocumentsOK
          BY DEF ApiInv, ReadInv
    <1>2. UNCHANGED document /\ request' = [request EXCEPT ![c] = NoRequest]
          BY DEF Respond, GiveUp
    <1>3. NoRequest \in Requests
          BY DEF Requests
    <1>4. \A d \in Clients : RequestStep(d)
          BY <1>1, <1>2, <1>3, RequestBecomes DEF RequestStep
    <1>5. AnswersStep
          BY DEF Respond, GiveUp, AnswersStep
    <1> QED BY <1>1, <1>2, <1>4, <1>5, DocumentsUnchanged, SoundStep

\* A step that touches neither requests nor answers.
LEMMA ElsewhereReads ==
    ASSUME Shape, Shape', ReadInv, CountersOK', DocumentsOK', DocumentsHold,
           UNCHANGED <<request, answers>>
    PROVE  ReadInv'
    <1>1. \A d \in Clients : RequestStep(d)
          BY DEF RequestStep
    <1> QED BY <1>1, SoundStep DEF AnswersStep

LEMMA ReadInvStep ==
    ASSUME ApiInv, ApiInv', ReadInv, [Next]_vars
    PROVE  ReadInv'
    <1>1. Shape /\ Shape' /\ DocumentsOK
          BY DEF ApiInv, ReadInv
    <1>2. CountersOK'
          BY CountersStep DEF ReadInv
    <1>3. CASE \E c \in Clients :
                  \/ \E command \in Command : Post(c, command)
                  \/ \E id \in Ids : Get(c, id)
                  \/ RunScript(c) \/ ReadDocument(c) \/ Respond(c) \/ GiveUp(c)
          BY <1>2, <1>3, PostReads, GetReads, RunScriptReads, ReadDocumentReads,
             EndReads
    <1>4. ASSUME NEW command \in late, LateScript(command)
          PROVE  ReadInv'
          <2>1. command \in Command /\ UNCHANGED <<request, answers>>
                BY <1>1, <1>4 DEF Shape, LateScript
          <2>2. \E result \in Results : Script(command, result)
                BY <1>4 DEF LateScript, Results
          <2>3. DocumentsOK' /\ DocumentsHold
                BY <1>1, <2>1, <2>2, ScriptKeepsDocuments
          <2> QED BY <1>1, <1>2, <2>1, <2>3, ElsewhereReads
    <1>5. ASSUME NEW id \in Ids, Execute(id)
          PROVE  ReadInv'
          <2>1. UNCHANGED <<request, answers>>
                BY <1>5 DEF Execute
          <2>2. DocumentsOK' /\ DocumentsHold
                BY <1>1, <1>5, ExecuteKeepsDocuments
          <2> QED BY <1>1, <1>2, <2>1, <2>2, ElsewhereReads
    <1>6. CASE UNCHANGED vars
          <2>1. UNCHANGED <<document, request, answers>>
                BY <1>6 DEF vars
          <2>2. DocumentsOK' /\ DocumentsHold
                BY <1>1, <2>1, DocumentsUnchanged
          <2> QED BY <1>1, <1>2, <2>1, <2>2, ElsewhereReads
    <1> QED BY <1>3, <1>4, <1>5, <1>6 DEF Next

LEMMA ReadInit == Init => ReadInv
    BY ApiConstants
    DEF Init, ReadInv, DocumentsOK, RequestsSound, AnswersSound, CountersOK,
        Stored, NoRequest, Waiting

LEMMA ReadCorrect == Spec => [](ApiInv /\ ReadInv)
    <1>1. ApiInv /\ ReadInv /\ [Next]_vars => (ApiInv /\ ReadInv)'
          BY ApiStep, ReadInvStep
    <1> QED BY <1>1, ApiInit, ReadInit, PTL DEF Spec

(***************************************************************************)
(* No submission takes back what a client knows: an id that was told taken *)
(* is neither a 404 nor a 202 to a request that begins later, and one told *)
(* begun is not QUEUED to it, whoever retries, however late a script runs, *)
(* in whatever order reads are answered and whatever workers write back.   *)
(***************************************************************************)
THEOREM SubmissionsAreFinal == Spec => []SubmissionsTakeNothingBack
    <1>1. ApiInv /\ ReadInv => SubmissionsTakeNothingBack
          BY DEF ReadInv, AnswersSound, Sound, Fresh, SubmissionsTakeNothingBack
    <1> QED BY <1>1, ReadCorrect, PTL

LEMMA StateTypes ==
    ASSUME ApiInv, ReadInv
    PROVE  TypeOK
    <1>1. Shape /\ DocumentsOK /\ CountersOK /\ AnswersSound
          BY DEF ApiInv, ReadInv
    <1>2. \A id \in Ids : Stored(id) =>
              /\ document[id].body \in Bodies
              /\ document[id].status \in DOMAIN Statuses
          BY <1>1 DEF DocumentsOK, Statuses
    <1>3. ASSUME NEW c \in Clients
          PROVE  request[c].phase \in {"none", "eval", "get", "reply"}
          <2>1. request[c] \in Requests
                BY <1>1 DEF Shape
          <2>2. NoRequest.phase = "none"
                BY DEF NoRequest
          <2> QED BY <2>1, <2>2 DEF Requests
    <1>4. ASSUME NEW n \in DOMAIN answers
          PROVE  /\ answers[n].code \in {200, 202, 404, 409, 503}
                 /\ answers[n].began < n
          <2>1. answers[n] \in Answers
                BY <1>1, AnswerTypes
          <2>2. answers[n].code \in {200, 202, 404, 409, 503}
                BY <2>1 DEF Answers
          <2> QED BY <1>1, <2>2 DEF AnswersSound
    <1> QED BY <1>1, <1>2, <1>3, <1>4 DEF TypeOK, Shape, CountersOK

(***************************************************************************)
(* Every variable of the API has its type; in particular a document's      *)
(* status is one of the three a reader knows.                              *)
(***************************************************************************)
THEOREM ApiTypeCorrect == Spec => []TypeOK
    BY ReadCorrect, StateTypes, PTL
==============================================================================
