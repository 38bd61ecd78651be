---------------------------- MODULE UdpObserver ----------------------------
(***************************************************************************)
(* The observer that sends states over UDP (observerUDPSender.cpp), and    *)
(* the receiver of one of its hosts (receiver.cpp).                        *)
(*                                                                         *)
(* draw cuts the text of a state into pieces of datagramSize bytes, sends  *)
(* each with its position and then an end mark.  The receiver puts pieces  *)
(* into one array and hands it over at the mark.  The network loses,       *)
(* duplicates and reorders datagrams, and the receiver reads all that are  *)
(* pending and treats the last.                                            *)
(***************************************************************************)
EXTENDS Integers, Sequences

CONSTANTS
    Size,         \* the length in bytes of the text of each state
    InitialSize,  \* the first datagramSize, compressed and not
    MinimumSize,  \* the sender gives up below it
    Header,       \* the bytes of a datagram before its piece
    Blank         \* the byte that fills a gap in an array

ASSUME UdpAssumption ==
    /\ Size \in Seq(Nat \ {0}) /\ MinimumSize \in Nat \ {0}
    /\ \A c \in BOOLEAN : InitialSize[c] \in Nat /\ InitialSize[c] >= MinimumSize
    /\ Header \in Nat

State == DOMAIN Size
Text(s) == [i \in 1..Size[s] |-> <<s, i>>]        \* no two bytes are alike
Mark == -1                                        \* the position of an end mark
Byte == (State \X (Nat \ {0})) \cup {Blank}
Datagram == [state : State, pos : Nat \cup {Mark}, data : Seq(Byte)]

VARIABLES
    compressDatagram, datagramSize, failureToSend,
    sending, pos, bytesRead,   \* sendDatagram: in its loop, and its variables
    state,                     \* the last state observed
    network,                   \* the datagrams on their way
    completeData,              \* the array of the receiver
    processed,                 \* the array it handed over last
    sent,                      \* history: the pieces sent
    intact,                    \* history: the states sent without an error
    treated                    \* history: what was put into the array

sender   == <<compressDatagram, datagramSize, failureToSend, sending, pos, bytesRead,
              state, sent, intact>>
receiver == <<completeData, processed, treated>>
vars     == <<sender, network, receiver>>

Init ==
    /\ compressDatagram \in BOOLEAN
    /\ datagramSize = InitialSize[compressDatagram]
    /\ failureToSend = FALSE /\ sending = FALSE /\ pos = 0 /\ bytesRead = 0
    /\ state = 0 /\ network = {}
    /\ completeData = <<>> /\ processed = <<>>
    /\ sent = {} /\ intact = {} /\ treated = {}

SmallerOf(m, n) == IF m < n THEN m ELSE n

(* data.mid(p, n) *)
Mid(data, p, n) == SubSeq(data, p + 1, SmallerOf(p + n, Len(data)))
Piece(s, p, n)  == [state |-> s, pos |-> p, data |-> Mid(Text(s), p, n)]
EndOf(s)        == [state |-> s, pos |-> Mark, data |-> <<>>]

----------------------------------------------------------------------------
(* notify calls draw; after a failure with small datagrams it returns. *)
Draw ==
    /\ ~sending /\ state < Len(Size)
    /\ state' = state + 1
    /\ sending' = ~failureToSend
    /\ pos' = 0 /\ bytesRead' = Size[state']
    /\ UNCHANGED <<compressDatagram, datagramSize, failureToSend, sent, intact, network,
                   receiver>>

ThisPiece == Piece(state, pos, datagramSize)

(* Without compression the loop goes on by the bytes of the datagram, its  *)
(* header among them.                                                      *)
Written == IF compressDatagram THEN datagramSize
           ELSE Header + Len(Mid(Text(state), pos, datagramSize))

SendPiece ==
    /\ sending /\ bytesRead > 0
    /\ network' = network \cup {ThisPiece}
    /\ sent' = sent \cup {ThisPiece}
    /\ pos' = pos + Written /\ bytesRead' = bytesRead - Written
    /\ UNCHANGED <<compressDatagram, datagramSize, failureToSend, sending, state, intact,
                   receiver>>

(* The piece cannot be sent to a host, maybe after it was sent to this one. *)
(* The rest of the state, and its mark, are not sent.                       *)
Halved == datagramSize \div 2
SendFails ==
    /\ sending /\ bytesRead > 0
    /\ network' \in {network, network \cup {ThisPiece}}
    /\ datagramSize' = Halved /\ failureToSend' = (Halved < MinimumSize)
    /\ sending' = FALSE
    /\ UNCHANGED <<compressDatagram, pos, bytesRead, state, sent, intact, receiver>>

(* completeState; nobody looks at its result. *)
SendMark ==
    /\ sending /\ bytesRead <= 0
    /\ network' \in {network, network \cup {EndOf(state)}}
    /\ sending' = FALSE /\ intact' = intact \cup {state}
    /\ UNCHANGED <<compressDatagram, datagramSize, failureToSend, pos, bytesRead, state, sent,
                   receiver>>

----------------------------------------------------------------------------
(* completeData.replace(p, size of piece, piece): an array that ends inside *)
(* the place of the piece is cut there, a gap before it is filled.          *)
Cut(a, p)         == SubSeq(a, 1, SmallerOf(p, Len(a)))
Unfilled(a, p)    == Cut(a, p)                    \* mutant: no gap
Filled(a, p)      == Cut(a, p) \o [i \in 1..(p - Len(Cut(a, p))) |-> Blank]
NoRest(a, p, piece) == <<>>                       \* mutant: the rest is cut off
Rest(a, p, piece)   == SubSeq(a, p + Len(piece) + 1, Len(a))
Replace(a, p, piece) == Filled(a, p) \o piece \o Rest(a, p, piece)

(* The receiver reads all the datagrams that are pending and treats the    *)
(* last: one that is read over is lost like one that never came.           *)
Lose(d) ==
    /\ d \in network
    /\ network' = network \ {d}
    /\ UNCHANGED <<sender, receiver>>

TreatPiece(d) ==
    /\ d.pos # Mark
    /\ completeData' = Replace(completeData, d.pos, d.data)
    /\ treated' = treated \cup {d}
    /\ UNCHANGED processed

TreatMark(d) ==
    /\ d.pos = Mark
    /\ processed' = completeData /\ completeData' = <<>>
    /\ treated' = {}

ProcessPendingDatagrams(d) ==
    /\ network' = network \ {d} \/ UNCHANGED network   \* it was a copy
    /\ TreatPiece(d) \/ TreatMark(d)
    /\ UNCHANGED sender

Sends == Draw \/ SendPiece \/ SendFails \/ SendMark
Next  == Sends \/ \E d \in network : Lose(d) \/ ProcessPendingDatagrams(d)

Spec  == Init /\ [][Next]_vars

----------------------------------------------------------------------------
(* Whatever was lost or came late, a byte of the array has the place that  *)
(* it has in the text it is from: remains of an older state mix with a     *)
(* newer one, but nothing moves (receiver.cpp:177).                        *)
InPlace(a) == \A i \in DOMAIN a : a[i] = Blank \/ \E s \in State : i <= Size[s] /\ a[i] = <<s, i>>

(* The variables have their types, bytes their places, and a sender that   *)
(* sends has not given up.                                                 *)
TypeOK ==
    /\ compressDatagram \in BOOLEAN /\ failureToSend \in BOOLEAN /\ sending \in BOOLEAN
    /\ datagramSize \in Nat /\ pos \in Nat /\ bytesRead \in Int /\ state \in 0..Len(Size)
    /\ network \subseteq Datagram /\ sent \subseteq Datagram /\ treated \subseteq Datagram
    /\ intact \subseteq State
    /\ completeData \in Seq(Byte) /\ InPlace(completeData)
    /\ processed \in Seq(Byte) /\ InPlace(processed)
    /\ sending => ~failureToSend /\ datagramSize >= MinimumSize

Whole(s) == Piece(s, 0, Size[s])
PiecesSent(s) == {d \in sent : d.state = s}

(* When an array is handed over that was made from all the pieces of one    *)
(* state, and nothing else, it is the text of that state, in whatever order *)
(* and however often they came, and whatever was lost before; without       *)
(* compression, if one piece has it all (receiver.cpp:187-190).             *)
WholeWhenIntact ==
    [][\A s \in intact :
           /\ treated = PiecesSent(s) /\ treated' = {}
           /\ compressDatagram \/ Whole(s) \in treated
           => processed' = Text(s)]_vars

=============================================================================
