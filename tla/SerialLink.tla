------------------------------ MODULE SerialLink ------------------------------
(***************************************************************************)
(* The serial link inside the IOC (grbl/grbl_serial.c): what was the UART  *)
(* of the AVR is two character rings in memory.                            *)
(*   - serial_rx_buffer, written by the plugin's writer thread, read by    *)
(*     the main loop of grbl, which filters the characters into a line;    *)
(*   - serial_tx_buffer, written by grbl's print functions, read by the    *)
(*     writer, which collects a reply.                                     *)
(* Each ring has a mutex.  serial_write waits for room while holding its   *)
(* mutex, so TxLock is a variable; the other functions take a mutex and    *)
(* give it back without waiting in between and are one step each, but the  *)
(* writer puts its line into the receive ring a character at a time, while *)
(* pcW = "add".                                                            *)
(*                                                                         *)
(* A character is a member of Chars; "a" stands for the letters and digits *)
(* of a line and "8" for those above 127 (char is signed, so that they are *)
(* not taken for extended realtime commands).  "hold" and "query" are ! and *)
(* ?, which never reach the ring; ~ and ctrl-x are not among the lines.     *)
(***************************************************************************)
EXTENDS Integers, Sequences, FiniteSets, SequencesExt

CONSTANTS
  RxSize,   (* RX_BUFFER_SIZE                                              *)
  TxSize,   (* TX_BUFFER_SIZE                                              *)
  LineSize, (* LINE_BUFFER_SIZE                                            *)
  Lines,    (* lines the writer sends                                      *)
  Reports,  (* what a $ command prints before its status: message lengths  *)
  MaxLines  (* bound: lines written                                        *)

Realtime == {"hold", "query"}                  \* picked off as commands
Chars == {"a", "0", "$", "8", "blank", "(", ")", ";", "eol"} \cup Realtime
Kinds == {"ok", "error", "start", "report"}

ASSUME LinkAssumption ==
  /\ RxSize \in 1..254 /\ TxSize \in Nat \ {0} /\ LineSize \in Nat \ {0}
  /\ Lines \subseteq Seq(Chars) \ {<<>>}
  /\ Reports \subseteq Seq(Nat \ {0})
  /\ MaxLines \in Nat

VARIABLES
  (* rings *)
  rx, rxHead, rxTail,
  tx, txHead, txTail,
  txLock,     (* serialTxBufferMutex: "free", or held by "main"            *)
  (* flags *)
  reset,      (* EXEC_RESET                                                *)
  hold,       (* EXEC_FEED_HOLD                                            *)
  query,      (* EXEC_STATUS_REPORT                                        *)
  holding,    (* a hold taken in CYCLE: main goes on until it is complete  *)
  suspend,    (* sys.suspend # 0: main waits in protocol_exec_rt_suspend   *)
  (* main thread *)
  pcM,        (* protocol_main_loop, printing, or doMainWorker after abort *)
  line,       (* line[0 .. char_counter - 1]                               *)
  lineFlags,
  out,        (* characters still to print                                 *)
  after,      (* where main goes on after printing                         *)
  (* writer thread *)
  pcW,
  command,    (* the line to send                                          *)
  added,      (* its characters added so far                               *)
  reply,      (* the reply so far                                          *)
  written,    (* bound: lines written                                      *)
  (* history *)
  rxDue, txDue, (* characters put into each ring and not taken out         *)
  raw         (* characters taken out of rx since the last end of line     *)

rxVars == <<rx, rxHead, rxTail>>
txVars == <<tx, txHead, txTail>>
flagVars == <<reset, hold, query, holding, suspend>>
mainVars == <<pcM, line, lineFlags, out, after>>
writerVars == <<pcW, command, added, reply, written>>
vars == <<rxVars, txVars, txLock, flagVars, mainVars, writerVars, rxDue, txDue, raw>>

RxRing == RxSize + 1
TxRing == TxSize + 1

RingNext(i, size) == IF i + 1 = size THEN 0 ELSE i + 1

(* The k-th slot from slot i on, and the slots from one to another.          *)
RingPlus(i, k, size) == IF i + k < size THEN i + k ELSE i + k - size
RingDistance(i, j, size) == IF i <= j THEN j - i ELSE j - i + size

(* What is left of a sequence at the positions ps.                          *)
Kept(cs, ps) ==
  LET kept[i \in 0 .. Len(cs)] == IF i = 0 THEN <<>>
                                  ELSE IF i \in ps THEN Append(kept[i - 1], cs[i])
                                  ELSE kept[i - 1]
  IN kept[Len(cs)]

(* A message of n characters and the end of line; its characters are named   *)
(* by its kind, which is what grblReadReply looks for in it.                 *)
Message(kind, n) == Append([i \in 1..n |-> kind], "eol")

(* Start-up: the welcome message is being printed, the writer waits for it.  *)
Init ==
  /\ rx = [i \in 0 .. RxRing - 1 |-> "none"] /\ rxHead = 0 /\ rxTail = 0
  /\ tx = [i \in 0 .. TxRing - 1 |-> "none"] /\ txHead = 0 /\ txTail = 0
  /\ txLock = "free" /\ reset = FALSE /\ hold = FALSE /\ query = FALSE
  /\ holding = FALSE /\ suspend = FALSE
  /\ pcM = "print" /\ line = <<>> /\ lineFlags = {} /\ out = Message("start", 1) /\ after = "read"
  /\ pcW = "waitStart" /\ command = <<>> /\ added = 0 /\ reply = <<>> /\ written = 0
  /\ rxDue = <<>> /\ txDue = <<>> /\ raw = <<>>

-------------------------------------------------------------------------------
(* Writer thread.                                                            *)

(* serial_get_rx_buffer_available                                           *)
Available == IF rxHead >= rxTail THEN RxSize - (rxHead - rxTail) ELSE rxTail - rxHead - 1

(* serial_get_tx_buffer_count                                               *)
TxCount == IF txHead >= txTail THEN txHead - txTail ELSE TxRing - (txTail - txHead)

TakeCommand(cmd) ==
  /\ pcW = "idle"
  /\ written < MaxLines /\ written' = written + 1
  /\ command' = cmd /\ added' = 0
  /\ pcW' = "space"
  /\ UNCHANGED <<rxVars, txVars, txLock, flagVars, mainVars, reply, rxDue, txDue, raw>>

(* Mutant: one character more than there is room for.                        *)
WriteCommandTight ==
  /\ pcW = "space"
  /\ Available >= Len(command) - 1
  /\ pcW' = "add"
  /\ UNCHANGED <<rxVars, txVars, txLock, flagVars, mainVars, command, added, reply, written,
                 rxDue, txDue, raw>>

(* grblWriteCommand waits while available <= strlen(command + 1), the length *)
(* less one; then ecmc_write_command_serial takes the mutex.                 *)
WriteCommand ==
  /\ pcW = "space"
  /\ Available > Len(command) - 1
  /\ pcW' = "add"
  /\ UNCHANGED <<rxVars, txVars, txLock, flagVars, mainVars, command, added, reply, written,
                 rxDue, txDue, raw>>

(* ecmc_add_char_to_buffer for the next character; the test for a full ring  *)
(* is commented out.  The mutex is given back after the last one.            *)
AddChar ==
  /\ pcW = "add"
  /\ LET c == command[added + 1]
     IN /\ hold' = (hold \/ c = "hold")
        /\ query' = (query \/ c = "query")
        /\ IF c \in Realtime
             THEN UNCHANGED <<rx, rxHead, rxDue>>
             ELSE /\ rx' = [rx EXCEPT ![rxHead] = c]
                  /\ rxHead' = RingNext(rxHead, RxRing)
                  /\ rxDue' = Append(rxDue, c)
  /\ added' = added + 1
  /\ pcW' = IF added + 1 = Len(command) THEN "reply" ELSE "add"
  /\ UNCHANGED <<rxTail, txVars, txLock, reset, holding, suspend, mainVars, command, reply, written,
                 txDue, raw>>

(* grblReadReply collects the characters of a message to its end, and looks  *)
(* at what it is.                                                            *)
Collect(c) ==
  IF c = "eol" /\ reply # <<>>
    THEN /\ reply' = <<>>
         /\ pcW' = IF pcW = "waitStart"
                     THEN IF Last(reply) = "start" THEN "idle" ELSE pcW
                     ELSE IF Last(reply) = "ok" THEN "idle" ELSE "fail"
    ELSE reply' = Append(reply, c) /\ UNCHANGED pcW

(* ecmc_get_char_from_grbl_tx_buffer, called when there is one.              *)
Hear ==
  /\ pcW \in {"waitStart", "reply"}
  /\ txLock = "free"
  /\ TxCount > 0
  /\ txTail' = RingNext(txTail, TxRing)
  /\ txDue' = Tail(txDue)
  /\ Collect(tx[txTail])
  /\ UNCHANGED <<rxVars, tx, txHead, txLock, flagVars, mainVars, command, added, written,
                 rxDue, raw>>

(* setReset into mc_reset, and the end of the thread.                        *)
Fail ==
  /\ pcW = "fail"
  /\ reset' = TRUE
  /\ pcW' = "dead"
  /\ UNCHANGED <<rxVars, txVars, txLock, hold, query, holding, suspend, mainVars, command, added, reply,
                 written, rxDue, txDue, raw>>

-------------------------------------------------------------------------------
(* Main thread: reading and filtering a line.                                *)

(* What protocol_main_loop does with a character inside a line, outside a    *)
(* comment and at all.                                                       *)
FilterCode(c) ==
  CASE c = "blank" -> UNCHANGED <<line, lineFlags>>     \* and the / of block delete
    [] c = "(" -> lineFlags' = {"parentheses"} /\ UNCHANGED line
    [] c = ";" -> lineFlags' = {"semicolon"} /\ UNCHANGED line
    [] OTHER -> IF Len(line) >= LineSize - 1
                  THEN lineFlags' = {"overflow"} /\ UNCHANGED line
                  ELSE line' = Append(line, c) /\ UNCHANGED lineFlags

(* Mutant: a closing parenthesis also ends a ; comment.                      *)
FilterAnyClose(c) ==
  IF lineFlags # {}
    THEN lineFlags' = (IF c = ")" THEN {} ELSE lineFlags) /\ UNCHANGED line
    ELSE FilterCode(c)

Filter(c) ==
  IF lineFlags # {}
    THEN lineFlags' = (IF c = ")" THEN lineFlags \ {"parentheses"} ELSE lineFlags) /\ UNCHANGED line
    ELSE FilterCode(c)

(* serial_read, under the mutex; the slot read is cleared.                   *)
ReadChar ==
  /\ pcM = "read" /\ ~suspend
  /\ pcW # "add"
  /\ rxHead # rxTail
  /\ LET c == rx[rxTail]
     IN /\ rx' = [rx EXCEPT ![rxTail] = "none"]
        /\ rxTail' = RingNext(rxTail, RxRing)
        /\ rxDue' = Tail(rxDue)
        /\ IF c = "eol"
             THEN pcM' = "line" /\ UNCHANGED <<line, lineFlags, raw>>
             ELSE Filter(c) /\ raw' = Append(raw, c) /\ UNCHANGED pcM
  /\ UNCHANGED <<rxHead, txVars, txLock, flagVars, out, after, writerVars, txDue>>

(* protocol_execute_realtime: after an end of line, with nothing to read     *)
(* (the test came before, so that the writer may be adding), and again and   *)
(* again while suspended.                                                    *)
CheckPoint == pcM = "line" \/ (pcM = "read" /\ (suspend \/ rxHead = rxTail))

Abort ==
  /\ CheckPoint
  /\ reset
  /\ pcM' = "boot"
  /\ UNCHANGED <<rxVars, txVars, txLock, flagVars, line, lineFlags, out, after, writerVars,
                 rxDue, txDue, raw>>

(* report_realtime_status                                                    *)
StatusReport ==
  /\ CheckPoint
  /\ ~reset /\ query
  /\ query' = FALSE
  /\ out' = Message("report", 1)
  /\ pcM' = "print" /\ after' = pcM
  /\ UNCHANGED <<rxVars, txVars, txLock, reset, hold, holding, suspend, line, lineFlags, writerVars,
                 rxDue, txDue, raw>>

(* A feed hold suspends main where it is (in IDLE or JOG), or when the motion *)
(* has come to rest (in CYCLE), or not at all (in an alarm or a dry run).    *)
FeedHold ==
  /\ CheckPoint
  /\ ~reset /\ ~query /\ hold
  /\ hold' = FALSE
  /\ \/ UNCHANGED <<holding, suspend>>
     \/ ~holding /\ suspend' = TRUE /\ UNCHANGED holding
     \/ ~suspend /\ holding' = TRUE /\ UNCHANGED suspend
  /\ UNCHANGED <<rxVars, txVars, txLock, reset, query, mainVars, writerVars, rxDue, txDue, raw>>

HoldComplete ==
  /\ CheckPoint
  /\ ~reset /\ ~query /\ ~hold /\ holding
  /\ holding' = FALSE /\ suspend' = TRUE
  /\ UNCHANGED <<rxVars, txVars, txLock, reset, hold, query, mainVars, writerVars, rxDue, txDue, raw>>

(* Mutant: main goes on with the next line, not with the one it has read.    *)
ResumeDropsLine ==
  /\ CheckPoint
  /\ ~reset /\ ~query /\ ~hold /\ suspend
  /\ suspend' = FALSE
  /\ pcM' = "read" /\ line' = <<>> /\ lineFlags' = {} /\ raw' = <<>>
  /\ UNCHANGED <<rxVars, txVars, txLock, reset, hold, query, holding, out, after, writerVars,
                 rxDue, txDue>>

(* A cycle start of the PLC, or the end of a jog, ends the suspend.          *)
Resume ==
  /\ CheckPoint
  /\ ~reset /\ ~query /\ ~hold /\ suspend
  /\ suspend' = FALSE
  /\ UNCHANGED <<rxVars, txVars, txLock, reset, hold, query, holding, mainVars, writerVars,
                 rxDue, txDue, raw>>

(* Mutant: an empty line is answered, and then executed as well.             *)
AnswersEmptyTwice ==
  CASE line = <<>> -> {Message("ok", 1) \o Message("ok", 1)}
    [] Len(line) = 1 -> {IF Head(line) = "0" THEN Message("ok", 1) ELSE <<>>}
    [] OTHER -> {Message("ok", 1), Message("error", 2)}

(* Every line gets a status, but a line of one character only in the states  *)
(* alarm and jog, where it is refused.                                       *)
Answers ==
  IF "overflow" \in lineFlags THEN {Message("error", 2)}
  ELSE IF line = <<>> \/ Head(line) = "0" THEN {Message("ok", 1)}
  ELSE IF Head(line) = "$"
    THEN {Message("ok", 1), Message("error", 2)}
           \cup {FlattenSeq([i \in DOMAIN rs |-> Message("report", rs[i])]) \o Message("ok", 1) : rs \in Reports}
  ELSE IF Len(line) = 1 THEN {<<>>, Message("error", 2)}
  ELSE {Message("ok", 1), Message("error", 2)}

ExecuteLine ==
  /\ pcM = "line" /\ ~reset /\ ~query /\ ~hold /\ ~suspend
  /\ out' \in Answers
  /\ pcM' = "print" /\ after' = "read"
  /\ line' = <<>> /\ lineFlags' = {} /\ raw' = <<>>
  /\ UNCHANGED <<rxVars, txVars, txLock, flagVars, writerVars, rxDue, txDue>>

-------------------------------------------------------------------------------
(* Main thread: printing.                                                    *)

NextHead == RingNext(txHead, TxRing)

(* serial_write takes the mutex and waits in it for room ...                 *)
WriteChar ==
  /\ pcM = "print" /\ out # <<>>
  /\ txLock = "free"
  /\ IF NextHead = txTail
       THEN /\ txLock' = "main" /\ pcM' = "spin"
            /\ UNCHANGED <<tx, txHead, out, txDue>>
       ELSE /\ tx' = [tx EXCEPT ![txHead] = Head(out)]
            /\ txHead' = NextHead
            /\ txDue' = Append(txDue, Head(out))
            /\ out' = Tail(out)
            /\ UNCHANGED <<txLock, pcM>>
  /\ UNCHANGED <<rxVars, txTail, flagVars, line, lineFlags, after, writerVars, rxDue, raw>>

(* ... which can only come from a reset, that drops the character.           *)
Spin ==
  /\ pcM = "spin"
  /\ NextHead # txTail \/ reset
  /\ txLock' = "free" /\ pcM' = "print"
  /\ IF NextHead = txTail
       THEN out' = Tail(out) /\ UNCHANGED <<tx, txHead, txDue>>
       ELSE /\ tx' = [tx EXCEPT ![txHead] = Head(out)]
            /\ txHead' = NextHead
            /\ txDue' = Append(txDue, Head(out))
            /\ out' = Tail(out)
  /\ UNCHANGED <<rxVars, txTail, flagVars, line, lineFlags, after, writerVars, rxDue, raw>>

Printed ==
  /\ pcM = "print" /\ out = <<>>
  /\ pcM' = after
  /\ UNCHANGED <<rxVars, txVars, txLock, flagVars, line, lineFlags, out, after, writerVars,
                 rxDue, txDue, raw>>

(* doMainWorker: clear the flags and the receive buffer, say welcome, and    *)
(* enter protocol_main_loop with an empty line.                              *)
Boot ==
  /\ pcM = "boot"
  /\ reset' = FALSE /\ hold' = FALSE /\ query' = FALSE /\ holding' = FALSE /\ suspend' = FALSE
  /\ rxTail' = rxHead                            \* serial_reset_read_buffer
  /\ rxDue' = <<>> /\ raw' = <<>>
  /\ line' = <<>> /\ lineFlags' = {}
  /\ out' = Message("start", 1)
  /\ pcM' = "print" /\ after' = "read"
  /\ UNCHANGED <<rx, rxHead, txVars, txLock, writerVars, txDue>>

-------------------------------------------------------------------------------
Main == ReadChar \/ Abort \/ StatusReport \/ FeedHold \/ ExecuteLine \/ WriteChar \/ Spin \/ Printed \/ Boot

Writer == WriteCommand \/ AddChar \/ Hear \/ Fail

Next == Main \/ Writer \/ HoldComplete \/ Resume \/ \E cmd \in Lines : TakeCommand(cmd)

Spec == Init /\ [][Next]_vars

(* Both threads keep running; further commands and resumes need not come,    *)
(* and a hold takes as long as its motion.                                   *)
FairSpec == Spec /\ WF_vars(Main) /\ WF_vars(Writer)

-------------------------------------------------------------------------------
TypeOK ==
  /\ rx \in [0 .. RxRing - 1 -> Chars \cup {"none"}] /\ {rxHead, rxTail} \subseteq 0 .. RxRing - 1
  /\ tx \in [0 .. TxRing - 1 -> Kinds \cup {"none", "eol"}] /\ {txHead, txTail} \subseteq 0 .. TxRing - 1
  /\ txLock \in {"free", "main"}
  /\ reset \in BOOLEAN /\ hold \in BOOLEAN /\ query \in BOOLEAN
  /\ holding \in BOOLEAN /\ suspend \in BOOLEAN
  /\ pcM \in {"read", "line", "print", "spin", "boot"} /\ after \in {"read", "line"}
  /\ line \in Seq(Chars) /\ Len(line) < LineSize
  /\ lineFlags \subseteq {"parentheses", "semicolon", "overflow"}
  /\ pcW \in {"waitStart", "idle", "space", "add", "reply", "fail", "dead"}
  /\ command \in Seq(Chars) /\ added \in Nat
  /\ written \in 0..MaxLines

Contents(ring, tail, head, size) ==
  [k \in 1 .. RingDistance(tail, head, size) |-> ring[RingPlus(tail, k - 1, size)]]

(* Both rings deliver every character once and in order: the receive ring    *)
(* is never overrun although its own test is commented out (the writer's     *)
(* wait for room is enough), and the transmit ring never overwrites a reply. *)
RingsIntact ==
  /\ Contents(rx, rxTail, rxHead, RxRing) = rxDue
  /\ Contents(tx, txTail, txHead, TxRing) = txDue

(* While the writer has nothing under way, no character is left over in      *)
(* either ring or in grbl that a later reply could be mistaken with.         *)
QuietBetweenLines == pcW \in {"idle", "space"} => rxDue = <<>> /\ txDue = <<>> /\ out = <<>>

(* Position p of a line is inside parentheses when one was opened and not    *)
(* closed before it, and behind a semicolon that is not inside parentheses.  *)
InParentheses(cs, p) ==
  \E q \in 1 .. p - 1 : cs[q] = "(" /\ \A r \in q + 1 .. p - 1 : cs[r] # ")"
BehindSemicolon(cs, p) ==
  \E q \in 1 .. p - 1 : cs[q] = ";" /\ ~InParentheses(cs, q)

Code(cs) == {p \in DOMAIN cs : /\ cs[p] \notin {"(", ";", "blank"}
                               /\ ~InParentheses(cs, p) /\ ~BehindSemicolon(cs, p)}

(* A line without comments and blanks.                                       *)
Strip(cs) == Kept(cs, Code(cs))

(* The filter of protocol_main_loop, a character at a time with flags, gives *)
(* the line without its comments and blanks, and an overflow exactly when    *)
(* that does not fit.                                                        *)
LineFiltered ==
  pcM = "line" =>
    LET code == Strip(raw)
    IN IF Len(code) < LineSize THEN "overflow" \notin lineFlags /\ line = code
                               ELSE "overflow" \in lineFlags

(* The code of a line of one character, but not an empty line or a command.  *)
OneCharacter(cs) ==
  LET code == Strip(Kept(cs, {i \in DOMAIN cs : cs[i] \notin Realtime \cup {"eol"}}))
  IN Len(code) = 1 /\ Head(code) \notin {"0", "$"}

(* A line that was sent is answered, also when it holds grbl in its middle   *)
(* (a ! is obeyed before the line is), asks for a report or comes before the *)
(* last reply is read; except for a line of one character (strlen(line)>1).  *)
(* Only two things keep grbl from it: a hold that nobody ends, and a         *)
(* transmit ring that is full, for serial_write then holds for ever the      *)
(* mutex that its reader needs.                                              *)
AnswerComes ==
  pcW = "reply" /\ ~OneCharacter(command)
    ~> (pcW # "reply" \/ []suspend \/ [](pcM = "spin"))
===============================================================================
