---------------------------- MODULE GzLspFraming ----------------------------
(***************************************************************************)
(* drain() and parse_messages() of gz_lsp_client.cpp: the bytes of the     *)
(* language server arrive in pieces that are cut anywhere, and one pump    *)
(* handles only so many messages, or as many as its time allows.  A        *)
(* message is known by the size of its header and by its Content-Length.   *)
(***************************************************************************)
EXTENDS Naturals, Sequences, SequencesExt

CONSTANTS
    HeaderLimit,    \* HEADER_LIMIT
    MessageLimit,   \* MESSAGE_LIMIT
    ReadLimit,      \* PIPE_READ_LIMIT
    PumpLimit,      \* MAX_MESSAGES_PER_PUMP
    Headers,        \* sizes of headers a server sends
    Lengths,        \* sizes of bodies it sends
    MaxWaiting      \* bound on the messages that are sent and not handled

ASSUME FramingConstants ==
    /\ HeaderLimit \in Nat /\ MessageLimit \in Nat /\ MaxWaiting \in Nat
    /\ ReadLimit \in Nat \ {0} /\ PumpLimit \in Nat \ {0}
    /\ Headers \subseteq Nat /\ Lengths \subseteq Nat

\* the blank line after a header
Terminator == 4

\* mutant: the blank line is not counted
InputLimitShort == HeaderLimit + MessageLimit
InputLimit == HeaderLimit + Terminator + MessageLimit

\* a header that omits, repeats or garbles Content-Length is not "plain"
Messages == [header : Headers, length : Lengths, plain : BOOLEAN]

VARIABLES
    stream,     \* messages the server has begun to send, not yet handled
    input,      \* how many bytes of them are in the input buffer
    verdict,    \* "reading", or why fail() was called
    starved,    \* the last pump stopped because its budget was used up
    sound       \* history: every handled message was acceptable

framingVars == <<stream, input, verdict, starved, sound>>

FramingInit ==
    /\ stream = <<>>
    /\ input = 0
    /\ verdict = "reading"
    /\ starved = FALSE
    /\ sound = TRUE

-----------------------------------------------------------------------------

LengthAccepted(m) == m.plain /\ m.length <= MessageLimit
Acceptable(m) == m.header <= HeaderLimit /\ LengthAccepted(m)

HeaderSize(m) == m.header + Terminator
Size(m) == HeaderSize(m) + m.length

Bytes(messages) == FoldLeft(LAMBDA sum, m : sum + Size(m), 0, messages)

\* the server sends one more message
ServerSends(m) ==
    /\ verdict = "reading" /\ Len(stream) < MaxWaiting
    /\ stream' = Append(stream, m)
    /\ UNCHANGED <<input, verdict, starved, sound>>

\* how one turn of the loop ends, with the given messages to come and the
\* given number of their bytes in the buffer
Turn(messages, have) ==
    LET m == Head(messages)
    IN  CASE messages = <<>> -> "wait"
          [] messages # <<>> /\ have < HeaderSize(m) ->
                IF have > HeaderLimit THEN "header" ELSE "wait"
          [] OTHER ->
                CASE m.header > HeaderLimit -> "header"
                  [] m.header <= HeaderLimit /\ ~LengthAccepted(m) -> "length"
                  [] OTHER -> IF have < Size(m) THEN "wait" ELSE "message"

\* pump() handles n messages, and then its budget is used up or the next turn
\* of the loop is not a message
PumpReads(bytes, n) ==
    LET have(k) == input + bytes - Bytes(SubSeq(stream, 1, k))
        turn(k) == Turn(SubSeq(stream, k + 1, Len(stream)), have(k))
        stops   == turn(n)
    IN  /\ verdict = "reading"
        /\ bytes <= Bytes(stream) - input
        /\ \A k \in 0..n - 1 : turn(k) = "message"
        /\ \/ starved' = TRUE
           \/ starved' = FALSE /\ n < PumpLimit /\ stops # "message"
        /\ verdict' = IF ~starved' /\ stops \in {"header", "length"} THEN stops
                      ELSE IF have(n) > InputLimit THEN "backlog" ELSE "reading"
        /\ stream' = SubSeq(stream, n + 1, Len(stream))
        /\ input' = have(n)
        /\ sound' = (sound /\ \A k \in 1..n : Acceptable(stream[k]))

FramingNext ==
    \/ \E m \in Messages : ServerSends(m)
    \/ \E bytes \in 0..ReadLimit, n \in 0..PumpLimit :
          n <= Len(stream) /\ PumpReads(bytes, n)

FramingSpec == FramingInit /\ [][FramingNext]_framingVars

-----------------------------------------------------------------------------
(* Properties                                                              *)

\* The variables have their types.
FramingTypeOK ==
    /\ stream \in Seq(Messages) /\ Len(stream) <= MaxWaiting
    /\ input \in 0..Bytes(stream)
    /\ verdict \in {"reading", "header", "length", "backlog"}
    /\ starved \in BOOLEAN /\ sound \in BOOLEAN

\* Wherever the bytes are cut and whenever a pump runs out of time, messages
\* within the limits are handled and others end the connection: it ends for a
\* header that is too long, a length that is wrong, or more than the buffer may
\* hold while a message waits for the next pump, never for the size of an
\* acceptable message; and a pump with time left leaves no message behind.  A
\* header at its limit or up to two bytes below is excepted: it is accepted or
\* not as its blank line is cut.
FramesJudged ==
    /\ sound
    /\ verdict = "header" => Head(stream).header + Terminator > HeaderLimit + 1
    /\ verdict = "length" => ~LengthAccepted(Head(stream))
    /\ verdict = "backlog" =>
          starved /\ (Acceptable(Head(stream)) => input >= Size(Head(stream)))
    /\ ~starved /\ stream # <<>> /\ Acceptable(Head(stream)) =>
          input < Size(Head(stream))

=============================================================================
