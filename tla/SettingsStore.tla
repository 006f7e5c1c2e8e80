---------------------------- MODULE SettingsStore ----------------------------
(***************************************************************************)
(* What the EEPROM storage promises its callers, with no word about bytes, *)
(* CRCs, transactions or mutexes: a record has a content or none that can  *)
(* be read, a read returns the content the record has at that moment or    *)
(* fails, and a content is always one that was asked for and that no       *)
(* finished write has replaced since.                                      *)
(***************************************************************************)
CONSTANTS Callers,    \* tasks that use the store
          Addresses,  \* records
          Contents,   \* what may be asked for
          Storable,   \* what a record can hold and give back
          Unknown,    \* no content that can be read
          NoAnswer,   \* no read has been answered since the last call
          Miss        \* the read failed

VARIABLES content,  \* of each record, Unknown if it cannot be read
          asked,    \* of each record, the contents a write may leave there
          answer    \* to the last read of each caller

store == <<content, asked, answer>>

Init == /\ content \in [Addresses -> Contents \cup {Unknown}]
        /\ asked \in [Addresses -> SUBSET Contents]
        /\ \A a \in Addresses : content[a] \in asked[a] \cup {Unknown}
        /\ answer = [t \in Callers |-> NoAnswer]

\* A write begins.
Ask(t, a, c) == /\ asked' = [asked EXCEPT ![a] = @ \cup {c}]
                /\ answer' = [answer EXCEPT ![t] = NoAnswer]
                /\ UNCHANGED content

\* A write under way, or one that was cut short, changes the record.
Change(a) == /\ \E c \in asked[a] \cup {Unknown} :
                    content' = [content EXCEPT ![a] = c]
             /\ UNCHANGED <<asked, answer>>

\* A write is finished: what was there before cannot come back, and the new
\* content can be read if it is one the store can hold.
Finish(a) == /\ \E c \in asked[a], d \in asked[a] \cup {Unknown} :
                    /\ asked' = [asked EXCEPT ![a] = {c}]
                    /\ content' = [content EXCEPT ![a] = d]
                    /\ d \in {c, Unknown}
                    /\ c \in Storable => d = c
             /\ UNCHANGED answer

Call(t) == /\ answer' = [answer EXCEPT ![t] = NoAnswer]
           /\ UNCHANGED <<content, asked>>

Answer(t, a) == /\ answer' = [answer EXCEPT ![t] = content[a]]
                /\ content[a] # Unknown
                /\ UNCHANGED <<content, asked>>

Fail(t) == /\ answer' = [answer EXCEPT ![t] = Miss]
           /\ UNCHANGED <<content, asked>>

\* The power fails: records being written may be unreadable.
Restart == /\ answer' = [t \in Callers |-> NoAnswer]
           /\ content' \in [Addresses -> Contents \cup {Unknown}]
           /\ \A a \in Addresses : content'[a] \in asked[a] \cup {Unknown}
           /\ UNCHANGED asked

Next == \/ \E t \in Callers, a \in Addresses, c \in Contents : Ask(t, a, c)
        \/ \E a \in Addresses : Change(a) \/ Finish(a)
        \/ \E t \in Callers : Call(t) \/ Fail(t)
        \/ \E t \in Callers, a \in Addresses : Answer(t, a)
        \/ Restart

Spec == Init /\ [][Next]_store

=============================================================================
