--------------------------------- MODULE Auth ---------------------------------
(***************************************************************************)
(* The answer to an authentication request (sr_handle_auth_request in      *)
(* sr_vns_comm.c): the digest of the server's salt and the user's key,     *)
(* which fgets reads from the file auth_key into a buffer on the stack.    *)
(*                                                                         *)
(* The server may ask again, in the handshake and later in the session;    *)
(* the buffer then holds what other calls left on the stack.               *)
(***************************************************************************)
EXTENDS Sha1

CONSTANTS
    Octet,        \* characters and the octets of salts
    Newline,      \* the character that ends a line
    AUTH_KEY_LEN, \* characters of a key (64 in the code)
    KeyFiles,     \* what the file auth_key may hold
    Salts,        \* salts of the server
    MaxReplies    \* bound: requests answered

ASSUME AuthAssumption ==
    /\ Octet \subseteq 0..255
    /\ Newline \in Octet
    /\ AUTH_KEY_LEN \in Nat
    /\ KeyFiles \subseteq Seq(Octet)
    /\ Salts \subseteq Seq(Octet)
    /\ MaxReplies \in Nat

VARIABLES
    auth_key,  \* the characters of the file
    context,   \* the SHA1Context of the last answer
    message,   \* history: the octets that went into it
    replies,   \* what was sent: the salt and the digest it was answered with
    ended      \* the handler has failed and with it the session

authVars == <<auth_key, context, message, replies, ended>>

AuthInit ==
    /\ auth_key \in KeyFiles
    /\ context = SHA1Reset
    /\ message = <<>>
    /\ replies = <<>>
    /\ ended = FALSE

\* A sequence up to and with the first end of line in it.
FirstLine(s) ==
    LET ends == {i \in DOMAIN s : s[i] = Newline}
    IN  IF ends = {} THEN s
        ELSE SubSeq(s, 1, CHOOSE i \in ends : \A j \in ends : i <= j)

\* Mutant: fgets is given the length of the key, and keeps one for the zero.
Line_OneLess ==
    FirstLine(SubSeq(auth_key, 1, IF Len(auth_key) < AUTH_KEY_LEN
                                  THEN Len(auth_key) ELSE AUTH_KEY_LEN - 1))

\* The characters fgets reads: up to and with the first end of line, as many
\* as the buffer takes.
Line ==
    FirstLine(SubSeq(auth_key, 1, IF Len(auth_key) < AUTH_KEY_LEN
                                  THEN Len(auth_key) ELSE AUTH_KEY_LEN))

\* The first AUTH_KEY_LEN characters of the buffer: the line, the zero that
\* fgets puts after it, and what was there before.
Buffer(stale) ==
    [i \in 1..AUTH_KEY_LEN |->
        IF i <= Len(Line) THEN Line[i]
        ELSE IF i = Len(Line) + 1 THEN 0
        ELSE stale[i]]

\* Reset, the salt, the key.
Salted(salt, key) == SHA1Input(SHA1Input(SHA1Reset, salt), key)

\* The whole handler: without a key it fails at once, without a digest after
\* that, and without memory or room in the socket it fails to reply.
sr_handle_auth_request(salt, stale) ==
    LET key == Buffer(stale) IN
    /\ ~ended
    /\ Len(replies) < MaxReplies
    /\ IF Line = <<>> THEN ended' = TRUE /\ UNCHANGED <<context, message, replies>>
       ELSE /\ context' = SHA1Result(Salted(salt, key))
            /\ message' = salt \o key
            /\ \/ /\ ~context'.Corrupted
                  /\ replies' = Append(replies, [salt |-> salt,
                                                digest |-> context'.Message_Digest])
                  /\ UNCHANGED ended
               \/ ended' = TRUE /\ UNCHANGED replies
    /\ UNCHANGED auth_key

AuthNext ==
    \E salt \in Salts, stale \in [1..AUTH_KEY_LEN -> Octet] :
        sr_handle_auth_request(salt, stale)

AuthSpec == AuthInit /\ [][AuthNext]_authVars

-----------------------------------------------------------------------------
(* Properties.                                                             *)

\* The password in a file: its first line, without the end.
Password(key) ==
    LET line == FirstLine(key)
        n == Len(line)
    IN  IF line # <<>> /\ line[n] = Newline THEN SubSeq(line, 1, n - 1) ELSE line

\* Keys that fill the buffer, as the auth_key of the repository does.
KeysFull == \A key \in KeyFiles : key = <<>> \/ Len(Password(key)) = AUTH_KEY_LEN

\* A digest that SHA1Result vouches for is that of everything the context was
\* given, wherever salt and key meet and end in their blocks and whatever
\* carries the count of bits took.
DigestOfWholeMessage ==
    context.Computed /\ ~context.Corrupted =>
        context.Message_Digest = Digest(message)

\* There is no digest just when the message is longer than the two words of
\* the length can say.
CorruptedForCause ==
    context.Corrupted <=> 8 * Len(message) >= LowMod * HighMod

\* Every answer is "the salted SHA1 of password from auth_key": of the salt
\* in the request, then the key, and nothing else.
RepliesProveKey ==
    \A i \in DOMAIN replies :
        replies[i].digest = Digest(replies[i].salt \o Password(auth_key))
=============================================================================
