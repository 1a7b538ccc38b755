--------------------------------- MODULE Texts ---------------------------------
(***************************************************************************)
(* Texts that are taken apart and put together: UTILS_StrToIP() and        *)
(* temp_to_string() of user/utils.c and http_post() of                     *)
(* user/httpclient.c.  A text is a sequence of tokens: a run of digits is  *)
(* one token with its value, and so is the protocol of an URL.             *)
(* http_post() copies the host without a bound into hostname[128]; the     *)
(* only URL of the program is a constant whose host fits, and longer ones  *)
(* are not modelled.                                                       *)
(***************************************************************************)
EXTENDS Integers, Sequences, SequencesExt

CONSTANTS
    Alphabets,      \* sets of tokens that texts are made of
    MaxTokens,      \* bound on the length of a text
    Temps           \* int16_t, in sixteenths of a degree

Number(value) == [kind |-> "number", value |-> value]
Sign(kind) == [kind |-> kind, value |-> 0]
HTTP == Sign("http://")
Dot == Sign(".")
Slash == Sign("/")
Colon == Sign(":")
Letter == Sign("a")
EndOfText == Sign("end")

ASSUME AlphabetAssumption ==
    \A a \in Alphabets : \A t \in a :
        t \in {HTTP, Dot, Slash, Colon, Letter} \/ (t.value \in Nat /\ t = Number(t.value))
ASSUME TempAssumption == Temps \subseteq Int /\ MaxTokens \in Nat

VARIABLES alphabet, text, temp
tvars == <<alphabet, text, temp>>

IsNumber(t) == t.kind = "number"

-------------------------------------------------------------------------------
(* UTILS_StrToIP(): i numbers are stored, n is the value of the next one.  *)

(* Mutant: n goes on from one number to the next. *)
NumberEnds_keep(s) == [s EXCEPT !.i = s.i + 1, !.ip = Append(s.ip, s.n)]
NumberEnds(s) == [s EXCEPT !.i = s.i + 1, !.ip = Append(s.ip, s.n), !.n = 0]

ReadToken(s, t) ==
    IF s.failed \/ s.i = 4 THEN s
    ELSE IF IsNumber(t) THEN [s EXCEPT !.n = s.n + t.value]
    ELSE IF s.n < 256 /\ (t = Dot \/ s.i = 3) THEN NumberEnds(s)
    ELSE [s EXCEPT !.failed = TRUE]

UTILS_StrToIP(str) ==
    LET s == FoldLeft(ReadToken, [i |-> 0, n |-> 0, ip |-> <<>>, failed |-> FALSE], Append(str, EndOfText))
    IN  [ok |-> s.i = 4, ip |-> s.ip]

-------------------------------------------------------------------------------
(* http_post(): what it passes to http_raw_request(), or nothing. *)

First(url, sign) == SelectInSeq(Append(url, sign), LAMBDA t : t = sign)

(* 0: there is none before the path. *)
ColonAt(url) ==
    IF First(url, Colon) < First(url, Slash) /\ First(url, Colon) <= Len(url) THEN First(url, Colon) ELSE 0

Atoi(url, at) == IF at <= Len(url) /\ IsNumber(url[at]) THEN url[at].value ELSE 0

http_post(str) ==
    LET url == Tail(str)
        path == SubSeq(url, First(url, Slash), Len(url))
        colon == ColonAt(url)
        port == IF colon = 0 THEN 80 ELSE Atoi(url, colon + 1)
        hostEnd == IF colon = 0 THEN First(url, Slash) ELSE colon
    IN  IF str = <<>> \/ Head(str) # HTTP THEN {}
        ELSE IF port = 0 THEN {}
        ELSE {[hostname |-> SubSeq(url, 1, hostEnd - 1), port |-> port,
               path |-> IF path = <<>> THEN <<Slash>> ELSE path]}

-------------------------------------------------------------------------------
(* temp_to_string(), "%c%d.%02d" of these. *)

temp_to_string(t) ==
    [sign |-> IF t < 0 THEN "-" ELSE "+", Whole |-> t \div 16, Fract |-> ((t % 16) * 100) \div 16]

-------------------------------------------------------------------------------
(* All the texts up to their bound, a token at a time, or a temperature. *)

TextInit == /\ alphabet \in Alphabets \cup {{}} /\ text = <<>>
            /\ temp \in IF alphabet = {} THEN Temps ELSE {0}

(* Digits that follow each other are one token; the protocol comes first.  *)
NextToken ==
    /\ Len(text) < MaxTokens
    /\ \E t \in alphabet :
        /\ text # <<>> => ~(IsNumber(t) /\ IsNumber(Last(text))) /\ t # HTTP
        /\ text' = Append(text, t)
    /\ UNCHANGED <<alphabet, temp>>

OtherText == text' = <<>> /\ UNCHANGED <<alphabet, temp>>

TextNext == NextToken \/ OtherText
TextSpec == TextInit /\ [][TextNext]_tvars

-------------------------------------------------------------------------------
(* Properties. *)

(* Four numbers below 256 with dots between them are taken for an address, *)
(* and whatever is taken for one begins with numbers that are its bytes,   *)
(* or nothing for 0, and three dots; other names go to the resolver.       *)
AddressRead ==
    LET r == UTILS_StrToIP(text)
        Piece(k) == {<<Number(r.ip[k])>>} \cup (IF r.ip[k] = 0 THEN {<<>>} ELSE {})
        IsAddress == /\ Len(text) = 7
                     /\ \A k \in {1, 3, 5, 7} : IsNumber(text[k]) /\ text[k].value < 256
                     /\ \A k \in {2, 4, 6} : text[k] = Dot
    IN  /\ IsAddress => r.ok
        /\ r.ok => \E a \in Piece(1), b \in Piece(2), c \in Piece(3), d \in Piece(4) :
               /\ IsPrefix(a \o <<Dot>> \o b \o <<Dot>> \o c \o <<Dot>> \o d, text)
               /\ \A k \in 1 .. 4 : r.ip[k] < 256

(* Host, port and path of a request are those of its URL: together they    *)
(* are the text again, without its port 80 and without an empty path.      *)
UrlRead ==
    \A r \in http_post(text) : \E path \in {r.path, <<>>} :
        LET portText == SubSeq(text, 2 + Len(r.hostname), Len(text) - Len(path))
        IN  /\ text = <<HTTP>> \o r.hostname \o portText \o path
            /\ path = <<>> => r.path = <<Slash>>
            /\ r.path[1] = Slash
            /\ {Slash, Colon} \cap ToSet(r.hostname) = {} /\ Slash \notin ToSet(portText)
            /\ \/ portText = <<>> /\ r.port = 80
               \/ IsPrefix(<<Colon, Number(r.port)>>, portText)

(* A temperature from 0 on is shown, and uploaded, rounded down to         *)
(* hundredths.  (Below 0 see PortionsSeparate.)                            *)
TempShown ==
    temp >= 0 => LET s == temp_to_string(temp)
                 IN  s.sign = "+" /\ s.Fract \in 0 .. 99 /\ 100 * s.Whole + s.Fract = (temp * 100) \div 16

(* The three together. *)
TextsConverted == AddressRead /\ UrlRead /\ TempShown

(* utils.c:156, "separate off the whole and fractional portions", with the *)
(* sign before them.                                                       *)
PortionsSeparate ==
    LET s == temp_to_string(temp)
        size == IF temp < 0 THEN -temp ELSE temp
    IN  s.Whole = size \div 16 /\ s.Fract = ((size % 16) * 100) \div 16
===============================================================================
