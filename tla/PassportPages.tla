---------------------------- MODULE PassportPages ----------------------------
(***************************************************************************)
(* A stranger reads a code off a label and types it in. The API parses it  *)
(* (trustpass-id.ts, crockford-base32.ts), answers from the record or from *)
(* its error codes (routes/passports.ts), and the public page puts the     *)
(* answer into words, tones and banners (passport.ts, claim-wording.ts,    *)
(* page.tsx). Beside it, the page's QR code is an address that has to come *)
(* from somewhere (passport-origin.ts, qr.svg/route.ts) and may be cached. *)
(*                                                                         *)
(* A 128-bit value is the sequence of its base-32 digits, the first of     *)
(* which is small. A text is a sequence of characters; the white space     *)
(* between them is called "space".                                         *)
(***************************************************************************)
EXTENDS Naturals, Sequences, FiniteSets, SequencesExt

CONSTANTS
  Values,      \* the values of the labels of this instance
  BodyLength,  \* 26: ceil(128 / 5)
  Serials      \* lengths of serials, trimmed

Digit == 0 .. 31

ASSUME PagesAssumption ==
  /\ BodyLength \in 5 .. 36   \* 32 ^ 36 is 1 modulo 37: two digits that far apart could
                             \* change places unnoticed
  /\ Values \subseteq [1 .. BodyLength -> Digit]
  /\ Serials \subseteq Nat

VARIABLES
  kept,   \* whose address the QR that a shared cache keeps for a label names
  visit   \* the stranger's visit: the label, what was typed, the answer, the page

vars == <<kept, visit>>

----------------------------------------------------------------------------
(* crockford-base32.ts *)

CHECK_ALPHABET ==
  <<"0", "1", "2", "3", "4", "5", "6", "7", "8", "9", "A", "B", "C", "D", "E", "F", "G",
    "H", "J", "K", "M", "N", "P", "Q", "R", "S", "T", "V", "W", "X", "Y", "Z",
    "*", "~", "$", "=", "U">>
ALPHABET == SubSeq(CHECK_ALPHABET, 1, 32)

\* Upper case, no separators, and I and L are ones, O a zero.
Folded(ch) ==
  CASE ch \in {"I", "L", "i", "l"} -> "1" [] ch \in {"O", "o"} -> "0"
    [] ch = "t" -> "T" [] ch = "p" -> "P" [] OTHER -> ch
Separator == {"space", "-"}
normalizeSymbols(text) ==
  LET symbols[i \in 0 .. Len(text)] ==
        IF i = 0 THEN <<>>
        ELSE IF text[i] \in Separator THEN symbols[i - 1]
        ELSE Append(symbols[i - 1], Folded(text[i]))
  IN symbols[Len(text)]

Symbol == ToSet(ALPHABET)
IndexOf == [ch \in Symbol |-> CHOOSE d \in Digit : ALPHABET[d + 1] = ch]

encodeSymbols(value) == [i \in 1 .. BodyLength |-> ALPHABET[value[i] + 1]]
decodeSymbols(body) == [i \in 1 .. Len(body) |-> IndexOf[body[i]]]

\* A mutant: the remainder of 32 sees only the last digit.
CheckByLast(value) == CHECK_ALPHABET[value[Len(value)] + 1]

\* The value's remainder of 37, digit by digit.
Remainder(value) ==
  LET remainder[n \in 0 .. Len(value)] ==
        IF n = 0 THEN 0 ELSE (32 * remainder[n - 1] + value[n]) % 37
  IN remainder[Len(value)]
checkSymbol(value) == CHECK_ALPHABET[Remainder(value) + 1]

(* trustpass-id.ts *)

format(value) == <<"T", "P", "1", "-">> \o encodeSymbols(value) \o <<checkSymbol(value)>>

Refused(error) == [ok |-> FALSE, error |-> error]
parseTrustPassId(text) ==
  LET symbols == normalizeSymbols(text)
      body == SubSeq(symbols, 4, 3 + BodyLength)
      known == \A i \in DOMAIN body : body[i] \in Symbol
  IN IF \A i \in DOMAIN text : text[i] = "space" THEN Refused("empty")
     ELSE IF Len(symbols) # BodyLength + 4 THEN Refused("invalid_length")
     ELSE IF SubSeq(symbols, 1, 2) # <<"T", "P">> THEN Refused("invalid_prefix")
     ELSE IF symbols[3] # "1" THEN Refused("unsupported_version")
     ELSE IF ~known THEN Refused("invalid_symbol")
     ELSE IF symbols[BodyLength + 4] # checkSymbol(decodeSymbols(body))
          THEN Refused("checksum_mismatch")
     ELSE [ok |-> TRUE, id |-> decodeSymbols(body)]

----------------------------------------------------------------------------
(* What a reader does to a code *)

Typeable == ToSet(CHECK_ALPHABET) \cup {"I", "L", "O"} \cup Separator

\* As it is printed, in groups with spaces or hyphens between them, or in the characters it
\* is mistaken for.
Manner == {"printed", "spaced", "hyphenated", "lookalike"}
Grouped(gap, text) ==
  <<gap>> \o SubSeq(text, 1, 9) \o <<gap, "-">> \o SubSeq(text, 10, Len(text))
Lookalike(ch) ==
  CASE ch = "1" -> "l" [] ch = "0" -> "o" [] ch = "T" -> "t" [] ch = "P" -> "p" [] OTHER -> ch
Written(manner, text) ==
  CASE manner = "printed" -> text
    [] manner = "spaced" -> Grouped("space", text)
    [] manner = "hyphenated" -> Grouped("-", text)
    [] manner = "lookalike" -> [i \in DOMAIN text |-> Lookalike(text[i])]

\* One slip: a character is another one, two symbols change places, a character is left
\* out or typed twice. The check symbol and the digit 18 before the last are not among those that
\* change places: 32 ^ 18 is -1 modulo 37, so their exchange can pass.
Slips(text) ==
  LET n == Len(text)
  IN {[text EXCEPT ![i] = ch] : i \in 1 .. n, ch \in Typeable}
     \cup {[text EXCEPT ![p[1]] = text[p[2]], ![p[2]] = text[p[1]]] :
             p \in {q \in (1 .. n) \X (1 .. n) : q[1] < q[2] /\ 4 \notin {q[1], q[2]}
                                                /\ q # <<n - 19, n>>}}
     \cup {RemoveAt(text, i) : i \in 1 .. n}
     \cup {InsertAt(text, i, text[i]) : i \in 1 .. n}

----------------------------------------------------------------------------
(* The API's answer *)

Verification == {"unverified", "pending", "verified", "suspended"}
NoIssuer == "no_issuer"
Status == {"registered", "active", "suspended", "retired"}
Event == {"product_suspended", "product_reinstated"}

\* What the tables hold of a published product when it is read.
Record == [status : Status, issuer : Verification \cup {NoIssuer}, serial : Serials,
           history : SUBSET Event]
NoRecord == [status |-> "registered", issuer |-> NoIssuer, serial |-> 0, history |-> {}]

\* discloseSerial: the last four, of a serial that hides more than it shows.
NotShown == [suffix |-> 0, hidden |-> 0]
discloseSerial(length) ==
  IF length > 8 THEN [suffix |-> 4, hidden |-> length - 4] ELSE NotShown

\* A mutant: a company being checked is as good as one that was.
ClaimsAtOnce(verification) ==
  [issuer |-> IF verification = NoIssuer THEN "not_present"
              ELSE IF verification = "pending" THEN "verified" ELSE verification,
   serial |-> "recorded", secure_tag |-> "not_present", warranty |-> "not_recorded",
   physical_authenticity |-> "not_verifiable"]

computeVerificationClaims(verification) ==
  [issuer |-> IF verification = NoIssuer THEN "not_present" ELSE verification,
   serial |-> "recorded", secure_tag |-> "not_present", warranty |-> "not_recorded",
   physical_authenticity |-> "not_verifiable"]

NoBody == [error |-> "none"]
Error(code) == [error |-> code]
PassportOf(id, r) ==
  [error |-> "none", id |-> id, status |-> r.status, issuer |-> r.issuer,
   serial |-> discloseSerial(r.serial), claims |-> computeVerificationClaims(r.issuer),
   history |-> r.history]

\* GET /passports/:id of a text and of the record under the code it names. Only the length
\* is a matter of the schema, whose failures have a code of their own.
Answer(text, found, r) ==
  LET parsed == parseTrustPassId(text)
  IN IF Len(text) > 64 THEN [status |-> 422, body |-> Error("validation_failed")]
     ELSE IF ~parsed.ok
     THEN [status |-> 422,
           body |-> Error(IF parsed.error = "checksum_mismatch"
                          THEN "mistyped_trustpass_id" ELSE "malformed_trustpass_id")]
     ELSE IF parsed.id \in found
     THEN [status |-> 200, body |-> PassportOf(parsed.id, r)]
     ELSE [status |-> 404, body |-> Error("passport_not_found")]

\* What comes back when the API was not reached, or something else answered for it: no
\* answer, a failure, a refusal to serve, an API without this route, a body that is not
\* a passport. An answer of status 0 is a fetch that threw, or a body that would not parse.
Failures ==
  {[status |-> s, body |-> NoBody] : s \in {0, 200, 500}}
  \cup {[status |-> 404, body |-> Error("not_found")],
        [status |-> 429, body |-> Error("rate_limited")]}

----------------------------------------------------------------------------
(* The page *)

isPassportView(body) == "id" \in DOMAIN body

\* fetchPassport: by the error's code, never by the status alone.
Outcome(response) ==
  LET code == IF response.status \in {404, 422} THEN response.body.error ELSE "none"
  IN CASE response.status = 200 /\ isPassportView(response.body) -> "found"
       [] code = "passport_not_found"     -> "not_found"
       [] code = "mistyped_trustpass_id"  -> "mistyped"
       [] code = "malformed_trustpass_id" -> "malformed"
       [] OTHER -> "unavailable"

\* claim-wording.ts; a state the page does not know is neutral.
describeClaim(state) ==
  CASE state = "verified" -> "positive" [] state = "unverified" -> "caution"
    [] state = "suspended" -> "negative" [] OTHER -> "neutral"
describeStatus(status) ==
  CASE status = "suspended" -> "negative" [] status = "retired" -> "caution" [] OTHER -> "neutral"
describeHistoryEntry(type) == IF type = "product_suspended" THEN "caution" ELSE "neutral"

Warnings(p) ==
  {b \in {"product_suspended", "product_retired", "no_issuer", "issuer_unverified",
          "issuer_suspended"} :
     CASE b = "product_suspended" -> p.status = "suspended"
       [] b = "product_retired" -> p.status = "retired"
       [] b = "no_issuer" -> p.issuer = NoIssuer
       [] b = "issuer_unverified" -> p.issuer = "unverified"
       [] b = "issuer_suspended" -> p.issuer = "suspended"}

\* A deployment sets NEXT_PUBLIC_SITE_URL, or forgets it or sets what is no URL, and
\* is a production build or not; a request names a host. The next request may meet the
\* next deployment.
Site == [url : {"valid", "unset"}, production : BOOLEAN]
Host == {"ours", "another", "unusable"}
Unknown == [kind |-> "unknown", base |-> "none"]

\* Configuration, and outside production the request's host.
resolvePassportOrigin(site, host) ==
  IF site.url = "valid" THEN [kind |-> "configured", base |-> "ours"]
  ELSE IF ~site.production /\ host # "unusable" THEN [kind |-> "request", base |-> host]
  ELSE Unknown

PassportQr(site, host) == resolvePassportOrigin(site, host).base

History(p) == {describeHistoryEntry(type) : type \in p.history}

\* What the page says: its banners, the tone of every line, the serial's end, the QR.
Passport(p, site, host) ==
  [kind |-> "found", id |-> p.id, banners |-> Warnings(p),
   status |-> describeStatus(p.status),
   claims |-> [c \in DOMAIN p.claims |-> describeClaim(p.claims[c])],
   history |-> History(p),
   serial |-> p.serial,
   company |-> p.issuer # NoIssuer,
   qr |-> PassportQr(site, host)]

\* The other pages: nothing registered, this code has a typo, this is no code of ours,
\* no check has been made.
Words(outcome) == [kind |-> outcome]

PassportPage(response, site, host) ==
  LET outcome == Outcome(response)
  IN IF outcome = "found" THEN Passport(response.body, site, host) ELSE Words(outcome)

----------------------------------------------------------------------------
(* A visit *)

\* encodeURIComponent, of the characters a reader has.
Escape(ch) ==
  CASE ch = "$" -> <<"%", "2", "4">> [] ch = "=" -> <<"%", "3", "D">>
    [] ch = "space" -> <<"%", "2", "0">> [] OTHER -> <<ch>>

\* What the API is asked for. The text is a segment of the page's address. The framework
\* hands it over escaped, fetchPassport escapes it once more, and the API undoes one of the
\* two: it reads the text escaped once.
Asked(text) ==
  LET escaped[i \in 0 .. Len(text)] ==
        IF i = 0 THEN <<>> ELSE escaped[i - 1] \o Escape(text[i])
  IN escaped[Len(text)]

\* Nobody visits; a label is looked at; a text has been typed; the page is shown. A
\* label is printed for a product that is registered, and what is registered is not a
\* draft again. A text is plain when escaping leaves it as it is.
Nobody == [at |-> "nowhere"]

Type ==
  /\ visit = Nobody
  /\ \E v \in Values, manner \in Manner :
       \E text \in {format(v)} \cup Slips(format(v)) :
         LET read == Written(manner, text)
         IN visit' = [at |-> "typed", label |-> v, text |-> read, slip |-> text # format(v),
                      plain |-> Asked(read) = read]
  /\ UNCHANGED kept

\* The API answers from the record it reads, or does not.
Answered(response, reached, r) ==
  visit' = [at |-> "answered", label |-> visit.label, slip |-> visit.slip,
            plain |-> visit.plain, response |-> response, reached |-> reached, record |-> r]

Fetch ==
  /\ visit.at = "typed"
  /\ LET asked == Asked(visit.text)
         unread == Answer(asked, {}, NoRecord)
     IN \/ /\ unread.status # 404
           /\ Answered(unread, TRUE, NoRecord)
        \/ /\ unread.status = 404
           /\ \E r \in Record : Answered(Answer(asked, Values, r), TRUE, r)
        \/ \E response \in Failures : Answered(response, FALSE, NoRecord)
  /\ UNCHANGED kept

Render ==
  /\ visit.at = "answered"
  /\ \E site \in Site, host \in Host :
       visit' = [at |-> "shown", production |-> site.production,
                 label |-> visit.label, slip |-> visit.slip, plain |-> visit.plain,
                 reached |-> visit.reached, record |-> visit.record,
                 page |-> PassportPage(visit.response, site, host)]
  /\ UNCHANGED kept

Leave ==
  /\ visit.at = "shown"
  /\ visit' = Nobody
  /\ UNCHANGED kept

----------------------------------------------------------------------------
(* GET /trustpass/:id/qr.svg, and whatever caches it *)

cacheControlFor(origin) ==
  IF origin.kind = "configured" THEN "immutable" ELSE "no_store"

\* A cache in front of the site answers from what it keeps.
Download ==
  /\ visit = Nobody /\ kept = "nothing"
  /\ \E site \in Site, host \in Host :
       LET origin == resolvePassportOrigin(site, host)
       IN /\ origin # Unknown
          /\ kept' = IF cacheControlFor(origin) = "no_store" THEN kept ELSE origin.base
          /\ visit' = [at |-> "downloaded", production |-> site.production, host |-> host,
                       qr |-> origin.base]

DownloadKept ==
  /\ visit = Nobody /\ kept # "nothing"
  /\ \E site \in Site, host \in Host :
       visit' = [at |-> "downloaded", production |-> site.production, host |-> host, qr |-> kept]
  /\ UNCHANGED kept

Done ==
  /\ visit.at = "downloaded"
  /\ visit' = Nobody
  /\ UNCHANGED kept

PagesInit ==
  /\ kept = "nothing"
  /\ visit = Nobody

PagesNext ==
  Type \/ Fetch \/ Render \/ Leave \/ Download \/ DownloadKept \/ Done

PagesSpec == PagesInit /\ [][PagesNext]_vars

----------------------------------------------------------------------------
(* Properties *)

Shown == visit.at = "shown"

\* A label on a registered product, read with at most one slip, is never answered with
\* "no product is registered under this code", nor with the passport of another; read
\* without one, in characters an address carries as they are, and answered by the API, it is
\* found. An API that was not reached is never an answer (trustpass-id.ts:79-82,
\* passport.ts:143-151). Of a code that ends in $ or =, or has spaces, the page says that it
\* is none: it never finds it, and this does not say that it does.
NoFalseAccusation ==
  Shown =>
    /\ visit.page.kind # "not_found"
    /\ visit.page.kind = "found" => visit.page.id = visit.label
    /\ visit.reached /\ ~visit.slip /\ visit.plain => visit.page.kind = "found"
    /\ ~visit.reached => visit.page.kind = "unavailable"

\* Nothing on a page is louder than the record it was read from: green is for a
\* company that was verified and for nothing else, a suspended or retired product and
\* an issuer that is unknown, unchecked or no longer trusted stand above everything, no
\* history accuses, and a serial hides more than it shows. A QR names an address of the
\* request that asked for it or the configured one, never another request's, and in
\* production never a request's (ADR 0003; claim-wording.ts, serial-disclosure.ts,
\* passport-origin.ts).
NothingBeyondTheRecord ==
  /\ (Shown /\ visit.page.kind = "found") =>
       LET page == visit.page  r == visit.record
       IN /\ \A c \in DOMAIN page.claims : page.claims[c] = "positive" =>
               c = "issuer" /\ r.issuer = "verified"
          /\ r.status = "suspended" => "product_suspended" \in page.banners
          /\ r.status = "retired" => "product_retired" \in page.banners
          /\ r.issuer = NoIssuer => "no_issuer" \in page.banners /\ ~page.company
          /\ r.issuer \in {"unverified", "suspended"} =>
               page.banners \cap {"issuer_unverified", "issuer_suspended"} # {}
          /\ "negative" \notin page.history
          /\ 2 * page.serial.suffix < r.serial \/ page.serial = NotShown
          /\ visit.production => page.qr \in {"ours", "none"}
  /\ visit.at = "downloaded" =>
       visit.qr \in {"ours"} \cup (IF visit.production THEN {} ELSE {visit.host})
=============================================================================
