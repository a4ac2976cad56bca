----------------------------- MODULE MCNdefRecords -----------------------------
(* NdefRecords with every message of up to two records out of a list, and    *)
(* one that fills the buffer.                                                *)
EXTENDS NdefRecords

Rec(tnf, type, tlen, plen) ==
  [sr |-> TRUE, il |-> FALSE, tnf |-> tnf, type |-> type, tlen |-> tlen, idlen |-> 0,
   plen |-> plen, status |-> 2, fields |-> <<>>]

F(tag, len) == [tag |-> tag, len |-> len]

Token(plen, fields) ==
  [Rec("media", "wifi", 23, plen) EXCEPT !.fields = fields, !.sr = plen <= 255]

Normal(r)    == [r EXCEPT !.sr = FALSE]
WithId(r, n) == [r EXCEPT !.il = TRUE, !.idlen = n]

Plain ==
  {Rec("well_known", t, WellKnown[t], 8) : t \in DOMAIN WellKnown}
    \cup {Rec("media", t, MediaLength[t], 5) : t \in DOMAIN MediaLength \ {"wifi"}}
    \cup {Rec("well_known", "none", 2, 0), Rec("well_known", "none", 3, 4), Rec("media", "none", 9, 3),
          Rec("media", "none", 0, 1), Rec("media", "vcard", 5, 2), Rec("media", "bt", 16, 2),
          Rec("absolute", "none", 6, 0), Rec("other", "none", 0, 0)}

(* Texts and URIs without payload; texts of which nothing follows, UTF-16.   *)
Cut ==
  {Rec("well_known", "T", 1, 0), Rec("well_known", "U", 1, 0), Rec("well_known", "U", 1, 1)}
    \cup {[Rec("well_known", "T", 1, 8) EXCEPT !.status = s] : s \in {0, 7, 8, 131}}

Tokens ==
  {Token(0, <<>>),
   Token(23, <<F("wrapper", 19), F("ssid", 3), F("auth", 2), F("enc", 2)>>),
   Token(24, <<F("other", 2), F("ssid", 1), F("key", 5), F("junk", 0), F("ssid", 0)>>),
   Token(255, <<F("key", 64), F("ssid", 183)>>),
   Token(256, <<F("key", 64), F("ssid", 184)>>),
   Token(300, <<F("key", 64), F("other", 228)>>),
   Token(20, <<F("other", 4), F("wrapper", 8), F("ssid", 4)>>),
   Token(10, <<F("ssid", 12)>>)}

Records ==
  Plain \cup Cut \cup Tokens \cup {Normal(r) : r \in Tokens}
    \cup {WithId(r, 2) : r \in Plain} \cup {WithId(Normal(r), 0) : r \in Plain}

SomeMessages ==
  [records : {<<r>> : r \in Records} \cup (Records \X (Plain \cup Cut \cup Tokens)), open : {FALSE}]
    \cup [records : {<<r>> : r \in Records}, open : {TRUE}]
    \cup {[records |-> <<Rec("well_known", "U", 1, 8), Normal(Rec("well_known", "T", 1, 481))>>, open |-> FALSE]}
=============================================================================
