-------------------------- MODULE DiceChainProofs --------------------------
(***************************************************************************)
(* Proofs about DiceChain, for any ROM_EXT images, owner stages and number *)
(* of faults.                                                              *)
(***************************************************************************)
EXTENDS DiceChain, SequenceTheorems, TLAPS

-----------------------------------------------------------------------------
(* Certificates and pages.                                                 *)

LEMMA CertificateFacts ==
  /\ NoCert \in Certificates /\ UdsCert \in Certificates
  /\ \A r \in RomExts : Cdi0Cert(r) \in Certificates
  /\ \A r \in RomExts, o \in Owners : Cdi1Cert(r, o) \in Certificates
  /\ \A c \in Certificates : [c EXCEPT !.whole = FALSE] \in Certificates
  /\ LeftCerts \subseteq Certificates
<1>1. UdsKey \in Keys /\ <<>> \in Keys /\ <<"ca">> \in Keys /\ <<"left">> \in Keys
      /\ (\A r \in RomExts : <<"cdi_0", r>> \in Keys)
      /\ \A r \in RomExts, o \in Owners : <<"cdi_1", r, o>> \in Keys
  BY DEF Keys
<1>2. NoCert \in Certificates /\ UdsCert \in Certificates
  BY <1>1 DEF Certificates, NoCert, UdsCert, Cert
<1>3. ASSUME NEW r \in RomExts PROVE Cdi0Cert(r) \in Certificates
  BY <1>1 DEF Certificates, Cdi0Cert, Cert
<1>4. ASSUME NEW r \in RomExts, NEW o \in Owners PROVE Cdi1Cert(r, o) \in Certificates
  BY <1>1 DEF Certificates, Cdi1Cert, Cert
<1>5. ASSUME NEW c \in Certificates PROVE [c EXCEPT !.whole = FALSE] \in Certificates
  BY DEF Certificates
<1>6. ASSUME NEW key \in Keys PROVE LeftCert(key) \in Certificates
  BY <1>1 DEF Certificates, LeftCert, Cert
<1>7. LeftCerts \subseteq Certificates
  BY <1>1, <1>6 DEF LeftCerts
<1> QED
  BY <1>2, <1>3, <1>4, <1>5, <1>7

LEMMA KeyFacts ==
  ASSUME firmware \in [rom_ext : RomExts, owner : Owners]
  PROVE  UdsKey \in Keys /\ <<>> \in Keys /\ Cdi0Key \in Keys /\ Cdi1Key \in Keys
BY DEF Keys, Cdi0Key, Cdi1Key

LEMMA PageTypes ==
  ASSUME NEW objs \in Seq(Certificates), Len(objs) <= 2, NEW sealed \in BOOLEAN
  PROVE  Page(objs, sealed) \in Pages /\ Page(objs, sealed).objs = objs
         /\ Page(objs, sealed).sealed = sealed
BY DEF Page, Pages

LEMMA PageParts ==
  ASSUME NEW p \in Pages
  PROVE  /\ p.objs \in Seq(Certificates) /\ Len(p.objs) \in 0..2 /\ p.sealed \in BOOLEAN
         /\ p = Page(p.objs, p.sealed)
         /\ \A i \in 1 .. Len(p.objs) : p.objs[i] \in Certificates
<1>1. p \in [objs : Seq(Certificates), sealed : BOOLEAN] /\ Len(p.objs) <= 2
  BY DEF Pages
<1>2. p.objs \in Seq(Certificates) /\ p.sealed \in BOOLEAN /\ p = Page(p.objs, p.sealed)
  BY <1>1 DEF Page
<1>3. Len(p.objs) \in 0..2
  <2>1. Len(p.objs) \in Nat
    BY <1>2, LenProperties
  <2>2. \A n \in Nat : n <= 2 => n \in 0..2
    OBVIOUS
  <2> QED
    BY <1>1, <2>1, <2>2
<1> QED
  BY <1>2, <1>3, ElementOfSeq

LEMMA OneObject ==
  ASSUME NEW S, NEW x \in S
  PROVE  <<x>> \in Seq(S) /\ Len(<<x>>) = 1 /\ <<x>>[1] = x
OBVIOUS

LEMMA TwoObjects ==
  ASSUME NEW S, NEW x \in S, NEW y \in S
  PROVE  <<x, y>> \in Seq(S) /\ Len(<<x, y>>) = 2 /\ <<x, y>>[1] = x /\ <<x, y>>[2] = y
OBVIOUS

LEMMA OneThenOne ==
  ASSUME NEW S, NEW x \in S, NEW y \in S
  PROVE  <<x>> \o <<y>> = <<x, y>>
<1>1. <<x>> \in Seq(S) /\ <<y>> \in Seq(S) /\ <<x, y>> \in Seq(S)
      /\ Len(<<x>>) = 1 /\ Len(<<y>>) = 1 /\ Len(<<x, y>>) = 2
      /\ <<x>>[1] = x /\ <<y>>[1] = y /\ <<x, y>>[1] = x /\ <<x, y>>[2] = y
  BY OneObject, TwoObjects
<1> DEFINE s == <<x>> \o <<y>>
<1>2. s \in Seq(S) /\ Len(s) = 2 /\ s[1] = x /\ s[2] = y
  BY <1>1, ConcatProperties
<1> HIDE DEF s
<1>3. Len(s) = Len(<<x, y>>) /\ \A i \in 1 .. Len(s) : s[i] = <<x, y>>[i]
  BY <1>1, <1>2
<1>4. s = <<x, y>>
  BY <1>1, <1>2, <1>3, SeqEqual
<1> QED
  BY <1>4 DEF s

LEMMA ShortPages ==
  /\ BlankPage \in Pages /\ Page(<<>>, TRUE) \in Pages
  /\ \A r \in RomExts, sealed \in BOOLEAN : Page(<<Cdi0Cert(r)>>, sealed) \in Pages
  /\ \A r \in RomExts, o \in Owners, sealed \in BOOLEAN : Page(ChainOf(r, o), sealed) \in Pages
<1>1. <<>> \in Seq(Certificates) /\ Len(<<>>) <= 2
  BY EmptySeq
<1>2. ASSUME NEW r \in RomExts
      PROVE  <<Cdi0Cert(r)>> \in Seq(Certificates) /\ Len(<<Cdi0Cert(r)>>) <= 2
  BY CertificateFacts, OneObject
<1>3. ASSUME NEW r \in RomExts, NEW o \in Owners
      PROVE  ChainOf(r, o) \in Seq(Certificates) /\ Len(ChainOf(r, o)) <= 2
  BY CertificateFacts, TwoObjects DEF ChainOf, Endorses
<1> QED
  BY <1>1, <1>2, <1>3, PageTypes DEF BlankPage

(* What an interrupted operation leaves is a page without its digest.      *)
LEMMA TornPages ==
  ASSUME NEW p \in Pages, NEW q \in Torn(p)
  PROVE  q \in Pages /\ q.sealed = FALSE
<1>1. ASSUME NEW n \in 0 .. Len(p.objs)
      PROVE  /\ SubSeq(p.objs, 1, n) \in Seq(Certificates)
             /\ Len(SubSeq(p.objs, 1, n)) = n
             /\ \A i \in 1 .. n : SubSeq(p.objs, 1, n)[i] \in Certificates
  BY PageParts, SubSeqProperties
<1>2. CASE \E n \in 0 .. Len(p.objs) : q = Page(SubSeq(p.objs, 1, n), FALSE)
  <2>1. PICK n \in 0 .. Len(p.objs) : q = Page(SubSeq(p.objs, 1, n), FALSE)
    BY <1>2
  <2>2. n <= 2
    BY PageParts
  <2> QED
    BY <1>1, <2>1, <2>2, PageTypes
<1>3. CASE \E n \in 1 .. Len(p.objs) :
             q = Page([SubSeq(p.objs, 1, n) EXCEPT ![n].whole = FALSE], FALSE)
  <2>1. PICK n \in 1 .. Len(p.objs) :
               q = Page([SubSeq(p.objs, 1, n) EXCEPT ![n].whole = FALSE], FALSE)
    BY <1>3
  <2> DEFINE s == SubSeq(p.objs, 1, n)
  <2>2. s \in Seq(Certificates) /\ Len(s) = n /\ n \in 1 .. Len(s) /\ n <= 2
    BY <1>1, PageParts
  <2>3. [s[n] EXCEPT !.whole = FALSE] \in Certificates
    BY <1>1, CertificateFacts
  <2>4. q = Page([s EXCEPT ![n] = [s[n] EXCEPT !.whole = FALSE]], FALSE)
    BY <2>1
  <2> HIDE DEF s
  <2>5. [s EXCEPT ![n] = [s[n] EXCEPT !.whole = FALSE]] \in Seq(Certificates)
        /\ Len([s EXCEPT ![n] = [s[n] EXCEPT !.whole = FALSE]]) = Len(s)
    BY <2>2, <2>3, ExceptSeq
  <2> QED
    BY <2>2, <2>4, <2>5, PageTypes
<1> QED
  BY <1>2, <1>3 DEF Torn

-----------------------------------------------------------------------------
(* The operations on the buffer.                                           *)
LEMMA LoadFlashFacts ==
  ASSUME TypeOK, NEW c \in ChainType, ~c.dirty, NEW info \in {"factory", "dice"}
  PROVE  LET d == LoadFlash(flash, c, info)
         IN  /\ d \in ChainType /\ d.info = info /\ d.tail = 0 /\ ~d.dirty
             /\ d.endorsement = c.endorsement
             /\ d.page = IF c.info = info THEN c.page ELSE flash[info]
<1>1. flash[info] \in Pages
  BY DEF TypeOK
<1>2. CASE c.info = info
  BY <1>2 DEF LoadFlash, ChainType
<1>3. CASE c.info # info
  <2>1. LoadFlash(flash, c, info) = [c EXCEPT !.info = info, !.page = flash[info], !.dirty = FALSE,
                                              !.tail = 0, !.obj = NoCert, !.valid = FALSE]
    BY <1>3 DEF LoadFlash, Flushed
  <2>2. flash[info] \in Pages /\ NoCert \in Certificates
    BY <1>1, CertificateFacts
  <2>3. LoadFlash(flash, c, info) =
          [info |-> info, page |-> flash[info], dirty |-> FALSE, tail |-> 0,
           obj |-> NoCert, valid |-> FALSE, endorsement |-> c.endorsement]
    BY <2>1, Zenon DEF ChainType
  <2>4. c.endorsement \in Keys /\ 0 \in 0..2
    BY DEF ChainType
  <2>5. LoadFlash(flash, c, info) \in ChainType
    BY <2>2, <2>3, <2>4 DEF ChainType
  <2> QED
    BY <1>3, <2>3, <2>5
<1> QED
  BY <1>2, <1>3

LEMMA LoadCertObjFacts ==
  ASSUME NEW c \in ChainType, NEW name, NEW key
  PROVE  LET d == LoadCertObj(c, name, key)
         IN  /\ d \in ChainType /\ d.info = c.info /\ d.page = c.page /\ d.tail = c.tail
             /\ d.dirty = c.dirty /\ d.endorsement = c.endorsement
             /\ c.tail < Len(c.page.objs) => d.obj = c.page.objs[c.tail + 1]
             /\ c.tail >= Len(c.page.objs) => d.obj = NoCert
             /\ d.valid <=> d.obj.name = name /\ d.obj.key = key
<1> DEFINE obj == IF c.tail < Len(c.page.objs) THEN c.page.objs[c.tail + 1] ELSE NoCert
           valid == obj.name = name /\ obj.key = key
<1>1. c.page \in Pages /\ c.tail \in 0..2
  BY DEF ChainType
<1>2. obj \in Certificates
  BY <1>1, PageParts, CertificateFacts
<1>3. LoadCertObj(c, name, key) = [c EXCEPT !.obj = obj, !.valid = valid]
  BY DEF LoadCertObj
<1>4. c.tail >= Len(c.page.objs) => obj = NoCert
  BY <1>1, PageParts
<1>5. valid \in BOOLEAN /\ (valid <=> obj.name = name /\ obj.key = key)
  OBVIOUS
<1>6. c.tail < Len(c.page.objs) => obj = c.page.objs[c.tail + 1]
  OBVIOUS
<1> HIDE DEF obj, valid
<1> QED
  BY <1>2, <1>3, <1>4, <1>5, <1>6 DEF ChainType

LEMMA NextCertObjFacts ==
  ASSUME NEW c \in ChainType, c.tail <= 1
  PROVE  LET d == NextCertObj(c)
         IN  /\ d \in ChainType /\ d.info = c.info /\ d.page = c.page /\ d.tail = c.tail + 1
             /\ d.dirty = c.dirty /\ d.endorsement = c.endorsement
<1>1. c.tail + 1 \in 0..2
  BY DEF ChainType
<1> QED
  BY <1>1, CertificateFacts DEF NextCertObj, ChainType

LEMMA PushCertFacts ==
  ASSUME NEW c \in ChainType, c.tail <= 1, c.tail <= Len(c.page.objs), NEW cert \in Certificates
  PROVE  LET d == PushCert(c, cert)
         IN  /\ d \in ChainType /\ d.info = c.info /\ d.tail = c.tail + 1
             /\ d.dirty /\ d.endorsement = c.endorsement
             /\ Len(d.page.objs) = c.tail + 1
             /\ c.tail = 0 => d.page = Page(<<cert>>, FALSE)
             /\ c.tail = 1 => d.page = Page(<<c.page.objs[1], cert>>, FALSE)
<1> DEFINE objs == SubSeq(c.page.objs, 1, c.tail) \o <<cert>>
           page == Page(objs, FALSE)
           e == [c EXCEPT !.dirty = TRUE, !.page = page]
<1>1. c.page \in Pages /\ c.tail \in {0, 1}
  BY DEF ChainType
<1>2. Len(c.page.objs) \in 0..2
  BY <1>1, PageParts
<1>3. ASSUME c.tail = 0 PROVE objs = <<cert>>
  <2>1. SubSeq(c.page.objs, 1, 0) = <<>>
    BY SubSeqEmpty
  <2> QED
    BY <1>3, <2>1, OneObject, ConcatEmptySeq
<1>4. ASSUME c.tail = 1
      PROVE  objs = <<c.page.objs[1], cert>> /\ c.page.objs[1] \in Certificates
  <2> DEFINE x == c.page.objs[1]
  <2>1. x \in Certificates
    BY <1>1, <1>2, <1>4, PageParts
  <2>2. SubSeq(c.page.objs, 1, 1) = <<x>>
    <3>1. \A i \in 1 .. 1 : c.page.objs[i] \in Certificates
      BY <2>1
    <3>2. /\ SubSeq(c.page.objs, 1, 1) \in Seq(Certificates)
          /\ Len(SubSeq(c.page.objs, 1, 1)) = 1
          /\ SubSeq(c.page.objs, 1, 1)[1] = x
      BY <3>1, SubSeqProperties
    <3> HIDE DEF x
    <3>3. <<x>> \in Seq(Certificates) /\ Len(<<x>>) = 1 /\ <<x>>[1] = x
      BY <2>1, OneObject
    <3> DEFINE s == SubSeq(c.page.objs, 1, 1)
    <3>4. s \in Seq(Certificates) /\ Len(s) = 1 /\ s[1] = x
      BY <3>2
    <3> HIDE DEF s
    <3>5. Len(s) = Len(<<x>>) /\ \A i \in 1 .. Len(s) : s[i] = <<x>>[i]
      BY <3>3, <3>4
    <3>6. s = <<x>>
      BY <3>3, <3>4, <3>5, SeqEqual
    <3> QED
      BY <3>6 DEF s
  <2>3. SubSeq(c.page.objs, 1, 1) \o <<cert>> = <<x, cert>>
    BY <2>1, <2>2, OneThenOne
  <2> QED
    BY <1>4, <2>1, <2>3
<1>5. objs \in Seq(Certificates) /\ Len(objs) = c.tail + 1 /\ Len(objs) <= 2
      /\ (c.tail = 0 => objs = <<cert>>)
      /\ (c.tail = 1 => objs = <<c.page.objs[1], cert>>)
  <2> HIDE DEF objs
  <2>1. <<cert>> \in Seq(Certificates) /\ Len(<<cert>>) = 1
    BY OneObject
  <2>2. c.page.objs[1] \in Certificates => /\ <<c.page.objs[1], cert>> \in Seq(Certificates)
                                          /\ Len(<<c.page.objs[1], cert>>) = 2
    BY TwoObjects
  <2>3. CASE c.tail = 0
    <3>1. objs \in Seq(Certificates) /\ Len(objs) = 1
      BY <1>3, <2>1, <2>3
    <3> QED
      BY <1>3, <2>3, <3>1
  <2>4. CASE c.tail = 1
    <3>1. objs \in Seq(Certificates) /\ Len(objs) = 2
      BY <1>4, <2>2, <2>4
    <3> QED
      BY <1>4, <2>4, <3>1
  <2> QED
    BY <1>1, <2>3, <2>4
<1> HIDE DEF objs
<1>6. page \in Pages /\ page.objs = objs
  BY <1>5, PageTypes
<1>7. PushCert(c, cert) = NextCertObj(e)
  BY DEF PushCert, objs
<1> HIDE DEF page
<1>8. e \in ChainType /\ e.info = c.info /\ e.page = page /\ e.tail = c.tail /\ e.dirty
      /\ e.endorsement = c.endorsement
  BY <1>6 DEF ChainType
<1> HIDE DEF e
<1> QED
  BY <1>5, <1>6, <1>7, <1>8, NextCertObjFacts DEF page

(* The object at the tail, when it is the CDI_0 certificate, is passed by. *)
LEMMA SkipCertObjFacts ==
  ASSUME NEW c \in ChainType, c.tail = 0, NEW name
  PROVE  LET d == SkipCertObj(c, name)
         IN  /\ d \in ChainType /\ d.info = c.info /\ d.page = c.page
             /\ d.dirty = c.dirty /\ d.endorsement = c.endorsement
             /\ d.tail \in {0, 1} /\ (d.tail <= Len(d.page.objs) \/ name = "none")
             /\ c.page.objs # <<>> /\ c.page.objs[1].name = name => d.tail = 1
<1> DEFINE e == LoadCertObj(c, "none", <<>>)
<1>1. c.page \in Pages /\ Len(c.page.objs) \in 0..2
  BY PageParts DEF ChainType
<1>2. /\ e \in ChainType /\ e.info = c.info /\ e.page = c.page /\ e.tail = c.tail
      /\ e.dirty = c.dirty /\ e.endorsement = c.endorsement
      /\ c.tail < Len(c.page.objs) => e.obj = c.page.objs[c.tail + 1]
      /\ c.tail >= Len(c.page.objs) => e.obj = NoCert
  BY LoadCertObjFacts
<1>3. SkipCertObj(c, name) = IF e.obj.name = name THEN NextCertObj(e) ELSE e
  BY DEF SkipCertObj
<1> HIDE DEF e
<1>4. c.page.objs # <<>> => 0 < Len(c.page.objs)
  BY <1>1, PageParts, EmptySeq
<1> QED
  BY <1>1, <1>2, <1>3, <1>4, NextCertObjFacts DEF NoCert, Cert

LEMMA NoChainFacts ==
  /\ NoChain \in ChainType /\ NoChain.info = "none" /\ ~NoChain.dirty
  /\ NoChain.endorsement = <<>> /\ NoChain.page = BlankPage
<1>1. <<>> \in Keys
  BY DEF Keys
<1> QED
  BY <1>1, CertificateFacts, ShortPages DEF NoChain, ChainType

(* The page of device certificates, freshly buffered.                      *)
LEMMA LoadDiceFacts ==
  ASSUME TypeOK, NEW c \in ChainType, ~c.dirty, c.info # "dice"
  PROVE  LET d == LoadFlash(flash, c, "dice")
         IN  /\ d \in ChainType /\ d.info = "dice" /\ d.tail = 0 /\ ~d.dirty
             /\ d.endorsement = c.endorsement /\ d.page = flash.dice
BY LoadFlashFacts

LEMMA RomExtCheckFacts ==
  ASSUME TypeOK
  PROVE  LET c == LoadFlash(flash, LoadFlash(flash, NoChain, "factory"), "dice")
         IN  /\ c \in ChainType /\ c.info = "dice" /\ ~c.dirty /\ c.page = flash.dice
             /\ [c EXCEPT !.page = BlankPage, !.dirty = TRUE] \in ChainType
<1> DEFINE b == LoadFlash(flash, NoChain, "factory")
           c == LoadFlash(flash, b, "dice")
<1>1. b \in ChainType /\ b.info = "factory" /\ ~b.dirty
  BY NoChainFacts, LoadFlashFacts
<1> HIDE DEF b
<1>2. c \in ChainType /\ c.info = "dice" /\ ~c.dirty /\ c.page = flash.dice
  BY <1>1, LoadDiceFacts
<1> HIDE DEF c
<1>3. [c EXCEPT !.page = BlankPage, !.dirty = TRUE] \in ChainType
  BY <1>2, ShortPages DEF ChainType
<1> QED
  BY <1>2, <1>3 DEF b, c

(* What Update leaves in the buffer: the certificate that was rebuilt, or  *)
(* the page of flash past its first certificate.                           *)
LEMMA UpdateFacts ==
  ASSUME TypeOK, ~chain.dirty
  PROVE  LET d == CheckCdi0(CheckUds(chain))
         IN  /\ d \in ChainType /\ d.info = "dice" /\ d.endorsement = Cdi0Key
             /\ d.tail <= 1 /\ d.tail <= Len(d.page.objs)
             /\ static.new => d.dirty /\ d.tail = 1 /\ d.page = Page(<<static.cert>>, FALSE)
             /\ ~static.new => ~d.dirty /\ d.page = flash.dice
             /\ ~static.new /\ flash.dice.objs # <<>> /\ flash.dice.objs[1].name = "CDI_0"
                  => d.tail = 1
<1> DEFINE a == LoadFlash(flash, chain, "factory")
           b == [a EXCEPT !.endorsement = UdsKey]
           u == CheckUds(chain)
           e == LoadFlash(flash, u, "dice")
           f == [e EXCEPT !.endorsement = Cdi0Key]
           d == CheckCdi0(u)
<1>1. UdsKey \in Keys /\ Cdi0Key \in Keys
  BY KeyFacts DEF TypeOK
<1>2. a \in ChainType /\ a.info = "factory" /\ ~a.dirty
  BY LoadFlashFacts DEF TypeOK
<1> HIDE DEF a
<1>3. b \in ChainType /\ b.info = "factory" /\ ~b.dirty
  BY <1>1, <1>2 DEF ChainType
<1>4. u = LoadCertObj(b, "UDS", UdsKey)
  BY DEF CheckUds, a
<1> HIDE DEF b, u
<1>5. u \in ChainType /\ u.info = "factory" /\ ~u.dirty
  BY <1>3, <1>4, LoadCertObjFacts
<1>6. e \in ChainType /\ e.info = "dice" /\ e.tail = 0 /\ ~e.dirty /\ e.page = flash.dice
  BY <1>5, LoadDiceFacts
<1>7. d = IF static.new THEN PushCert(f, static.cert) ELSE SkipCertObj(f, "CDI_0")
  BY DEF CheckCdi0
<1> HIDE DEF e, d
<1>8. /\ f \in ChainType /\ f.info = "dice" /\ f.tail = 0 /\ ~f.dirty /\ f.page = flash.dice
      /\ f.endorsement = Cdi0Key
  BY <1>1, <1>6 DEF ChainType
<1>9. Len(f.page.objs) \in 0..2
  BY <1>8, PageParts DEF ChainType
<1> HIDE DEF f
<1>10. ASSUME static.new
       PROVE  /\ d \in ChainType /\ d.info = "dice" /\ d.tail = 1 /\ d.dirty
              /\ d.endorsement = Cdi0Key
              /\ Len(d.page.objs) = 1 /\ d.page = Page(<<static.cert>>, FALSE)
  <2>1. static.cert \in Certificates
    BY DEF TypeOK
  <2>2. d = PushCert(f, static.cert)
    BY <1>7, <1>10
  <2>3. f.tail <= 1 /\ f.tail <= Len(f.page.objs) /\ f.tail + 1 = 1
    BY <1>8, <1>9
  <2> QED
    BY <1>8, <2>1, <2>2, <2>3, PushCertFacts
<1>11. ASSUME ~static.new
       PROVE  /\ d \in ChainType /\ d.info = "dice" /\ d.tail \in {0, 1} /\ ~d.dirty
              /\ d.endorsement = Cdi0Key
              /\ d.tail <= Len(d.page.objs) /\ d.page = flash.dice
              /\ flash.dice.objs # <<>> /\ flash.dice.objs[1].name = "CDI_0" => d.tail = 1
  <2>1. d = SkipCertObj(f, "CDI_0")
    BY <1>7, <1>11
  <2> QED
    BY <1>8, <2>1, SkipCertObjFacts
<1>12. d.tail <= 1 /\ d.tail <= Len(d.page.objs)
  <2>1. CASE static.new
    <3>1. d.tail = 1 /\ Len(d.page.objs) = 1
      BY <1>10, <2>1, Zenon
    <3> QED
      BY <3>1
  <2>2. CASE ~static.new
    <3>1. d.tail \in {0, 1} /\ d.tail <= Len(d.page.objs)
      BY <1>11, <2>2, Zenon
    <3> QED
      BY <3>1
  <2> QED
    BY <2>1, <2>2, Zenon
<1> QED
  BY <1>10, <1>11, <1>12, Zenon DEF d, u

(* What AttestOwner leaves in the buffer: what was there, or the owner's   *)
(* certificate after the CDI_0 one.                                        *)
LEMMA AttestOwnerFacts ==
  ASSUME TypeOK, chain.tail <= 1, chain.tail <= Len(chain.page.objs),
         chain.endorsement \in Keys, static.saved = chain.endorsement
  PROVE  LET c == LoadCertObj(chain, "CDI_1", Cdi1Key)
             cert == Cert("CDI_1", Cdi1Key, c.endorsement, static.saved)
             d == IF c.valid THEN NextCertObj(c) ELSE PushCert(c, cert)
         IN  /\ [d EXCEPT !.endorsement = Cdi1Key] \in ChainType
             /\ d.info = chain.info
             /\ c.valid => d.page = chain.page /\ d.dirty = chain.dirty
             /\ ~c.valid => d.dirty
             /\ ~c.valid /\ chain.tail = 1 =>
                  d.page = Page(<<chain.page.objs[1],
                                  Cert("CDI_1", Cdi1Key, static.saved, static.saved)>>, FALSE)
             /\ c.valid /\ chain.tail = 1 =>
                  /\ Len(chain.page.objs) = 2 /\ chain.page.objs[2].key = Cdi1Key
             /\ chain.tail = 1 /\ Len(chain.page.objs) = 2 /\ chain.page.objs[2].name = "CDI_1"
                  /\ chain.page.objs[2].key = Cdi1Key => c.valid
<1> DEFINE c == LoadCertObj(chain, "CDI_1", Cdi1Key)
           cert == Cert("CDI_1", Cdi1Key, c.endorsement, static.saved)
           d == IF c.valid THEN NextCertObj(c) ELSE PushCert(c, cert)
           k == chain.endorsement
<1>1. k \in Keys /\ Cdi1Key \in Keys /\ Cdi1Key # <<>>
  BY KeyFacts DEF TypeOK, Cdi1Key
<1>2. chain \in ChainType /\ chain.tail \in {0, 1} /\ Len(chain.page.objs) \in 0..2
  BY PageParts DEF TypeOK, ChainType
<1>3. /\ c \in ChainType /\ c.info = chain.info /\ c.page = chain.page /\ c.tail = chain.tail
      /\ c.dirty = chain.dirty /\ c.endorsement = k
      /\ c.tail < Len(c.page.objs) => c.obj = c.page.objs[c.tail + 1]
      /\ c.tail >= Len(c.page.objs) => c.obj = NoCert
      /\ c.valid <=> c.obj.name = "CDI_1" /\ c.obj.key = Cdi1Key
  BY <1>2, LoadCertObjFacts
<1> HIDE DEF c
<1>4. cert \in Certificates /\ cert = Cert("CDI_1", Cdi1Key, static.saved, static.saved)
  <2>1. cert = [name |-> "CDI_1", key |-> Cdi1Key, by |-> k, signer |-> k, whole |-> TRUE]
    BY <1>3 DEF Cert
  <2>2. cert = Cert("CDI_1", Cdi1Key, static.saved, static.saved)
    BY <2>1 DEF Cert
  <2> HIDE DEF k, cert
  <2>3. [name |-> "CDI_1", key |-> Cdi1Key, by |-> k, signer |-> k, whole |-> TRUE] \in Certificates
    BY <1>1 DEF Certificates
  <2> QED
    BY <2>1, <2>2, <2>3, Zenon
<1> HIDE DEF cert
<1>5. ASSUME c.valid
      PROVE  /\ d \in ChainType /\ d.info = chain.info /\ d.page = chain.page
             /\ d.dirty = chain.dirty
             /\ chain.tail = 1 => Len(chain.page.objs) = 2 /\ chain.page.objs[2].key = Cdi1Key
  <2>1. d = NextCertObj(c)
    BY <1>5
  <2>2. d \in ChainType /\ d.info = chain.info /\ d.page = chain.page /\ d.dirty = chain.dirty
    BY <1>3, <2>1, NextCertObjFacts
  <2>3. chain.tail < Len(chain.page.objs)
    BY <1>1, <1>2, <1>3, <1>5 DEF NoCert, Cert
  <2> QED
    BY <1>2, <1>3, <1>5, <2>2, <2>3
<1>6. ASSUME ~c.valid
      PROVE  /\ d \in ChainType /\ d.info = chain.info /\ d.dirty
             /\ chain.tail = 1 => d.page = Page(<<chain.page.objs[1], cert>>, FALSE)
  <2>1. d = PushCert(c, cert)
    BY <1>6
  <2>2. c.tail <= 1 /\ c.tail <= Len(c.page.objs)
    BY <1>3
  <2>3. c \in ChainType /\ cert \in Certificates
    BY <1>3, <1>4
  <2>4. LET e == PushCert(c, cert)
        IN  /\ e \in ChainType /\ e.info = c.info /\ e.dirty
            /\ c.tail = 1 => e.page = Page(<<c.page.objs[1], cert>>, FALSE)
    BY <2>2, <2>3, PushCertFacts
  <2> QED
    BY <1>3, <2>1, <2>4, Zenon
<1>7. chain.tail = 1 /\ Len(chain.page.objs) = 2 /\ chain.page.objs[2].name = "CDI_1"
        /\ chain.page.objs[2].key = Cdi1Key => c.valid
  BY <1>3
<1>8. d \in ChainType
  BY <1>5, <1>6
<1> HIDE DEF d
<1>9. [d EXCEPT !.endorsement = Cdi1Key] \in ChainType
  BY <1>1, <1>8 DEF ChainType
<1> QED
  BY <1>4, <1>5, <1>6, <1>7, <1>9 DEF c, cert, d

LEMMA SealedPage ==
  ASSUME NEW p \in Pages
  PROVE  [p EXCEPT !.sealed = TRUE] = Page(p.objs, TRUE)
<1> DEFINE q == [p EXCEPT !.sealed = TRUE]
           yes == TRUE
<1>1. p \in [objs : Seq(Certificates), sealed : BOOLEAN]
  BY DEF Pages
<1> HIDE DEF yes
<1>2. [p EXCEPT !.sealed = yes] = [objs |-> p.objs, sealed |-> yes]
  BY <1>1
<1> QED
  BY <1>2, Zenon DEF Page, yes

LEMMA SealPageFacts ==
  ASSUME NEW c \in ChainType
  PROVE  LET d == SealPage(c)
         IN  /\ d \in ChainType /\ d.info = c.info /\ d.dirty = c.dirty
             /\ d.page = Page(c.page.objs, TRUE)
<1>1. c.page \in Pages /\ c.page.objs \in Seq(Certificates) /\ Len(c.page.objs) <= 2
  BY PageParts DEF ChainType
<1> DEFINE page == Page(c.page.objs, TRUE)
<1>2. page \in Pages
  BY <1>1, PageTypes
<1>3. [c.page EXCEPT !.sealed = TRUE] = page
  BY <1>1, SealedPage
<1>4. SealPage(c) = [c EXCEPT !.page = page]
  BY <1>3 DEF SealPage, ChainType
<1> HIDE DEF page
<1>5. [c EXCEPT !.page = page] \in ChainType
  BY <1>2 DEF ChainType
<1> QED
  BY <1>4, <1>5 DEF page, ChainType

LEMMA WrittenFacts ==
  ASSUME TypeOK, NEW c \in ChainType, c.info = "dice"
  PROVE  /\ Written(flash, c) \in [factory : Pages, dice : Pages]
         /\ Written(flash, c).factory = flash.factory
         /\ Written(flash, c).dice = Page(c.page.objs, TRUE)
<1>1. SealPage(c).page = Page(c.page.objs, TRUE) /\ Page(c.page.objs, TRUE) \in Pages
  BY SealPageFacts DEF ChainType
<1> DEFINE page == Page(c.page.objs, TRUE)
<1>2. page \in Pages /\ Written(flash, c) = [flash EXCEPT !["dice"] = page]
  BY <1>1 DEF Written
<1> HIDE DEF page
<1> QED
  BY <1>2 DEF TypeOK, page

LEMMA ReplacedPage ==
  ASSUME TypeOK, NEW p \in Pages
  PROVE  /\ [flash EXCEPT !["dice"] = p] \in [factory : Pages, dice : Pages]
         /\ [flash EXCEPT !["dice"] = p].factory = flash.factory
         /\ [flash EXCEPT !["dice"] = p].dice = p
BY DEF TypeOK

-----------------------------------------------------------------------------
(* Types, for whatever ROM may leave.                                      *)

LEMMA InitInv == Init => IInv
<1> SUFFICES ASSUME Init PROVE IInv
  OBVIOUS
<1>1. flash \in [factory : Pages, dice : Pages]
  <2>1. PICK r \in RomExts, o \in Owners :
          flash \in [factory : {Page(<<UdsCert>>, TRUE)},
                    dice : {BlankPage, Page(ChainOf(r, o), TRUE)}]
    BY Zenon DEF Init
  <2>2. BlankPage \in Pages /\ Page(ChainOf(r, o), TRUE) \in Pages
    BY ShortPages, Zenon
  <2>3. Page(<<UdsCert>>, TRUE) \in Pages
    <3>1. <<UdsCert>> \in Seq(Certificates) /\ Len(<<UdsCert>>) <= 2
      BY CertificateFacts, OneObject
    <3> QED
      BY <3>1, PageTypes, Zenon
  <2> DEFINE p == Page(<<UdsCert>>, TRUE)
             q == Page(ChainOf(r, o), TRUE)
  <2>4. flash \in [factory : {p}, dice : {BlankPage, q}] /\ p \in Pages /\ q \in Pages
    BY <2>1, <2>2, <2>3
  <2> HIDE DEF p, q
  <2> QED
    BY <2>2, <2>4
<1>2. UdsKey \in Keys
  BY DEF Keys
<1>3. TypeOK
  BY <1>1, <1>2, NoChainFacts, CertificateFacts DEF Init, TypeOK, NoStatic
<1>4. BufferOK
  BY DEF Init, BufferOK, Flushing
<1> QED
  BY <1>3, <1>4 DEF IInv

LEMMA ImmSectionInv == IInv /\ ImmSection => IInv'
<1> SUFFICES ASSUME IInv, ImmSection PROVE IInv'
  OBVIOUS
<1> USE DEF IInv
<1> DEFINE c == LoadCertObj(LoadFlash(flash, NoChain, "dice"), "CDI_0", Cdi0Key)
<1>1. c \in ChainType
  BY NoChainFacts, LoadDiceFacts, LoadCertObjFacts
<1>2. /\ chain' = c /\ pc' = "check" /\ UNCHANGED <<flash, firmware>>
      /\ \E left \in {NoCert} \cup LeftCerts :
           static' = IF c.valid THEN [new |-> left # NoCert, saved |-> Cdi0Key, cert |-> left]
                     ELSE [new |-> TRUE, saved |-> Cdi0Key, cert |-> Cdi0Cert(firmware.rom_ext)]
  BY DEF ImmSection
<1> HIDE DEF c
<1>3. Cdi0Key' = Cdi0Key /\ Cdi0Key \in Keys
  BY <1>2, KeyFacts DEF Cdi0Key, TypeOK
<1>4. static' \in [new : BOOLEAN, saved : Keys, cert : Certificates] /\ static'.saved = Cdi0Key
  <2>1. PICK left \in {NoCert} \cup LeftCerts :
          static' = IF c.valid THEN [new |-> left # NoCert, saved |-> Cdi0Key, cert |-> left]
                    ELSE [new |-> TRUE, saved |-> Cdi0Key, cert |-> Cdi0Cert(firmware.rom_ext)]
    BY <1>2
  <2>2. left \in Certificates
    BY CertificateFacts
  <2>3. firmware.rom_ext \in RomExts
    BY DEF TypeOK
  <2>4. CASE c.valid
    BY <1>3, <2>1, <2>2, <2>3, <2>4
  <2>5. CASE ~c.valid
    <3>1. Cdi0Cert(firmware.rom_ext) \in Certificates
      BY <2>3, CertificateFacts
    <3> QED
      BY <1>3, <2>1, <2>5, <3>1
  <2> QED
    BY <2>4, <2>5
<1>5. TypeOK'
  BY <1>1, <1>2, <1>4 DEF TypeOK
<1>6. BufferOK'
  BY <1>2, <1>3, <1>4 DEF BufferOK, Flushing
<1> QED
  BY <1>5, <1>6

LEMMA RomExtCheckInv == IInv /\ RomExtCheck => IInv'
<1> SUFFICES ASSUME IInv, RomExtCheck PROVE IInv'
  OBVIOUS
<1> USE DEF IInv
<1> DEFINE c == LoadFlash(flash, LoadFlash(flash, NoChain, "factory"), "dice")
<1>1. /\ c \in ChainType /\ c.info = "dice" /\ ~c.dirty /\ c.page = flash.dice
      /\ [c EXCEPT !.page = BlankPage, !.dirty = TRUE] \in ChainType
  BY RomExtCheckFacts
<1>2. /\ pc = "check"
      /\ \/ chain' = c /\ pc' = "update"
         \/ chain' = [c EXCEPT !.page = BlankPage, !.dirty = TRUE] /\ pc' = "clear"
      /\ UNCHANGED <<flash, static, firmware, faults>>
  BY DEF RomExtCheck
<1> HIDE DEF c
<1>3. chain' \in ChainType /\ chain'.info = "dice" /\ (pc' = "update" => ~chain'.dirty)
  BY <1>1, <1>2 DEF ChainType
<1>4. TypeOK'
  BY <1>2, <1>3 DEF TypeOK
<1>5. static'.saved = Cdi0Key'
  BY <1>2 DEF BufferOK, Cdi0Key
<1>6. BufferOK'
  BY <1>2, <1>3, <1>5 DEF BufferOK, Flushing
<1> QED
  BY <1>4, <1>6

LEMMA UpdateInv == IInv /\ Update => IInv'
<1> SUFFICES ASSUME IInv, Update PROVE IInv'
  OBVIOUS
<1> USE DEF IInv
<1>1. /\ pc = "update" /\ pc' = "attest" /\ chain' = CheckCdi0(CheckUds(chain))
      /\ UNCHANGED <<flash, static, firmware, faults>>
  BY DEF Update
<1>2. /\ chain' \in ChainType /\ chain'.info = "dice" /\ chain'.endorsement = Cdi0Key
      /\ chain'.tail <= 1 /\ chain'.tail <= Len(chain'.page.objs)
  BY <1>1, UpdateFacts DEF BufferOK
<1>3. Cdi0Key' = Cdi0Key /\ static'.saved = Cdi0Key
  BY <1>1 DEF BufferOK, Cdi0Key
<1>4. TypeOK'
  BY <1>1, <1>2 DEF TypeOK
<1>5. BufferOK'
  BY <1>1, <1>2, <1>3 DEF BufferOK, Flushing
<1> QED
  BY <1>4, <1>5

LEMMA TooLongInv == IInv /\ TooLong => IInv'
BY DEF IInv, TypeOK, BufferOK, TooLong, Flushing

LEMMA AttestOwnerInv == IInv /\ AttestOwner => IInv'
<1> SUFFICES ASSUME IInv, AttestOwner PROVE IInv'
  OBVIOUS
<1> USE DEF IInv
<1> DEFINE c == LoadCertObj(chain, "CDI_1", Cdi1Key)
           cert == Cert("CDI_1", Cdi1Key, c.endorsement, static.saved)
           d == IF c.valid THEN NextCertObj(c) ELSE PushCert(c, cert)
           e == [d EXCEPT !.endorsement = Cdi1Key]
<1>1. /\ pc = "attest" /\ pc' \in {"save", "owner"} /\ chain' = e
      /\ static' = [static EXCEPT !.saved = Cdi1Key] /\ UNCHANGED <<flash, firmware, faults>>
  BY DEF AttestOwner
<1>2. Cdi0Key \in Keys /\ Cdi1Key \in Keys
  BY KeyFacts DEF TypeOK
<1>3. e \in ChainType /\ d.info = chain.info /\ chain.info = "dice"
  BY <1>1, <1>2, AttestOwnerFacts DEF BufferOK
<1> HIDE DEF d
<1>4. e.info = "dice"
  BY <1>3 DEF ChainType
<1> HIDE DEF e
<1>5. TypeOK'
  BY <1>1, <1>2, <1>3 DEF TypeOK
<1>6. BufferOK'
  BY <1>1, <1>4 DEF BufferOK, Flushing
<1> QED
  BY <1>5, <1>6

LEMMA EraseInv == IInv /\ Erase => IInv'
<1> SUFFICES ASSUME IInv, Erase PROVE IInv'
  OBVIOUS
<1> USE DEF IInv
<1>1. /\ pc \in {"clear", "save"} /\ chain' = SealPage(chain)
      /\ pc' = (IF pc = "clear" THEN "cleared" ELSE "saved")
      /\ UNCHANGED <<static, firmware, faults>>
  BY DEF Erase
<1>2. chain.info = "dice"
  BY <1>1 DEF BufferOK, Flushing
<1>3. flash' \in [factory : Pages, dice : Pages]
  <2>1. flash' = [flash EXCEPT !["dice"] = BlankPage]
    BY <1>2 DEF Erase
  <2> QED
    BY <2>1, ShortPages, ReplacedPage
<1>4. chain' \in ChainType /\ chain'.info = "dice"
  BY <1>1, <1>2, SealPageFacts DEF TypeOK
<1>5. TypeOK'
  BY <1>1, <1>3, <1>4 DEF TypeOK
<1>6. Cdi0Key' = Cdi0Key
  BY <1>1 DEF Cdi0Key
<1>7. BufferOK'
  BY <1>1, <1>4, <1>6 DEF BufferOK, Flushing
<1> QED
  BY <1>5, <1>7

LEMMA WriteInv == IInv /\ Write => IInv'
<1> SUFFICES ASSUME IInv, Write PROVE IInv'
  OBVIOUS
<1> USE DEF IInv
<1>1. /\ pc \in {"cleared", "saved"} /\ chain' = [chain EXCEPT !.dirty = FALSE]
      /\ pc' \in {"owner", "update", "off"} /\ (pc' = "update" => pc = "cleared")
      /\ flash' = Written(flash, chain) /\ UNCHANGED <<static, firmware, faults>>
  BY DEF Write
<1>2. chain.info = "dice"
  BY <1>1 DEF BufferOK, Flushing
<1>3. flash' \in [factory : Pages, dice : Pages]
  BY <1>1, <1>2, WrittenFacts DEF TypeOK
<1>4. chain' \in ChainType /\ ~chain'.dirty
  BY <1>1 DEF TypeOK, ChainType
<1>5. TypeOK'
  BY <1>1, <1>3, <1>4 DEF TypeOK
<1>6. Cdi0Key' = Cdi0Key
  BY <1>1 DEF Cdi0Key
<1>7. BufferOK'
  BY <1>1, <1>4, <1>6 DEF BufferOK, Flushing
<1> QED
  BY <1>5, <1>7

LEMMA StartInv == IInv /\ Start => IInv'
<1> SUFFICES ASSUME IInv, Start PROVE IInv'
  OBVIOUS
<1>1. /\ pc' = "imm" /\ chain' = NoChain /\ static' = NoStatic
      /\ UNCHANGED <<flash, firmware, faults>>
  BY DEF Start
<1>2. NoStatic \in [new : BOOLEAN, saved : Keys, cert : Certificates]
  BY CertificateFacts DEF NoStatic, Keys
<1>3. TypeOK'
  BY <1>1, <1>2, NoChainFacts DEF IInv, TypeOK
<1>4. BufferOK'
  BY <1>1 DEF BufferOK, Flushing
<1> QED
  BY <1>3, <1>4 DEF IInv

LEMMA OwnerResetsInv == IInv /\ OwnerResets => IInv'
<1> SUFFICES ASSUME IInv, OwnerResets PROVE IInv'
  OBVIOUS
<1>1. pc' = "off" /\ firmware' \in [rom_ext : RomExts, owner : Owners]
      /\ UNCHANGED <<flash, chain, static, faults>>
  BY DEF OwnerResets
<1>2. TypeOK'
  BY <1>1 DEF IInv, TypeOK
<1>3. BufferOK'
  BY <1>1 DEF BufferOK, Flushing
<1> QED
  BY <1>2, <1>3 DEF IInv

(* A fault at most tears one page, of device certificates unless the chip  *)
(* is off.                                                                 *)
LEMMA FaultTears ==
  ASSUME IInv, Interrupted \/ Corrupts
  PROVE  /\ pc' = "off" /\ UNCHANGED <<static, firmware, chain>>
         /\ pc # "off" => flash'.factory = flash.factory
         /\ flash' \in [factory : Pages, dice : Pages]
         /\ flash'.dice = flash.dice \/ flash'.dice.sealed = FALSE
<1>1. pc' = "off" /\ UNCHANGED <<static, firmware, chain>>
  BY DEF Interrupted, Corrupts, Fault
<1>2. flash \in [factory : Pages, dice : Pages] /\ chain.page \in Pages
  BY DEF IInv, TypeOK, ChainType
<1>3. ASSUME NEW p \in Pages, p.sealed = FALSE, flash' = [flash EXCEPT !["dice"] = p]
      PROVE  /\ flash' \in [factory : Pages, dice : Pages] /\ flash'.factory = flash.factory
             /\ flash'.dice.sealed = FALSE
  BY <1>3, ReplacedPage DEF IInv
<1>4. CASE Interrupted
  <2>1. CASE UNCHANGED flash
    BY <1>1, <1>2, <2>1
  <2>2. CASE pc \in {"clear", "save"} /\
             \E p \in Torn(flash[chain.info]) : flash' = [flash EXCEPT ![chain.info] = p]
    <3>1. chain.info = "dice"
      BY <2>2 DEF IInv, BufferOK, Flushing
    <3>2. PICK p \in Torn(flash["dice"]) : flash' = [flash EXCEPT !["dice"] = p]
      BY <2>2, <3>1
    <3>3. p \in Pages /\ p.sealed = FALSE
      BY <1>2, <3>2, TornPages
    <3> QED
      BY <1>1, <1>3, <3>2, <3>3
  <2>3. CASE pc \in {"cleared", "saved"} /\
             \E p \in Torn(chain.page) : flash' = [flash EXCEPT ![chain.info] = p]
    <3>1. chain.info = "dice"
      BY <2>3 DEF IInv, BufferOK, Flushing
    <3>2. PICK p \in Torn(chain.page) : flash' = [flash EXCEPT !["dice"] = p]
      BY <2>3, <3>1
    <3>3. p \in Pages /\ p.sealed = FALSE
      BY <1>2, <3>2, TornPages
    <3> QED
      BY <1>1, <1>3, <3>2, <3>3
  <2> QED
    BY <1>4, <2>1, <2>2, <2>3 DEF Interrupted
<1>5. CASE Corrupts
  <2>1. pc = "off"
    BY <1>5 DEF Corrupts
  <2>2. PICK info \in DOMAIN flash : \E p \in Torn(flash[info]) : flash' = [flash EXCEPT ![info] = p]
    BY <1>5 DEF Corrupts
  <2>3. PICK p \in Torn(flash[info]) : flash' = [flash EXCEPT ![info] = p]
    BY <2>2
  <2>4. CASE info = "dice"
    <3>1. p \in Pages /\ p.sealed = FALSE
      BY <1>2, <2>3, <2>4, TornPages
    <3> QED
      BY <1>1, <1>3, <2>3, <2>4, <3>1
  <2>5. CASE info = "factory"
    <3>1. p \in Pages
      BY <1>2, <2>3, <2>5, TornPages
    <3> QED
      BY <1>1, <1>2, <2>1, <2>3, <2>5, <3>1
  <2> QED
    BY <1>2, <2>4, <2>5
<1> QED
  BY <1>4, <1>5

LEMMA FaultInv == IInv /\ (Interrupted \/ Corrupts) => IInv'
<1> SUFFICES ASSUME IInv, Interrupted \/ Corrupts PROVE IInv'
  OBVIOUS
<1>1. /\ pc' = "off" /\ UNCHANGED <<static, firmware, chain>>
      /\ flash' \in [factory : Pages, dice : Pages]
  BY FaultTears
<1>2. TypeOK'
  BY <1>1 DEF IInv, TypeOK
<1>3. BufferOK'
  BY <1>1 DEF BufferOK, Flushing
<1> QED
  BY <1>2, <1>3 DEF IInv

LEMMA StepInv == IInv /\ [Next]_vars => IInv'
<1> SUFFICES ASSUME IInv, [Next]_vars PROVE IInv'
  OBVIOUS
<1>1. CASE Boot
  BY <1>1, StartInv, ImmSectionInv, RomExtCheckInv, UpdateInv, TooLongInv, AttestOwnerInv,
     EraseInv, WriteInv DEF Boot
<1>2. CASE OwnerResets
  BY <1>2, OwnerResetsInv
<1>3. CASE Interrupted \/ Corrupts
  BY <1>3, FaultInv
<1>4. CASE UNCHANGED vars
  BY <1>4 DEF vars, IInv, TypeOK, BufferOK, Flushing, Cdi0Key
<1> QED
  BY <1>1, <1>2, <1>3, <1>4 DEF Next

(* The pages keep their shape, one page is ever written, and the issuer    *)
(* named in a certificate is the key that signs it, whatever is left in    *)
(* RAM and wherever power is lost.                                         *)
THEOREM InductiveInvariant == Spec => []IInv
<1>1. Init => IInv
  BY InitInv
<1>2. IInv /\ [Next]_vars => IInv'
  BY StepInv
<1> QED
  BY <1>1, <1>2, PTL DEF Spec

(* Every variable keeps its type.                                          *)
THEOREM TypeCorrect == Spec => []TypeOK
<1>1. IInv => TypeOK
  BY DEF IInv
<1> QED
  BY <1>1, InductiveInvariant, PTL

(* Every certificate in the buffer is signed by the issuer it names: the   *)
(* stage that endorses has its key saved in the ACC and its identity in    *)
(* the chain at the same time.                                             *)
THEOREM SignedByIssuer == Spec => []IssuerSigned
<1>1. IInv => IssuerSigned
  <2> SUFFICES ASSUME IInv, NEW i \in DOMAIN chain.page.objs
               PROVE  chain.page.objs[i].by = chain.page.objs[i].signer
    BY DEF IssuerSigned
  <2>1. chain.page \in Pages
    BY DEF IInv, TypeOK, ChainType
  <2>2. chain.page.objs \in Seq(Certificates)
    BY <2>1, PageParts
  <2>3. chain.page.objs[i] \in Certificates
    BY <2>2, ElementOfSeq, LenProperties
  <2> QED
    BY <2>3 DEF Certificates
<1> QED
  BY <1>1, InductiveInvariant, PTL

(* No boot writes the page of the factory.                                 *)
THEOREM FactoryUntouched == Spec => FactoryKept
<1>1. ASSUME IInv, [Next]_vars PROVE pc # "off" => flash'.factory = flash.factory
  <2>1. CASE Erase
    <3>1. chain.info = "dice"
      BY <1>1, <2>1 DEF Erase, IInv, BufferOK, Flushing
    <3> QED
      BY <1>1, <2>1, <3>1, ShortPages, ReplacedPage DEF Erase, IInv
  <2>2. CASE Write
    <3>1. chain.info = "dice"
      BY <1>1, <2>2 DEF Write, IInv, BufferOK, Flushing
    <3> QED
      BY <1>1, <2>2, <3>1, WrittenFacts DEF Write, IInv, TypeOK
  <2>3. CASE Interrupted \/ Corrupts
    BY <1>1, <2>3, FaultTears
  <2>4. CASE UNCHANGED flash
    BY <2>4
  <2> QED
    BY <1>1, <2>1, <2>2, <2>3, <2>4
       DEF Next, Boot, Start, ImmSection, RomExtCheck, Update, TooLong, AttestOwner,
           OwnerResets, vars
<1> QED
  BY <1>1, InductiveInvariant, PTL DEF Spec, FactoryKept

-----------------------------------------------------------------------------
(* The chain the owner sees, whatever RAM held when the boots started.     *)

LEMMA ChainFacts ==
  ASSUME NEW r \in RomExts, NEW o \in Owners, NEW c \in {Cdi0Cert(r)} \cup LeftCerts
  PROVE  /\ c \in Certificates /\ c.name = "CDI_0"
         /\ Endorses(c, r, o) \in Seq(Certificates) /\ Len(Endorses(c, r, o)) = 2
         /\ Endorses(c, r, o)[1] = c /\ Endorses(c, r, o)[2] = Cdi1Cert(r, o)
         /\ Endorses(c, r, o) # <<>>
         /\ Cdi0Cert(r).key = <<"cdi_0", r>>
         /\ Cdi1Cert(r, o).name = "CDI_1" /\ Cdi1Cert(r, o).key = <<"cdi_1", r, o>>
<1>1. c \in Certificates /\ Cdi1Cert(r, o) \in Certificates
  BY CertificateFacts
<1>2. /\ Endorses(c, r, o) \in Seq(Certificates) /\ Len(Endorses(c, r, o)) = 2
      /\ Endorses(c, r, o)[1] = c /\ Endorses(c, r, o)[2] = Cdi1Cert(r, o)
  BY <1>1, TwoObjects DEF Endorses
<1>3. Endorses(c, r, o) # <<>>
  <2>1. Len(<<>>) # 2
    OBVIOUS
  <2> HIDE DEF Endorses
  <2> QED
    BY <1>2, <2>1, Zenon
<1>4. c.name = "CDI_0"
  BY DEF LeftCerts, LeftCert, Cdi0Cert, Cert
<1>5. /\ Cdi0Cert(r).key = <<"cdi_0", r>>
      /\ Cdi1Cert(r, o).name = "CDI_1" /\ Cdi1Cert(r, o).key = <<"cdi_1", r, o>>
  BY DEF Cdi0Cert, Cdi1Cert, Cert
<1> QED
  BY <1>1, <1>2, <1>3, <1>4, <1>5, Zenon

LEMMA OwnFacts ==
  ASSUME NEW r \in RomExts, NEW o \in Owners
  PROVE  /\ ChainOf(r, o) \in Seq(Certificates) /\ Len(ChainOf(r, o)) = 2
         /\ ChainOf(r, o)[1] = Cdi0Cert(r) /\ ChainOf(r, o)[2] = Cdi1Cert(r, o)
         /\ ChainOf(r, o) # <<>>
         /\ Cdi0Cert(r).name = "CDI_0" /\ Cdi0Cert(r).key = <<"cdi_0", r>>
         /\ Cdi1Cert(r, o).name = "CDI_1" /\ Cdi1Cert(r, o).key = <<"cdi_1", r, o>>
<1>1. Cdi0Cert(r) \in {Cdi0Cert(r)} \cup LeftCerts /\ ChainOf(r, o) = Endorses(Cdi0Cert(r), r, o)
  BY DEF ChainOf
<1> QED
  BY <1>1, ChainFacts

(* Which certificates can endorse the owner only depends on the firmware   *)
(* and on what the boot holds in RAM.                                      *)
LEMMA IssuersKept ==
  ASSUME firmware' = firmware, static'.new = static.new, static'.cert = static.cert
  PROVE  /\ Misled' = Misled /\ Issuers' = Issuers /\ Cdi0Key' = Cdi0Key
         /\ OwnChain' = OwnChain /\ OwnChains' = OwnChains
<1>1. Misled' = Misled /\ Cdi0Key' = Cdi0Key /\ OwnChain' = OwnChain
  BY DEF Misled, Cdi0Key, OwnChain
<1>2. Issuers' = Issuers
  BY <1>1 DEF Issuers
<1> QED
  BY <1>1, <1>2 DEF OwnChains

(* This boot's page, read as what the steps look at.                       *)
LEMMA OwnChainFacts ==
  ASSUME TypeOK
  PROVE  LET r == firmware.rom_ext
             o == firmware.owner
         IN  /\ r \in RomExts /\ o \in Owners
             /\ Cdi0Key = <<"cdi_0", r>> /\ Cdi1Key = <<"cdi_1", r, o>>
             /\ OwnChain.sealed = TRUE /\ OwnChain.objs = ChainOf(r, o)
             /\ OwnChain # BlankPage
<1> DEFINE r == firmware.rom_ext
           o == firmware.owner
<1>1. r \in RomExts /\ o \in Owners
  BY DEF TypeOK
<1>2. OwnChain.sealed = TRUE /\ OwnChain.objs = ChainOf(r, o)
  BY <1>1 DEF OwnChain, Page
<1>3. BlankPage.objs = <<>>
  BY DEF BlankPage, Page
<1>4. ChainOf(r, o) # <<>>
  BY <1>1, OwnFacts
<1> QED
  BY <1>1, <1>2, <1>3, <1>4 DEF Cdi0Key, Cdi1Key

LEMMA ImmSectionChain == ChainInv /\ ImmSection => ChainInv'
<1> SUFFICES ASSUME ChainInv, ImmSection PROVE ChainInv'
  OBVIOUS
<1> DEFINE d == LoadFlash(flash, NoChain, "dice")
           c == LoadCertObj(d, "CDI_0", Cdi0Key)
           objs == flash.dice.objs
<1>1. IInv' /\ TypeOK
  BY ImmSectionInv DEF ChainInv, IInv
<1>2. d \in ChainType /\ d.page = flash.dice /\ d.tail = 0
  BY <1>1, NoChainFacts, LoadDiceFacts
<1> HIDE DEF d
<1>3. Len(objs) \in 0..2 /\ (objs # <<>> => 0 < Len(objs))
  <2>1. flash.dice \in Pages
    BY <1>1 DEF TypeOK
  <2> QED
    BY <2>1, PageParts, EmptySeq
<1>4. /\ 0 < Len(objs) => c.obj = objs[1]
      /\ 0 >= Len(objs) => c.obj = NoCert
      /\ c.valid <=> c.obj.name = "CDI_0" /\ c.obj.key = Cdi0Key
  BY <1>2, LoadCertObjFacts
<1>5. /\ chain' = c /\ pc' = "check" /\ UNCHANGED <<flash, firmware>>
      /\ c.valid /\ static'.new => static'.cert \in LeftCerts
      /\ ~c.valid => static'.new = TRUE /\ static'.cert = Cdi0Cert(firmware.rom_ext)
  <2>1. /\ chain' = c /\ pc' = "check" /\ UNCHANGED <<flash, firmware>>
        /\ \E left \in {NoCert} \cup LeftCerts :
             static' = IF c.valid THEN [new |-> left # NoCert, saved |-> Cdi0Key, cert |-> left]
                       ELSE [new |-> TRUE, saved |-> Cdi0Key, cert |-> Cdi0Cert(firmware.rom_ext)]
    BY DEF ImmSection, d
  <2> HIDE DEF c
  <2>2. PICK left \in {NoCert} \cup LeftCerts :
          static' = IF c.valid THEN [new |-> left # NoCert, saved |-> Cdi0Key, cert |-> left]
                    ELSE [new |-> TRUE, saved |-> Cdi0Key, cert |-> Cdi0Cert(firmware.rom_ext)]
    BY <2>1
  <2>3. CASE c.valid
    BY <2>1, <2>2, <2>3
  <2>4. CASE ~c.valid
    BY <2>1, <2>2, <2>4
  <2> QED
    BY <2>3, <2>4
<1> HIDE DEF c
<1>6. SealedIsChain'
  BY <1>5 DEF ChainInv, SealedIsChain
<1>7. Cdi0Known'
  <2>1. Cdi0Key' = Cdi0Key /\ OwnChain' = OwnChain
    BY <1>5 DEF Cdi0Key, OwnChain
  <2>2. CASE c.valid
    <3>1. c.obj # NoCert
      BY <1>4, <2>2 DEF NoCert, Cert
    <3>2. 0 < Len(objs)
      BY <1>3, <1>4, <3>1
    <3>3. objs # <<>> /\ objs[1].name = "CDI_0" /\ objs[1].key = Cdi0Key
      BY <1>4, <2>2, <3>2, EmptySeq
    <3>4. static'.new => Misled'
      BY <1>5, <2>2 DEF Misled
    <3> QED
      BY <1>5, <2>1, <2>2, <3>3, <3>4, Zenon DEF Cdi0Known
  <2>3. CASE ~c.valid
    <3>1. ASSUME flash.dice = OwnChain PROVE FALSE
      <4>1. objs = ChainOf(firmware.rom_ext, firmware.owner)
        BY <1>1, <3>1, OwnChainFacts
      <4>2. /\ objs # <<>> /\ objs[1].name = "CDI_0" /\ objs[1].key = Cdi0Key
        <5>1. firmware.rom_ext \in RomExts /\ firmware.owner \in Owners
              /\ Cdi0Key = <<"cdi_0", firmware.rom_ext>>
          BY <1>1, OwnChainFacts
        <5> QED
          BY <4>1, <5>1, OwnFacts
      <4> QED
        BY <1>3, <1>4, <2>3, <4>2
    <3> QED
      BY <1>5, <2>1, <2>3, <3>1 DEF Cdi0Known
  <2> QED
    BY <2>2, <2>3
<1>8. Rebuilt' /\ OwnerSeesChain'
  BY <1>5 DEF Rebuilt, OwnerSeesChain
<1> QED
  BY <1>1, <1>6, <1>7, <1>8 DEF ChainInv

LEMMA RomExtCheckChain == ChainInv /\ RomExtCheck => ChainInv'
<1> SUFFICES ASSUME ChainInv, RomExtCheck PROVE ChainInv'
  OBVIOUS
<1> DEFINE c == LoadFlash(flash, LoadFlash(flash, NoChain, "factory"), "dice")
<1>1. IInv' /\ TypeOK
  BY RomExtCheckInv DEF ChainInv, IInv
<1>2. c \in ChainType /\ c.page = flash.dice
  BY <1>1, RomExtCheckFacts
<1>3. /\ pc = "check" /\ UNCHANGED <<flash, static, firmware, faults>>
      /\ \/ flash.dice.sealed /\ chain' = c /\ pc' = "update"
         \/ /\ ~flash.dice.sealed /\ pc' = "clear"
            /\ chain' = [c EXCEPT !.page = BlankPage, !.dirty = TRUE]
  BY <1>2 DEF RomExtCheck, SealPageCheck
<1> HIDE DEF c
<1>4. SealedIsChain'
  BY <1>3 DEF ChainInv, SealedIsChain
<1>5. Cdi0Known'
  <2>1. Misled' = Misled /\ OwnChain' = OwnChain /\ Cdi0Key' = Cdi0Key
    BY <1>3, IssuersKept
  <2> QED
    BY <1>3, <2>1 DEF ChainInv, Cdi0Known
<1>6. pc' = "clear" => chain'.page = BlankPage
  BY <1>2, <1>3 DEF ChainType
<1>7. Rebuilt' /\ OwnerSeesChain'
  BY <1>3, <1>6 DEF Rebuilt, OwnerSeesChain
<1> QED
  BY <1>1, <1>4, <1>5, <1>7 DEF ChainInv

LEMMA UpdateChain == ChainInv /\ Update => ChainInv'
<1> SUFFICES ASSUME ChainInv, Update PROVE ChainInv'
  OBVIOUS
<1>1. IInv' /\ TypeOK
  BY UpdateInv DEF ChainInv, IInv
<1>2. /\ pc = "update" /\ pc' = "attest" /\ chain' = CheckCdi0(CheckUds(chain))
      /\ UNCHANGED <<flash, static, firmware, faults>>
  BY DEF Update
<1>3. ~chain.dirty
  BY <1>2 DEF ChainInv, IInv, BufferOK
<1> DEFINE d == CheckCdi0(CheckUds(chain))
<1>4. /\ static.new => d.dirty /\ d.tail = 1 /\ d.page = Page(<<static.cert>>, FALSE)
      /\ ~static.new => ~d.dirty /\ d.page = flash.dice
      /\ ~static.new /\ flash.dice.objs # <<>> /\ flash.dice.objs[1].name = "CDI_0" => d.tail = 1
  BY <1>1, <1>3, UpdateFacts
<1>5. chain' = d
  BY <1>2
<1> HIDE DEF d
<1>6. SealedIsChain'
  BY <1>2 DEF ChainInv, SealedIsChain
<1>7. Cdi0Known' /\ OwnerSeesChain'
  BY <1>2 DEF Cdi0Known, OwnerSeesChain
<1>8. /\ OwnChain' = OwnChain /\ Issuers' = Issuers /\ Misled' = Misled
      /\ firmware' = firmware /\ flash' = flash
  BY <1>2, IssuersKept
<1>9. Rebuilt'
  <2>1. CASE static.new
    <3>1. /\ Misled \/ static.cert = Cdi0Cert(firmware.rom_ext)
          /\ Misled \/ flash.dice # OwnChain
      BY <1>2, <2>1 DEF ChainInv, Cdi0Known
    <3>2. static.cert \in Issuers
      BY <3>1 DEF Issuers, Misled
    <3>3. /\ d.dirty /\ d.tail = 1 /\ d.page = Page(<<static.cert>>, FALSE)
      BY <1>4, <2>1
    <3>4. chain'.dirty /\ chain'.tail = 1 /\ \E c \in Issuers' : chain'.page = Page(<<c>>, FALSE)
      BY <1>5, <1>8, <3>2, <3>3
    <3> QED
      BY <1>2, <1>8, <3>1, <3>4, Zenon DEF Rebuilt
  <2>2. CASE ~static.new
    <3>1. /\ flash.dice.objs # <<>>
          /\ flash.dice.objs[1].name = "CDI_0" /\ flash.dice.objs[1].key = Cdi0Key
          /\ flash.dice.sealed
      BY <1>2, <2>2 DEF ChainInv, Cdi0Known, Rebuilt
    <3>2. PICK r \in RomExts, o \in Owners : \E c \in {Cdi0Cert(r)} \cup LeftCerts :
            flash.dice = Page(Endorses(c, r, o), TRUE)
      <4>1. ASSUME flash.dice = Page(<<>>, TRUE) PROVE FALSE
        BY <3>1, <4>1 DEF Page
      <4> QED
        BY <3>1, <4>1, Zenon DEF ChainInv, SealedIsChain
    <3>3. PICK c \in {Cdi0Cert(r)} \cup LeftCerts : flash.dice = Page(Endorses(c, r, o), TRUE)
      BY <3>2
    <3>4. c.key = Cdi0Key
      <4>1. flash.dice.objs = Endorses(c, r, o)
        BY <3>3 DEF Page
      <4> QED
        BY <3>1, <4>1, ChainFacts
    <3>5. c \in Issuers
      <4>1. CASE c = Cdi0Cert(r)
        <5>1. <<"cdi_0", r>> = <<"cdi_0", firmware.rom_ext>>
          BY <1>1, <3>4, <4>1, OwnFacts, OwnChainFacts
        <5>2. r = firmware.rom_ext
          BY <5>1
        <5> QED
          BY <4>1, <5>2 DEF Issuers
      <4>2. CASE c \in LeftCerts
        BY <3>4, <4>2 DEF Issuers
      <4> QED
        BY <4>1, <4>2
    <3>6. ~d.dirty /\ d.tail = 1 /\ d.page = flash.dice
      BY <1>4, <2>2, <3>1
    <3>7. \E q \in Issuers', u \in RomExts, v \in Owners :
            flash'.dice = Page(Endorses(q, u, v), TRUE)
      BY <1>8, <3>3, <3>5
    <3> QED
      BY <1>2, <1>5, <1>8, <3>6, <3>7, Zenon DEF Rebuilt
  <2> QED
    BY <2>1, <2>2
<1> QED
  BY <1>1, <1>6, <1>7, <1>9 DEF ChainInv

(* The owner's certificate is kept only behind a CDI_0 certificate of this *)
(* boot that is in flash.                                                  *)
LEMMA AttestOwnerChain == ChainInv /\ AttestOwner => ChainInv'
<1> SUFFICES ASSUME ChainInv, AttestOwner PROVE ChainInv'
  OBVIOUS
<1> DEFINE r == firmware.rom_ext
           o == firmware.owner
           c == LoadCertObj(chain, "CDI_1", Cdi1Key)
           cert == Cert("CDI_1", Cdi1Key, c.endorsement, static.saved)
           d == IF c.valid THEN NextCertObj(c) ELSE PushCert(c, cert)
           e == [d EXCEPT !.endorsement = Cdi1Key]
           objs == chain.page.objs
           full(i) == Page(Endorses(i, r, o), FALSE)
<1>1. IInv' /\ TypeOK /\ BufferOK /\ Rebuilt /\ SealedIsChain
  BY AttestOwnerInv DEF ChainInv, IInv
<1>2. /\ pc = "attest" /\ chain' = e /\ UNCHANGED <<flash, firmware, faults>>
      /\ pc' = IF d.dirty THEN "save" ELSE "owner"
  BY DEF AttestOwner
<1>3. /\ r \in RomExts /\ o \in Owners
      /\ Cdi0Key = <<"cdi_0", r>> /\ Cdi1Key = <<"cdi_1", r, o>>
      /\ OwnChain.objs = ChainOf(r, o)
  BY <1>1, OwnChainFacts
<1>4. static.saved = Cdi0Key /\ chain.endorsement = Cdi0Key /\ Cdi0Key \in Keys
  BY <1>1, <1>2, KeyFacts DEF BufferOK, TypeOK
<1>5. chain.tail = 1 /\ chain.tail <= Len(objs)
  BY <1>1, <1>2 DEF Rebuilt, BufferOK
<1>6. /\ e \in ChainType
      /\ c.valid => d.page = chain.page /\ d.dirty = chain.dirty
      /\ ~c.valid => /\ d.dirty
                    /\ d.page = Page(<<objs[1], Cert("CDI_1", Cdi1Key, static.saved, static.saved)>>,
                                     FALSE)
      /\ c.valid => Len(objs) = 2 /\ objs[2].key = Cdi1Key
      /\ Len(objs) = 2 /\ objs[2].name = "CDI_1" /\ objs[2].key = Cdi1Key => c.valid
  <2>1. /\ TypeOK /\ chain.tail <= 1 /\ chain.tail <= Len(chain.page.objs)
        /\ chain.endorsement \in Keys /\ static.saved = chain.endorsement
    BY <1>1, <1>4, <1>5
  <2> QED
    BY <1>5, <2>1, AttestOwnerFacts, Zenon
<1> HIDE DEF c, d
<1>7. chain'.page = d.page
  BY <1>2, <1>6 DEF ChainType
<1> HIDE DEF e
<1>8. Cert("CDI_1", Cdi1Key, static.saved, static.saved) = Cdi1Cert(r, o)
  BY <1>3, <1>4, Zenon DEF Cdi1Cert
<1>9. ASSUME chain.dirty
      PROVE  objs[1] \in Issuers /\ Len(objs) = 1 /\ (Misled \/ flash.dice # OwnChain)
  <2>1. PICK i \in Issuers : chain.page = Page(<<i>>, FALSE)
    BY <1>1, <1>2, <1>9, Zenon DEF Rebuilt
  <2>2. objs = <<i>>
    BY <2>1 DEF Page
  <2>3. i \in Certificates
    BY <1>3, CertificateFacts DEF Issuers
  <2>4. Misled \/ flash.dice # OwnChain
    BY <1>1, <1>2, <1>9, Zenon DEF Rebuilt
  <2> QED
    BY <2>2, <2>3, <2>4, OneObject
<1>10. ASSUME ~chain.dirty
       PROVE  /\ objs[1] \in Issuers /\ chain.page = flash.dice
              /\ \E i \in Issuers, s \in RomExts, q \in Owners :
                   flash.dice = Page(Endorses(i, s, q), TRUE) /\ objs[2].key = <<"cdi_1", s, q>>
              /\ flash.dice = OwnChain => c.valid
  <2>1. /\ chain.page = flash.dice
        /\ \E i \in Issuers, s \in RomExts, q \in Owners : flash.dice = Page(Endorses(i, s, q), TRUE)
    BY <1>1, <1>2, <1>10, Zenon DEF Rebuilt
  <2>2. PICK i \in Issuers, s \in RomExts, q \in Owners : flash.dice = Page(Endorses(i, s, q), TRUE)
    BY <2>1
  <2>3. objs = Endorses(i, s, q)
    BY <2>1, <2>2 DEF Page
  <2>4. objs[1] = i /\ objs[2].key = <<"cdi_1", s, q>>
    <3>1. i \in Certificates /\ Cdi1Cert(s, q) \in Certificates
      BY <1>3, CertificateFacts DEF Issuers
    <3>2. objs[1] = i /\ objs[2] = Cdi1Cert(s, q)
      BY <2>3, <3>1, TwoObjects DEF Endorses
    <3> QED
      BY <3>2, OwnFacts
  <2>5. ASSUME flash.dice = OwnChain PROVE c.valid
    <3>1. objs = ChainOf(r, o)
      BY <1>3, <2>1, <2>5
    <3>2. Len(objs) = 2 /\ objs[2].name = "CDI_1" /\ objs[2].key = Cdi1Key
      BY <1>3, <3>1, OwnFacts
    <3> QED
      BY <1>6, <3>2
  <2> QED
    BY <2>1, <2>2, <2>4, <2>5
<1>11. SealedIsChain'
  BY <1>1, <1>2 DEF SealedIsChain
<1>12. Cdi0Known'
  BY <1>2 DEF Cdi0Known
<1>13. /\ Misled' = Misled /\ Issuers' = Issuers
       /\ OwnChain' = OwnChain /\ OwnChains' = OwnChains
  <2>1. static' = [static EXCEPT !.saved = Cdi1Key]
    BY DEF AttestOwner
  <2>2. static \in [new : BOOLEAN, saved : Keys, cert : Certificates]
    BY <1>1 DEF TypeOK
  <2>3. static'.new = static.new /\ static'.cert = static.cert
    BY <2>1, <2>2
  <2> QED
    BY <1>2, <2>3, IssuersKept
<1>14. CASE c.valid
  <2>1. ~chain.dirty
    BY <1>6, <1>9, <1>14
  <2>2. PICK i \in Issuers, s \in RomExts, q \in Owners :
          flash.dice = Page(Endorses(i, s, q), TRUE) /\ objs[2].key = <<"cdi_1", s, q>>
    BY <1>10, <2>1
  <2>3. <<"cdi_1", s, q>> = <<"cdi_1", r, o>>
    BY <1>3, <1>6, <1>14, <2>2
  <2>4. s = r /\ q = o
    BY <2>3
  <2>5. flash.dice \in OwnChains
    BY <2>2, <2>4, Zenon DEF OwnChains
  <2>6. pc' = "owner"
    BY <1>2, <1>6, <1>14, <2>1
  <2>7. flash'.dice \in OwnChains'
    BY <1>2, <1>13, <2>5
  <2>8. OwnerSeesChain' /\ Rebuilt'
    BY <2>6, <2>7 DEF OwnerSeesChain, Rebuilt
  <2> QED
    BY <1>1, <1>11, <1>12, <2>8 DEF ChainInv
<1>15. CASE ~c.valid
  <2>1. objs[1] \in Issuers /\ (Misled \/ flash.dice # OwnChain)
    BY <1>9, <1>10, <1>15
  <2>2. d.page = full(objs[1])
    BY <1>6, <1>8, <1>15, Zenon DEF Endorses
  <2>3. pc' = "save"
    BY <1>2, <1>6, <1>15
  <2>4. /\ \E i \in Issuers' : chain'.page = Page(Endorses(i, firmware.rom_ext, firmware.owner), FALSE)
        /\ Misled' \/ flash'.dice # OwnChain'
        /\ firmware' = firmware
    BY <1>2, <1>7, <1>13, <2>1, <2>2
  <2>5. Rebuilt'
    BY <1>2, <2>3, <2>4, Zenon DEF Rebuilt
  <2>6. OwnerSeesChain'
    BY <2>3 DEF OwnerSeesChain
  <2> QED
    BY <1>1, <1>11, <1>12, <2>5, <2>6 DEF ChainInv
<1> QED
  BY <1>14, <1>15

LEMMA EraseChain == ChainInv /\ Erase => ChainInv' /\ (flash.dice # OwnChain \/ Misled)
<1> SUFFICES ASSUME ChainInv, Erase PROVE ChainInv' /\ (flash.dice # OwnChain \/ Misled)
  OBVIOUS
<1>1. IInv' /\ TypeOK /\ BufferOK /\ Rebuilt
  BY EraseInv DEF ChainInv, IInv
<1>2. /\ pc \in {"clear", "save"} /\ chain' = SealPage(chain)
      /\ pc' = (IF pc = "clear" THEN "cleared" ELSE "saved")
      /\ UNCHANGED <<static, firmware, faults>>
  BY DEF Erase
<1>3. flash'.dice = BlankPage
  <2>1. flash' = [flash EXCEPT !["dice"] = BlankPage]
    BY <1>1, <1>2 DEF Erase, BufferOK, Flushing
  <2> QED
    BY <1>1, <2>1, ShortPages, ReplacedPage
<1>4. chain'.page = Page(chain.page.objs, TRUE)
  BY <1>1, <1>2, SealPageFacts DEF TypeOK
<1>5. BlankPage.sealed = FALSE /\ BlankPage.objs = <<>>
  BY DEF BlankPage, Page
<1>6. SealedIsChain' /\ OwnerSeesChain'
  BY <1>2, <1>3, <1>5 DEF SealedIsChain, OwnerSeesChain
<1>7. Cdi0Known'
  <2>1. Misled' = Misled
    BY <1>2, IssuersKept
  <2> QED
    BY <1>2, <2>1 DEF ChainInv, Cdi0Known
<1>8. CASE pc = "clear"
  <2>1. pc' = "cleared" /\ chain.page = BlankPage /\ ~flash.dice.sealed
    BY <1>1, <1>2, <1>8 DEF Rebuilt
  <2>2. chain'.page = Page(<<>>, TRUE)
    BY <1>4, <1>5, <2>1, Zenon
  <2>3. Rebuilt'
    BY <1>3, <2>1, <2>2, Zenon DEF Rebuilt
  <2>4. OwnChain.sealed = TRUE
    BY <1>1, OwnChainFacts
  <2> QED
    BY <1>1, <1>6, <1>7, <2>1, <2>3, <2>4 DEF ChainInv
<1>9. CASE pc = "save"
  <2>1. pc' = "saved" /\ (flash.dice # OwnChain \/ Misled)
    BY <1>1, <1>2, <1>9, Zenon DEF Rebuilt
  <2>2. PICK c \in Issuers :
          chain.page = Page(Endorses(c, firmware.rom_ext, firmware.owner), FALSE)
    BY <1>1, <1>9, Zenon DEF Rebuilt
  <2>3. chain.page.objs = Endorses(c, firmware.rom_ext, firmware.owner)
    BY <2>2 DEF Page
  <2>4. chain'.page \in OwnChains
    BY <1>4, <2>3, Zenon DEF OwnChains
  <2>5. OwnChains' = OwnChains
    BY <1>2, IssuersKept
  <2>6. Rebuilt'
    BY <1>3, <2>1, <2>4, <2>5, Zenon DEF Rebuilt
  <2> QED
    BY <1>1, <1>6, <1>7, <2>1, <2>6 DEF ChainInv
<1> QED
  BY <1>2, <1>8, <1>9

LEMMA WriteChain == ChainInv /\ Write => ChainInv' /\ flash.dice # OwnChain
<1> SUFFICES ASSUME ChainInv, Write PROVE ChainInv' /\ flash.dice # OwnChain
  OBVIOUS
<1>1. IInv' /\ TypeOK /\ BufferOK /\ Rebuilt /\ Cdi0Known
  BY WriteInv DEF ChainInv, IInv
<1>2. /\ pc \in {"cleared", "saved"} /\ chain' = [chain EXCEPT !.dirty = FALSE]
      /\ pc' = (CASE pc = "saved" -> "owner"
                  [] pc = "cleared" /\ static.new -> "update"
                  [] OTHER -> "off")
      /\ flash' = Written(flash, chain) /\ UNCHANGED <<static, firmware, faults>>
  BY DEF Write
<1>3. flash'.dice = Page(chain.page.objs, TRUE)
  BY <1>1, <1>2, WrittenFacts DEF TypeOK, BufferOK, Flushing
<1>4. flash.dice = BlankPage /\ flash.dice # OwnChain
  BY <1>1, <1>2, OwnChainFacts DEF Rebuilt
<1>5. /\ OwnChain' = OwnChain /\ Cdi0Key' = Cdi0Key
      /\ Misled' = Misled /\ OwnChains' = OwnChains
  BY <1>2, IssuersKept
<1>6. CASE pc = "saved"
  <2>1. pc' = "owner"
    BY <1>2, <1>6
  <2>2. chain.page \in OwnChains
    BY <1>1, <1>6 DEF Rebuilt
  <2>3. PICK c \in Issuers :
          chain.page = Page(Endorses(c, firmware.rom_ext, firmware.owner), TRUE)
    BY <2>2 DEF OwnChains
  <2>4. flash'.dice = Page(Endorses(c, firmware.rom_ext, firmware.owner), TRUE)
    <3>1. chain.page.objs = Endorses(c, firmware.rom_ext, firmware.owner)
      BY <2>3 DEF Page
    <3> QED
      BY <1>3, <3>1
  <2>5. flash'.dice \in OwnChains'
    BY <1>5, <2>4 DEF OwnChains
  <2>6. OwnerSeesChain' /\ Rebuilt' /\ Cdi0Known'
    BY <2>1, <2>5 DEF OwnerSeesChain, Rebuilt, Cdi0Known
  <2>7. /\ firmware.rom_ext \in RomExts /\ firmware.owner \in Owners
        /\ c \in {Cdi0Cert(firmware.rom_ext)} \cup LeftCerts
    BY <1>1, OwnChainFacts DEF Issuers
  <2>8. SealedIsChain'
    BY <2>4, <2>7, Zenon DEF SealedIsChain
  <2> QED
    BY <1>1, <1>4, <2>6, <2>8 DEF ChainInv
<1>7. CASE pc = "cleared"
  <2>1. chain.page.objs = <<>>
    BY <1>1, <1>7 DEF Rebuilt, Page
  <2>2. flash'.dice = Page(<<>>, TRUE)
    BY <1>3, <2>1, Zenon
  <2>3. flash'.dice.sealed /\ flash'.dice.objs = <<>>
    BY <2>2 DEF Page
  <2>4. flash'.dice # OwnChain'
    <3>1. OwnChain.objs # <<>>
      BY <1>1, OwnChainFacts, OwnFacts
    <3> QED
      BY <1>5, <2>3, <3>1
  <2>5. (pc' = "update" /\ static.new) \/ pc' = "off"
    BY <1>2, <1>7
  <2>6. static.new => Misled \/ static.cert = Cdi0Cert(firmware.rom_ext)
    BY <1>1, <1>7 DEF Cdi0Known
  <2>7. Cdi0Known'
    BY <1>2, <1>5, <2>4, <2>5, <2>6 DEF Cdi0Known
  <2>8. Rebuilt' /\ OwnerSeesChain'
    BY <2>3, <2>5 DEF Rebuilt, OwnerSeesChain
  <2>9. SealedIsChain'
    BY <2>2, Zenon DEF SealedIsChain
  <2> QED
    BY <1>1, <1>4, <2>7, <2>8, <2>9 DEF ChainInv
<1> QED
  BY <1>2, <1>6, <1>7

LEMMA FaultChain ==
  ChainInv /\ (Interrupted \/ Corrupts)
    => ChainInv' /\ (flash'.dice # flash.dice /\ pc # "off" => flash.dice # OwnChain \/ Misled)
<1> SUFFICES ASSUME ChainInv, Interrupted \/ Corrupts
             PROVE  ChainInv' /\ (flash'.dice # flash.dice /\ pc # "off" => flash.dice # OwnChain \/ Misled)
  OBVIOUS
<1>1. IInv /\ IInv' /\ TypeOK /\ Rebuilt
  BY FaultInv DEF ChainInv, IInv
<1>2. /\ pc' = "off" /\ UNCHANGED <<static, firmware, chain>>
      /\ flash'.dice = flash.dice \/ flash'.dice.sealed = FALSE
  BY <1>1, FaultTears
<1>3. SealedIsChain'
  BY <1>2 DEF ChainInv, SealedIsChain
<1>4. Cdi0Known' /\ Rebuilt' /\ OwnerSeesChain'
  BY <1>2 DEF Cdi0Known, Rebuilt, OwnerSeesChain
<1>5. ASSUME flash'.dice # flash.dice, pc # "off" PROVE flash.dice # OwnChain \/ Misled
  <2>1. pc \in {"clear", "cleared", "save", "saved"}
    BY <1>5 DEF Interrupted, Corrupts, Flushing
  <2>2. /\ pc = "clear" => ~flash.dice.sealed
        /\ pc = "save" => flash.dice # OwnChain \/ Misled
        /\ pc \in {"cleared", "saved"} => flash.dice = BlankPage
    BY <1>1 DEF Rebuilt
  <2> QED
    BY <1>1, <2>1, <2>2, OwnChainFacts
<1> QED
  BY <1>1, <1>3, <1>4, <1>5 DEF ChainInv

LEMMA QuietChain ==
  ASSUME ChainInv, Start \/ TooLong \/ OwnerResets \/ UNCHANGED vars
  PROVE  ChainInv'
<1>1. IInv'
  BY StepInv DEF ChainInv, Next, Boot
<1>2. CASE Start \/ TooLong \/ OwnerResets
  <2>1. pc' \in {"imm", "off"} /\ flash' = flash
    BY <1>2 DEF Start, TooLong, OwnerResets
  <2>2. SealedIsChain'
    BY <2>1 DEF ChainInv, SealedIsChain
  <2>3. Cdi0Known' /\ Rebuilt' /\ OwnerSeesChain'
    BY <2>1 DEF Cdi0Known, Rebuilt, OwnerSeesChain
  <2> QED
    BY <1>1, <2>2, <2>3 DEF ChainInv
<1>3. CASE UNCHANGED vars
  <2>1. /\ Misled' = Misled /\ Issuers' = Issuers /\ Cdi0Key' = Cdi0Key
        /\ OwnChain' = OwnChain /\ OwnChains' = OwnChains
    BY <1>3, IssuersKept DEF vars
  <2>2. UNCHANGED <<flash, chain, static, firmware, pc>>
    BY <1>3 DEF vars
  <2>3. SealedIsChain' /\ Cdi0Known' /\ OwnerSeesChain'
    BY <2>1, <2>2 DEF ChainInv, SealedIsChain, Cdi0Known, OwnerSeesChain
  <2>4. Rebuilt'
    BY <2>1, <2>2 DEF ChainInv, Rebuilt
  <2> QED
    BY <1>1, <2>3, <2>4 DEF ChainInv
<1> QED
  BY <1>2, <1>3

LEMMA InitChain == Init => ChainInv
<1> SUFFICES ASSUME Init PROVE ChainInv
  OBVIOUS
<1>1. IInv /\ pc = "off"
  BY InitInv DEF Init
<1>2. SealedIsChain
  <2>1. PICK r \in RomExts, o \in Owners :
          flash \in [factory : {Page(<<UdsCert>>, TRUE)},
                    dice : {BlankPage, Page(ChainOf(r, o), TRUE)}]
    BY Zenon DEF Init
  <2> DEFINE p == Page(<<UdsCert>>, TRUE)
             q == Page(ChainOf(r, o), TRUE)
  <2>2. flash \in [factory : {p}, dice : {BlankPage, q}]
    BY <2>1
  <2> HIDE DEF p, q
  <2>3. flash.dice = BlankPage \/ flash.dice = q
    BY <2>2
  <2>4. BlankPage.sealed = FALSE
    BY DEF BlankPage, Page
  <2> QED
    BY <2>3, <2>4, Zenon DEF SealedIsChain, ChainOf, q
<1>3. Cdi0Known /\ Rebuilt /\ OwnerSeesChain
  BY <1>1 DEF Cdi0Known, Rebuilt, OwnerSeesChain
<1> QED
  BY <1>1, <1>2, <1>3 DEF ChainInv

LEMMA StepChain ==
  ChainInv /\ [Next]_vars =>
    ChainInv' /\ (flash'.dice # flash.dice /\ pc # "off" => flash.dice # OwnChain \/ Misled)
<1> SUFFICES ASSUME ChainInv, [Next]_vars
             PROVE  ChainInv' /\ (flash'.dice # flash.dice /\ pc # "off" => flash.dice # OwnChain \/ Misled)
  OBVIOUS
<1>1. CASE ImmSection \/ RomExtCheck \/ Update \/ AttestOwner
  <2>1. ChainInv'
    BY <1>1, ImmSectionChain, RomExtCheckChain, UpdateChain, AttestOwnerChain
  <2>2. flash' = flash
    BY <1>1 DEF ImmSection, RomExtCheck, Update, AttestOwner
  <2> QED
    BY <2>1, <2>2
<1>2. CASE Start \/ TooLong \/ OwnerResets \/ UNCHANGED vars
  <2>1. flash' = flash
    BY <1>2 DEF Start, TooLong, OwnerResets, vars
  <2> QED
    BY <1>2, <2>1, QuietChain
<1>3. CASE Erase \/ Write
  BY <1>3, EraseChain, WriteChain
<1>4. CASE Interrupted \/ Corrupts
  BY <1>4, FaultChain
<1> QED
  BY <1>1, <1>2, <1>3, <1>4 DEF Next, Boot

(* What is in the buffer and in flash follows the boot, step by step, over *)
(* any number of faults and whatever RAM holds when a boot starts.         *)
THEOREM ChainInvariant == Spec => []ChainInv
<1>1. Init => ChainInv
  BY InitChain
<1>2. ChainInv /\ [Next]_vars => ChainInv'
  BY StepChain
<1> QED
  BY <1>1, <1>2, PTL DEF Spec

(* An owner runs behind a sealed chain of this boot, from UDS to its own   *)
(* key, however many power cuts, flash errors and corruptions came before. *)
(* A left-over takes the place of its CDI_0 certificate only in the boot   *)
(* that finds it in RAM, and as long as the key is the same.               *)
THEOREM OwnerSeesItsChain == Spec => []OwnerSeesChain
<1>1. ChainInv => OwnerSeesChain
  BY DEF ChainInv
<1> QED
  BY <1>1, ChainInvariant, PTL

(* A boot that no left-over misleads never erases the page that is already *)
(* its own.                                                                *)
THEOREM RightPageIsKept == Spec => ErasesOnlyWrong
<1>1. ChainInv /\ [Next]_vars =>
        (flash'.dice # flash.dice /\ pc # "off" => flash.dice # OwnChain \/ Misled)
  BY StepChain
<1> QED
  BY <1>1, ChainInvariant, PTL DEF Spec, ErasesOnlyWrong
=============================================================================
