-------------------------- MODULE ImageStoreProofs --------------------------
(***************************************************************************)
(* Proofs about ImageStore, for any accounts, images, layers and requests. *)
(***************************************************************************)
EXTENDS ImageStore, TLAPS

-----------------------------------------------------------------------------
(* Type correctness.  A step replaces the closure of one request: it is    *)
(* enough that the new closure has its type.                               *)

LEMMA BecomeTyped ==
    ASSUME OpsOK, NEW c \in Clients, NEW s \in OpType, Progress(s),
           Become(c, s)
    PROVE  OpsOK'
  BY DEF Become, OpsOK

LEMMA EndTyped ==
    ASSUME OpsOK, NEW c \in Clients, End(c)
    PROVE  OpsOK'
<1>1. Idle \in OpType /\ Progress(Idle)
  BY DEF Idle, OpType, Progress, LookupPcs, RmiPcs, CreatePcs, OtherPcs
<1> QED BY <1>1, BecomeTyped DEF End

(* Only the program counter changes.                                       *)
LEMMA GotoTyped ==
    ASSUME OpsOK, NEW c \in Clients, NEW pc, Goto(c, pc),
           [op[c] EXCEPT !.pc = pc] \in OpType,
           Progress([op[c] EXCEPT !.pc = pc])
    PROVE  OpsOK'
  BY BecomeTyped DEF Goto

LEMMA StartTyped ==
    ASSUME TypeOK, NEW c \in Clients, Start(c)
    PROVE  OpsOK'
<1> USE DataAssumption DEF OpType, Progress, Idle, LookupPcs,
        RmiPcs, CreatePcs, OtherPcs
<1>1. PICK r \in Requests :
         IF r.kind = "pull"
         THEN Become(c, [Idle EXCEPT !.pc = "importLayers", !.req = r,
                                     !.img = r.ref, !.todo = LayersOf[r.ref]])
         ELSE Become(c, [Idle EXCEPT !.pc = "findByName", !.req = r])
  BY DEF Start
<1>2. CASE r.kind = "pull"
  <2> DEFINE s == [Idle EXCEPT !.pc = "importLayers", !.req = r,
                               !.img = r.ref, !.todo = LayersOf[r.ref]]
  <2>1. r.ref \in Digests /\ LayersOf[r.ref] \in SUBSET Layers
    BY <1>2
  <2>2. s \in OpType /\ Progress(s)
    BY <1>2, <2>1
  <2> QED BY <1>1, <1>2, <2>2, BecomeTyped DEF TypeOK
<1>3. CASE r.kind # "pull"
  <2> DEFINE s == [Idle EXCEPT !.pc = "findByName", !.req = r]
  <2>1. s \in OpType /\ Progress(s)
    BY <1>3
  <2> QED BY <1>1, <1>3, <2>1, BecomeTyped DEF TypeOK
<1> QED BY <1>2, <1>3

LEMMA LookupTyped ==
    ASSUME TypeOK, NEW c \in Clients, Lookup(c)
    PROVE  OpsOK'
<1> DEFINE o == OwnerOf[c]  s == op[c]
<1>0. /\ OpsOK /\ s \in OpType /\ Progress(s)
      /\ tags \in [TagKeys -> Digests \cup {None}]
  BY DEF TypeOK, OpsOK, StoresOK
<1> USE DataAssumption DEF OpType, Progress, LookupPcs, RmiPcs,
        CreatePcs, OtherPcs, At
<1>1. CASE FindByName(c)
  <2> DEFINE ref == s.req.ref
             byTag == [s EXCEPT !.pc = "findImage", !.tag = ref,
                                !.cur = tags[<<o, ref>>]]
             byDigest == [s EXCEPT !.pc = "findImage", !.cur = ref]
  <2>1. s.req \in Requests /\ s.req.kind # "pull" /\ s.pc = "findByName"
    BY <1>0, <1>1 DEF FindByName
  <2>2. CASE ref \in Names /\ tags[<<o, ref>>] # None /\ Become(c, byTag)
    <3>1. tags[<<o, ref>>] \in Digests
      BY <1>0, <2>2 DEF TagKeys
    <3>2. byTag \in OpType /\ Progress(byTag)
      BY <1>0, <2>1, <2>2, <3>1
    <3> QED BY <1>0, <2>2, <3>2, BecomeTyped
  <2>3. CASE ref \in Digests /\ Become(c, byDigest)
    <3>1. byDigest \in OpType /\ Progress(byDigest)
      BY <1>0, <2>1, <2>3
    <3> QED BY <1>0, <2>3, <3>1, BecomeTyped
  <2>4. CASE End(c)
    BY <1>0, <2>4, EndTyped
  <2> QED BY <1>1, <2>2, <2>3, <2>4 DEF FindByName
<1>2. CASE FindImage(c)
  <2> DEFINE found == [s EXCEPT !.pc = "isImageInImgapi", !.img = s.cur]
  <2>1. found \in OpType /\ Progress(found)
    BY <1>0, <1>2 DEF FindImage
  <2> QED BY <1>0, <1>2, <2>1, BecomeTyped, EndTyped DEF FindImage
<1>3. CASE IsImageInImgapi(c)
  <2>1. s.req \in Requests /\ s.img \in Digests /\ s.req.kind # "pull"
    BY <1>0, <1>3 DEF IsImageInImgapi
  <2>2. CASE s.req.kind # "inspect" /\ Goto(c, Found(s.req.kind))
    <3>1. s.req.kind \in {"rmi", "tag", "run", "commit"}
      BY <2>1, <2>2 DEF RequestType
    <3>2. [s EXCEPT !.pc = Found(s.req.kind)] \in OpType
             /\ Progress([s EXCEPT !.pc = Found(s.req.kind)])
      BY <1>0, <2>1, <3>1 DEF Found
    <3> QED BY <1>0, <2>2, <3>2, GotoTyped
  <2>3. CASE Goto(c, "delImgRef")
    <3>1. [s EXCEPT !.pc = "delImgRef"] \in OpType
             /\ Progress([s EXCEPT !.pc = "delImgRef"])
      BY <1>0, <2>1
    <3> QED BY <1>0, <2>3, <3>1, GotoTyped
  <2> QED BY <1>0, <1>3, <2>2, <2>3, EndTyped DEF IsImageInImgapi
<1>4. CASE DelImgRef(c)
  <2>1. s.tag # None => /\ [s EXCEPT !.pc = "delImgTagRef"] \in OpType
                        /\ Progress([s EXCEPT !.pc = "delImgTagRef"])
    BY <1>0, <1>4 DEF DelImgRef
  <2> QED BY <1>0, <1>4, <2>1, GotoTyped, EndTyped DEF DelImgRef
<1>5. CASE DelImgTagRef(c)
  BY <1>0, <1>5, EndTyped DEF DelImgTagRef
<1> QED BY <1>1, <1>2, <1>3, <1>4, <1>5 DEF Lookup

LEMMA ReadParentTyped ==
    ASSUME NEW s \in OpType, Progress(s), s.pc = "getImageAncestry",
           NEW o, Parent[s.cur] \in Digests
    PROVE  ReadParent(s, o) \in OpType /\ Progress(ReadParent(s, o))
<1> DEFINE h == s.headFound \/ <<o, Parent[s.cur]>> \in heads
           ds == IF h THEN s.dels ELSE s.dels \cup {Parent[s.cur]}
           next(p, b, d) == [s EXCEPT !.cur = p, !.headFound = b, !.dels = d]
<1>1. h \in BOOLEAN /\ ds \in SUBSET Digests
  BY DEF OpType
<1>2. ASSUME NEW b \in BOOLEAN, NEW d \in SUBSET Digests, NEW p \in Digests
      PROVE  next(p, b, d) \in OpType /\ Progress(next(p, b, d))
  BY DEF OpType, Progress, LookupPcs, RmiPcs, CreatePcs, OtherPcs
<1>3. ReadParent(s, o) = next(Parent[s.cur], h, ds)
  BY DEF ReadParent, OpType
<1> HIDE DEF h, ds, next
<1> QED BY <1>1, <1>2, <1>3

LEMMA RmiTyped ==
    ASSUME TypeOK, NEW c \in Clients, Rmi(c)
    PROVE  OpsOK'
<1> DEFINE o == OwnerOf[c]  s == op[c]
<1>0. OpsOK /\ s \in OpType /\ Progress(s)
  BY DEF TypeOK, OpsOK
<1> USE DataAssumption DEF OpType, Progress, LookupPcs, RmiPcs, CreatePcs,
        OtherPcs, At
<1>1. CASE GetImgTags(c)
  <2> DEFINE t == [s EXCEPT !.pc = "checkDependentImages",
                            !.tags = TagsForImage(o, s.img)]
             u == [s EXCEPT !.pc = "removeImageTag"]
  <2>1. t \in OpType /\ Progress(t)
    BY <1>0, <1>1 DEF GetImgTags, TagsForImage
  <2>2. s.tag # None => u \in OpType /\ Progress(u)
    BY <1>0, <1>1 DEF GetImgTags
  <2> QED BY <1>0, <1>1, <2>1, <2>2, BecomeTyped, GotoTyped, EndTyped
          DEF GetImgTags
<1>2. CASE RemoveImageTag(c)
  BY <1>0, <1>2, EndTyped DEF RemoveImageTag
<1>3. CASE CheckDependentImages(c)
  <2>1. /\ [s EXCEPT !.pc = "verifyNotInUse"] \in OpType
        /\ Progress([s EXCEPT !.pc = "verifyNotInUse"])
    BY <1>0, <1>3 DEF CheckDependentImages
  <2> QED BY <1>0, <1>3, <2>1, GotoTyped, EndTyped DEF CheckDependentImages
<1>4. CASE VerifyNotInUse(c)
  <2> DEFINE t == [s EXCEPT !.pc = "getImageAncestry", !.dels = {s.img},
                            !.headFound = FALSE, !.cur = s.img]
             u == [s EXCEPT !.pc = "removeImageTag"]
  <2>1. t \in OpType /\ Progress(t)
    BY <1>0, <1>4 DEF VerifyNotInUse
  <2>2. s.tag # None => u \in OpType /\ Progress(u)
    BY <1>0, <1>4 DEF VerifyNotInUse
  <2>3. \/ Become(c, t)
        \/ s.tag # None /\ Goto(c, "removeImageTag")
        \/ End(c)
    BY <1>4 DEF VerifyNotInUse
  <2>4. CASE Become(c, t)
    BY <1>0, <2>1, <2>4, BecomeTyped
  <2>5. CASE s.tag # None /\ Goto(c, "removeImageTag")
    BY <1>0, <2>2, <2>5, GotoTyped
  <2>6. CASE End(c)
    BY <1>0, <2>6, EndTyped
  <2> QED BY <2>3, <2>4, <2>5, <2>6
<1>5. CASE GetImageAncestry(c)
  <2> DEFINE u == [s EXCEPT !.pc = "deleteDockerTags"]
  <2>1. s.cur \in Digests
    BY <1>0, <1>5 DEF GetImageAncestry
  <2>2. Parent[s.cur] # None =>
          ReadParent(s, o) \in OpType /\ Progress(ReadParent(s, o))
    <3>1. s.pc = "getImageAncestry" /\ Parent[s.cur] \in Digests \cup {None}
      BY <1>5, <2>1 DEF GetImageAncestry
    <3> QED BY <1>0, <3>1, ReadParentTyped
  <2>3. u \in OpType /\ Progress(u)
    BY <1>0, <1>5 DEF GetImageAncestry
  <2> QED BY <1>0, <1>5, <2>2, <2>3, BecomeTyped, GotoTyped, EndTyped
          DEF GetImageAncestry
<1>6. CASE DeleteDockerTags(c)
  <2>1. CASE \E n \in s.tags : Become(c, [s EXCEPT !.tags = @ \ {n}])
    <3>1. PICK n \in s.tags : Become(c, [s EXCEPT !.tags = @ \ {n}])
      BY <2>1
    <3>2. /\ [s EXCEPT !.tags = @ \ {n}] \in OpType
          /\ Progress([s EXCEPT !.tags = @ \ {n}])
      BY <1>0
    <3> QED BY <1>0, <3>1, <3>2, BecomeTyped
  <2> DEFINE t == [s EXCEPT !.pc = "checkDependentAncestorImages",
                            !.cur = Parent[s.img]]
  <2>2. t \in OpType /\ Progress(t)
    BY <1>0, <1>6 DEF DeleteDockerTags
  <2> QED BY <1>0, <1>6, <2>1, <2>2, BecomeTyped, EndTyped
          DEF DeleteDockerTags
<1>7. CASE CheckDependentAncestorImages(c)
  <2> DEFINE all == [s EXCEPT !.pc = "deleteDockerImages", !.cur = s.img]
             some == [s EXCEPT !.pc = "deleteDockerImages", !.cur = s.img,
                               !.dels = @ \ Ancestry[s.cur]]
             next == [s EXCEPT !.cur = Parent[s.cur]]
  <2>1. s.img \in Digests /\ s.pc = "checkDependentAncestorImages"
    BY <1>0, <1>7 DEF CheckDependentAncestorImages
  <2>2. all \in OpType /\ Progress(all)
    BY <1>0, <2>1
  <2>3. some \in OpType /\ Progress(some)
    BY <1>0, <2>1
  <2>4. s.cur \in s.dels => next \in OpType /\ Progress(next)
    <3>1. s.cur \in s.dels => Parent[s.cur] \in Digests \cup {None}
      BY <1>0
    <3> QED BY <1>0, <2>1, <3>1
  <2> QED BY <1>0, <1>7, <2>2, <2>3, <2>4, BecomeTyped
          DEF CheckDependentAncestorImages
<1>8. CASE DeleteDockerImages(c)
  <2> DEFINE next == [s EXCEPT !.cur = Parent[s.cur]]
             done == [s EXCEPT !.pc = "listLayerRefs", !.layer = Top[s.img]]
  <2>1. Parent[s.cur] \in s.dels => next \in OpType /\ Progress(next)
    BY <1>0, <1>8 DEF DeleteDockerImages
  <2>2. done \in OpType /\ Progress(done)
    BY <1>0, <1>8 DEF DeleteDockerImages
  <2> QED BY <1>0, <1>8, <2>1, <2>2, BecomeTyped, EndTyped
          DEF DeleteDockerImages
<1>9. CASE ListLayerRefs(c)
  <2>1. /\ [s EXCEPT !.pc = "deleteImgapiImage"] \in OpType
        /\ Progress([s EXCEPT !.pc = "deleteImgapiImage"])
    BY <1>0, <1>9 DEF ListLayerRefs
  <2> QED BY <1>0, <1>9, <2>1, GotoTyped, EndTyped DEF ListLayerRefs
<1>10. CASE DeleteImgapiImage(c)
  <2> DEFINE below == [s EXCEPT !.pc = "listLayerRefs",
                                !.layer = Origin[s.layer]]
  <2>1. Origin[s.layer] # None => below \in OpType /\ Progress(below)
    BY <1>0, <1>10 DEF DeleteImgapiImage
  <2> QED BY <1>0, <1>10, <2>1, BecomeTyped, EndTyped DEF DeleteImgapiImage
<1> QED BY <1>1, <1>2, <1>3, <1>4, <1>5, <1>6, <1>7, <1>8, <1>9, <1>10 DEF Rmi

LEMMA CreateTyped ==
    ASSUME TypeOK, NEW c \in Clients,
           Pull(c) \/ TagImage(c) \/ CreateVm(c) \/ DockerCommit(c)
             \/ ImageCreate(c)
    PROVE  OpsOK'
<1> DEFINE s == op[c]
           at(pc) == [s EXCEPT !.pc = pc]
<1>0. OpsOK /\ s \in OpType /\ Progress(s)
  BY DEF TypeOK, OpsOK
<1> USE DataAssumption DEF OpType, Progress, LookupPcs, RmiPcs, CreatePcs,
        OtherPcs, At
<1>1. CASE ImportLayers(c)
  <2>1. CASE \E l \in s.todo : Become(c, [s EXCEPT !.todo = @ \ {l}])
    <3>1. PICK l \in s.todo : Become(c, [s EXCEPT !.todo = @ \ {l}])
      BY <2>1
    <3>2. /\ [s EXCEPT !.todo = @ \ {l}] \in OpType
          /\ Progress([s EXCEPT !.todo = @ \ {l}])
      BY <1>0
    <3> QED BY <1>0, <3>1, <3>2, BecomeTyped
  <2>2. at("listImagesV2") \in OpType /\ Progress(at("listImagesV2"))
    BY <1>0, <1>1 DEF ImportLayers
  <2> QED BY <1>0, <1>1, <2>1, <2>2, GotoTyped, EndTyped DEF ImportLayers
<1>2. CASE ListImagesV2(c)
  <2>1. at("tagImageV2") \in OpType /\ Progress(at("tagImageV2"))
    BY <1>0, <1>2 DEF ListImagesV2
  <2>2. at("createImageV2") \in OpType /\ Progress(at("createImageV2"))
    BY <1>0, <1>2 DEF ListImagesV2
  <2> QED BY <1>0, <1>2, <2>1, <2>2, GotoTyped DEF ListImagesV2
<1>3. CASE CreateImageV2(c) \/ ImageCreate(c)
  <2>1. at("tagImageV2") \in OpType /\ Progress(at("tagImageV2"))
    BY <1>0, <1>3 DEF CreateImageV2, ImageCreate
  <2> QED BY <1>0, <1>3, <2>1, GotoTyped DEF CreateImageV2, ImageCreate
<1>4. CASE TagImageV2(c) \/ TagImage(c) \/ CreateVm(c)
  BY <1>0, <1>4, EndTyped DEF TagImageV2, TagImage, CreateVm
<1>5. CASE DockerCommit(c)
  <2>1. CASE \E d \in Digests :
                Become(c, [s EXCEPT !.pc = "imageCreate", !.img = d])
    <3>1. PICK d \in Digests :
                Become(c, [s EXCEPT !.pc = "imageCreate", !.img = d])
      BY <2>1
    <3>2. /\ [s EXCEPT !.pc = "imageCreate", !.img = d] \in OpType
          /\ Progress([s EXCEPT !.pc = "imageCreate", !.img = d])
      BY <1>0, <1>5 DEF DockerCommit
    <3> QED BY <1>0, <3>1, <3>2, BecomeTyped
  <2> QED BY <1>0, <1>5, <2>1, EndTyped DEF DockerCommit
<1> QED BY <1>1, <1>2, <1>3, <1>4, <1>5 DEF Pull

(* The stores, step by step.  A request writes one row, one tag or one     *)
(* layer, of its own account.                                              *)
LEMMA PutImageTyped ==
    ASSUME StoresOK, NEW o \in Owners, NEW d \in Digests,
           PutImage(o, d, TRUE)
    PROVE  images' \subseteq Keys /\ heads' \subseteq images'
  BY DEF PutImage, StoresOK, Keys

LEMMA DelImageTyped ==
    ASSUME StoresOK, NEW o, NEW d, DelImage(o, d)
    PROVE  images' \subseteq Keys /\ heads' \subseteq images'
  BY DEF DelImage, StoresOK

LEMMA TagTyped ==
    ASSUME StoresOK, NEW o, NEW n, NEW d \in Digests,
           PutTag(o, n, d) \/ DelTag(o, n)
    PROVE  tags' \in [TagKeys -> Digests \cup {None}]
  BY DEF PutTag, DelTag, StoresOK

LEMMA DelTagTyped ==
    ASSUME StoresOK, NEW o, NEW n, DelTag(o, n)
    PROVE  tags' \in [TagKeys -> Digests \cup {None}]
  BY DEF DelTag, StoresOK

LEMMA LookupStores ==
    ASSUME TypeOK, NEW c \in Clients, Lookup(c)
    PROVE  StoresOK'
<1>0. StoresOK
  BY DEF TypeOK
<1>1. CASE FindByName(c) \/ FindImage(c) \/ IsImageInImgapi(c)
  BY <1>0, <1>1 DEF FindByName, FindImage, IsImageInImgapi, StoresOK, moray,
                    env
<1>2. CASE DelImgRef(c)
  <2>1. images' \subseteq Keys /\ heads' \subseteq images'
    BY <1>0, <1>2, DelImageTyped DEF DelImgRef
  <2> QED BY <1>0, <1>2, <2>1 DEF DelImgRef, StoresOK, env
<1>3. CASE DelImgTagRef(c)
  <2>1. tags' \in [TagKeys -> Digests \cup {None}]
    BY <1>0, <1>3, DelTagTyped DEF DelImgTagRef
  <2> QED BY <1>0, <1>3, <2>1 DEF DelImgTagRef, StoresOK, env
<1> QED BY <1>1, <1>2, <1>3 DEF Lookup

LEMMA RmiStores ==
    ASSUME TypeOK, NEW c \in Clients, Rmi(c)
    PROVE  StoresOK'
<1>0. StoresOK
  BY DEF TypeOK
<1>1. CASE \/ GetImgTags(c) \/ CheckDependentImages(c) \/ VerifyNotInUse(c)
           \/ GetImageAncestry(c) \/ CheckDependentAncestorImages(c)
           \/ ListLayerRefs(c)
  BY <1>0, <1>1 DEF GetImgTags, CheckDependentImages, VerifyNotInUse,
       GetImageAncestry, CheckDependentAncestorImages, ListLayerRefs,
       StoresOK, moray, env
<1>2. CASE RemoveImageTag(c)
  <2>1. tags' \in [TagKeys -> Digests \cup {None}]
    BY <1>0, <1>2, DelTagTyped DEF RemoveImageTag
  <2> QED BY <1>0, <1>2, <2>1 DEF RemoveImageTag, StoresOK, env
<1>3. CASE DeleteDockerTags(c)
  <2>1. tags' \in [TagKeys -> Digests \cup {None}]
    BY <1>0, <1>3, DelTagTyped DEF DeleteDockerTags, StoresOK
  <2> QED BY <1>0, <1>3, <2>1 DEF DeleteDockerTags, StoresOK, env
<1>4. CASE DeleteDockerImages(c)
  <2>1. images' \subseteq Keys /\ heads' \subseteq images'
    BY <1>0, <1>4, DelImageTyped DEF DeleteDockerImages
  <2> QED BY <1>0, <1>4, <2>1 DEF DeleteDockerImages, StoresOK, env
<1>5. CASE DeleteImgapiImage(c)
  BY <1>0, <1>5 DEF DeleteImgapiImage, StoresOK, moray, env
<1> QED BY <1>1, <1>2, <1>3, <1>4, <1>5 DEF Rmi

LEMMA CreateStores ==
    ASSUME TypeOK, NEW c \in Clients,
           Pull(c) \/ TagImage(c) \/ CreateVm(c) \/ DockerCommit(c)
             \/ ImageCreate(c)
    PROVE  StoresOK'
<1> DEFINE o == OwnerOf[c]  s == op[c]
<1>0. StoresOK /\ s \in OpType /\ Progress(s) /\ o \in Owners
  BY DataAssumption DEF TypeOK, OpsOK
<1>1. CASE ImportLayers(c)
  <2>1. s.todo \subseteq Layers
    BY <1>0 DEF OpType
  <2>2. layers' \subseteq layers \cup s.todo
    BY <1>1 DEF ImportLayers
  <2>3. layers' \subseteq Layers
    BY <1>0, <2>1, <2>2 DEF StoresOK
  <2> QED BY <1>0, <1>1, <2>3 DEF ImportLayers, StoresOK, moray, env
<1>2. CASE ListImagesV2(c)
  BY <1>0, <1>2 DEF ListImagesV2, StoresOK, moray, env
<1>3. CASE CreateImageV2(c) \/ ImageCreate(c)
  <2>1. s.img \in Digests
    BY <1>0, <1>3 DEF CreateImageV2, ImageCreate, Progress, At
  <2>2. images' \subseteq Keys /\ heads' \subseteq images'
    BY <1>0, <1>3, <2>1, PutImageTyped DEF CreateImageV2, ImageCreate
  <2> QED BY <1>0, <1>3, <2>2 DEF CreateImageV2, ImageCreate, StoresOK, env
<1>4. CASE TagImageV2(c) \/ TagImage(c)
  <2>1. s.img \in Digests
    BY <1>0, <1>4 DEF TagImageV2, TagImage, Progress, At
  <2>2. tags' \in [TagKeys -> Digests \cup {None}]
    BY <1>0, <1>4, <2>1, TagTyped DEF TagImageV2, TagImage, StoresOK
  <2> QED BY <1>0, <1>4, <2>2 DEF TagImageV2, TagImage, StoresOK, env
<1>5. CASE CreateVm(c)
  <2>1. s.img \in Digests
    BY <1>0, <1>5 DEF CreateVm, Progress, At
  <2>2. Top[s.img] \in Layers
    BY <2>1, DataAssumption
  <2>3. [owner |-> o, layer |-> Top[s.img], state |-> "running"] \in VmType
    BY <1>0, <2>2 DEF VmType
  <2>4. vms' \in [Vms -> VmType \cup {None}]
    BY <1>0, <1>5, <2>3 DEF CreateVm, StoresOK
  <2> QED BY <1>0, <1>5, <2>4 DEF CreateVm, StoresOK, moray
<1>6. CASE DockerCommit(c)
  <2>1. \A d \in Digests : Top[d] \in Layers
    BY DataAssumption
  <2> QED BY <1>0, <1>6, <2>1 DEF DockerCommit, StoresOK, moray, env
<1> QED BY <1>1, <1>2, <1>3, <1>4, <1>5, <1>6 DEF Pull

LEMMA EnvironmentTyped ==
    ASSUME TypeOK,
           \/ \E c \in Clients : Fail(c)
           \/ \E v \in Vms : VmChange(v)
           \/ \E l \in Layers : LoseLayer(l)
    PROVE  TypeOK'
<1>0. StoresOK /\ OpsOK
  BY DEF TypeOK
<1>1. ASSUME NEW c \in Clients, Fail(c) PROVE TypeOK'
  <2>1. OpsOK'
    BY <1>0, <1>1, EndTyped DEF Fail
  <2>2. failures' \in 0..MaxFailures
    BY <1>0, <1>1, DataAssumption DEF Fail, StoresOK
  <2> QED BY <1>0, <1>1, <2>1, <2>2 DEF Fail, StoresOK, TypeOK, moray
<1>2. ASSUME NEW v \in Vms, VmChange(v) PROVE TypeOK'
  <2>1. vms' \in [Vms -> VmType \cup {None}]
    <3>1. vms[v] \in VmType
      BY <1>0, <1>2 DEF VmChange, StoresOK
    <3>2. ASSUME NEW st \in {"running", "stopped"}
          PROVE  [vms[v] EXCEPT !.state = st] \in VmType
      BY <3>1 DEF VmType
    <3> QED BY <1>0, <1>2, <3>2 DEF VmChange, StoresOK
  <2> QED BY <1>0, <1>2, <2>1 DEF VmChange, StoresOK, OpsOK, TypeOK, moray
<1>3. ASSUME NEW l \in Layers, LoseLayer(l) PROVE TypeOK'
  <2>1. lost' \in 0..MaxLost
    BY <1>0, <1>3, DataAssumption DEF LoseLayer, StoresOK
  <2> QED BY <1>0, <1>3, <2>1 DEF LoseLayer, StoresOK, OpsOK, TypeOK, moray
<1> QED BY <1>1, <1>2, <1>3

LEMMA InitTyped == ASSUME Init PROVE TypeOK
<1>1. Idle \in OpType /\ Progress(Idle)
  BY DEF Idle, OpType, Progress, LookupPcs, RmiPcs, CreatePcs, OtherPcs
<1>2. OpsOK
  BY <1>1 DEF Init, OpsOK
<1>3. layers \subseteq Layers
  BY DataAssumption DEF Init, Keys
<1>4. StoresOK
  BY <1>3, DataAssumption DEF Init, StoresOK
<1> QED BY <1>2, <1>4 DEF TypeOK

LEMMA NextTyped == ASSUME TypeOK, [Next]_vars PROVE TypeOK'
<1>1. CASE UNCHANGED vars
  BY <1>1 DEF vars, TypeOK, StoresOK, OpsOK
<1>2. ASSUME NEW c \in Clients, Start(c) PROVE TypeOK'
  <2>1. OpsOK'
    BY <1>2, StartTyped
  <2>2. StoresOK'
    BY <1>2 DEF Start, TypeOK, StoresOK, moray, env
  <2> QED BY <2>1, <2>2 DEF TypeOK
<1>3. ASSUME NEW c \in Clients, Serve(c) PROVE TypeOK'
  <2>1. OpsOK'
    BY <1>3, LookupTyped, RmiTyped, CreateTyped DEF Serve
  <2>2. StoresOK'
    BY <1>3, LookupStores, RmiStores, CreateStores DEF Serve
  <2> QED BY <2>1, <2>2 DEF TypeOK
<1> QED BY <1>1, <1>2, <1>3, EnvironmentTyped DEF Next

(* Whatever the accounts ask for and however their requests interleave,    *)
(* fail or lose layers, every variable keeps its type and every request    *)
(* has, at each step, what the rest of its pipeline reads.                 *)
THEOREM TypeCorrect == Spec => []TypeOK
<1>1. Init => TypeOK
  BY InitTyped
<1>2. TypeOK /\ [Next]_vars => TypeOK'
  BY NextTyped
<1> QED BY <1>1, <1>2, PTL DEF Spec

-----------------------------------------------------------------------------
(* Removals.  As long as no request creates rows and nobody takes layers   *)
(* away behind the requests' backs, rows and layers only go.               *)

NoCreation == /\ \A r \in Requests : r.kind \notin {"pull", "commit"}
              /\ MaxLost = 0

(* A step of a request that serves no pull and no commit.                  *)
LEMMA ServedWithoutCreation ==
    ASSUME NoCreation, TypeOK, NEW c \in Clients, Serve(c)
    PROVE  Lookup(c) \/ Rmi(c) \/ TagImage(c) \/ CreateVm(c)
<1>1. Progress(op[c])
  BY DEF TypeOK, OpsOK
<1>2. ~At(c, "dockerCommit") /\ ~At(c, "imageCreate")
  BY <1>1 DEF Progress, NoCreation, At
<1>3. \A pc \in CreatePcs \ {"tagImageV2"} : ~At(c, pc)
  BY <1>1 DEF Progress, NoCreation, At, CreatePcs
<1>4. ~At(c, "tagImageV2")
  BY <1>1 DEF Progress, NoCreation, At
<1>5. ~Pull(c)
  BY <1>3, <1>4 DEF Pull, ImportLayers, ListImagesV2, CreateImageV2,
                    TagImageV2, CreatePcs
<1> QED BY <1>2, <1>5 DEF Serve, DockerCommit, ImageCreate

(* Such a step forgets one row, deletes one layer, or touches neither.     *)
LEMMA RowsAndLayersGo ==
    ASSUME NoCreation, TypeOK, [Next]_vars
    PROVE  \/ UNCHANGED <<images, layers>>
           \/ UNCHANGED layers /\ \E k \in images : images' = images \ {k}
           \/ \E c \in Clients : DeleteImgapiImage(c)
<1> DEFINE Goal == \/ UNCHANGED <<images, layers>>
                   \/ /\ UNCHANGED layers
                      /\ \E k \in images : images' = images \ {k}
                   \/ \E c \in Clients : DeleteImgapiImage(c)
<1>1. ASSUME NEW o, NEW d, DelImage(o, d), UNCHANGED layers
      PROVE  Goal
  BY <1>1 DEF DelImage
<1>2. ASSUME NEW c \in Clients, Lookup(c) PROVE Goal
  <2>1. CASE DelImgRef(c)
    BY <2>1, <1>1 DEF DelImgRef
  <2> QED BY <1>2, <2>1 DEF Lookup, FindByName, FindImage, IsImageInImgapi,
                            DelImgTagRef, moray
<1>3. ASSUME NEW c \in Clients, Rmi(c) PROVE Goal
  <2>1. CASE DeleteDockerImages(c)
    BY <2>1, <1>1 DEF DeleteDockerImages
  <2>2. CASE DeleteImgapiImage(c)
    BY <2>2
  <2> QED BY <1>3, <2>1, <2>2 DEF Rmi, GetImgTags, RemoveImageTag,
          CheckDependentImages, VerifyNotInUse, GetImageAncestry,
          DeleteDockerTags, CheckDependentAncestorImages, ListLayerRefs, moray
<1>4. ASSUME NEW c \in Clients, Serve(c) PROVE Goal
  BY <1>2, <1>3, <1>4, ServedWithoutCreation DEF TagImage, CreateVm, moray
<1>5. ASSUME NEW l \in Layers, LoseLayer(l) PROVE Goal
  BY <1>5 DEF LoseLayer, NoCreation, TypeOK, StoresOK
<1>6. CASE UNCHANGED vars
  BY <1>6 DEF vars
<1> QED BY <1>4, <1>5, <1>6 DEF Next, Start, Fail, VmChange, moray

(* A request comes to delete a layer only from the count of its rows.      *)
LEMMA CountFirst ==
    ASSUME TypeOK, [Next]_vars, NEW c \in Clients,
           op'[c] # op[c], op'[c].pc = "deleteImgapiImage"
    PROVE  ListLayerRefs(c)
<1>0. op \in [Clients -> OpType]
  BY DEF TypeOK, OpsOK
<1>1. ASSUME NEW e \in Clients, NEW t, Become(e, t)
      PROVE  e = c /\ op'[c] = t
  BY <1>0, <1>1 DEF Become
<1>2. ASSUME NEW e \in Clients, End(e) PROVE FALSE
  BY <1>1, <1>2 DEF End, Idle
<1>3. ASSUME NEW e \in Clients, NEW pc, pc # "deleteImgapiImage", Goto(e, pc)
      PROVE  FALSE
  <2>1. op[e] \in OpType
    BY <1>0
  <2> QED BY <1>1, <1>3, <2>1 DEF Goto, OpType
<1>4. ASSUME NEW e \in Clients, NEW t, t.pc # "deleteImgapiImage"
      PROVE  ~Become(e, t)
  BY <1>1, <1>4
<1>5. ASSUME NEW e \in Clients, Start(e) PROVE FALSE
  <2>1. ASSUME NEW r, NEW i, NEW t
        PROVE  [Idle EXCEPT !.pc = "importLayers", !.req = r,
                            !.img = i, !.todo = t].pc = "importLayers"
    BY DEF Idle
  <2>2. ASSUME NEW r
        PROVE  [Idle EXCEPT !.pc = "findByName", !.req = r].pc = "findByName"
    BY DEF Idle
  <2> QED BY <1>4, <1>5, <2>1, <2>2 DEF Start
<1>6. ASSUME NEW e \in Clients, Lookup(e) PROVE FALSE
  <2>1. op[e] \in OpType
    BY <1>0
  <2>2. ~FindByName(e) /\ ~FindImage(e)
    BY <1>1, <1>2, <2>1 DEF FindByName, FindImage, OpType
  <2>3. ~IsImageInImgapi(e)
    <3>1. \A k : Found(k) = "deleteImgapiImage" => k \notin {"rmi", "tag", "run", "commit"}
      BY DEF Found
    <3>2. At(e, "isImageInImgapi") => op[e].req.kind \in {"inspect", "rmi", "tag", "run", "commit"}
      BY DataAssumption DEF TypeOK, OpsOK, Progress, LookupPcs, RequestType, At
    <3> QED BY <1>2, <1>3, <3>1, <3>2 DEF IsImageInImgapi
  <2>4. ~DelImgRef(e) /\ ~DelImgTagRef(e)
    BY <1>2, <1>3 DEF DelImgRef, DelImgTagRef
  <2> QED BY <1>6, <2>2, <2>3, <2>4 DEF Lookup
<1>7. ASSUME NEW e \in Clients, Rmi(e) PROVE ListLayerRefs(c)
  <2>1. op[e] \in OpType
    BY <1>0
  <2> DEFINE pc == op[e].pc
  <2>2. ~GetImgTags(e) /\ ~VerifyNotInUse(e)
    <3>1. ASSUME NEW x PROVE
            [op[e] EXCEPT !.pc = "checkDependentImages", !.tags = x].pc
              = "checkDependentImages"
      BY <2>1 DEF OpType
    <3>2. ASSUME NEW x, NEW y, NEW z PROVE
            [op[e] EXCEPT !.pc = "getImageAncestry", !.dels = x,
                          !.headFound = y, !.cur = z].pc = "getImageAncestry"
      BY <2>1 DEF OpType
    <3> QED BY <1>2, <1>3, <1>4, <3>1, <3>2 DEF GetImgTags, VerifyNotInUse
  <2>3. ~RemoveImageTag(e) /\ ~CheckDependentImages(e)
    BY <1>2, <1>3 DEF RemoveImageTag, CheckDependentImages
  <2>4. ~GetImageAncestry(e)
    <3>1. ReadParent(op[e], OwnerOf[e]).pc = pc
      BY <2>1 DEF ReadParent, OpType
    <3> QED BY <1>2, <1>3, <1>4, <3>1 DEF GetImageAncestry, At
  <2>5. ~DeleteDockerTags(e)
    <3>1. ASSUME NEW n PROVE [op[e] EXCEPT !.tags = @ \ {n}].pc = pc
      BY <2>1 DEF OpType
    <3>2. ASSUME NEW d PROVE
            [op[e] EXCEPT !.pc = "checkDependentAncestorImages",
                          !.cur = d].pc = "checkDependentAncestorImages"
      BY <2>1 DEF OpType
    <3> QED BY <1>2, <1>4, <3>1, <3>2 DEF DeleteDockerTags, At
  <2>6. ~CheckDependentAncestorImages(e) /\ ~DeleteDockerImages(e)
    <3>1. ASSUME NEW d PROVE [op[e] EXCEPT !.cur = d].pc = pc
      BY <2>1 DEF OpType
    <3>2. ASSUME NEW d PROVE
            [op[e] EXCEPT !.pc = "deleteDockerImages", !.cur = d].pc
              = "deleteDockerImages"
      BY <2>1 DEF OpType
    <3>3. ASSUME NEW d, NEW x PROVE
            [op[e] EXCEPT !.pc = "deleteDockerImages", !.cur = d,
                          !.dels = @ \ x].pc = "deleteDockerImages"
      BY <2>1 DEF OpType
    <3>4. ASSUME NEW l PROVE
            [op[e] EXCEPT !.pc = "listLayerRefs", !.layer = l].pc
              = "listLayerRefs"
      BY <2>1 DEF OpType
    <3>5. ~CheckDependentAncestorImages(e)
      BY <1>4, <3>1, <3>2, <3>3 DEF CheckDependentAncestorImages, At
    <3>6. ~DeleteDockerImages(e)
      BY <1>2, <1>4, <3>1, <3>4 DEF DeleteDockerImages, At
    <3> QED BY <3>5, <3>6
  <2>7. CASE ListLayerRefs(e)
    BY <1>1, <1>2, <2>7 DEF ListLayerRefs, Goto
  <2>8. ~DeleteImgapiImage(e)
    <3>1. ASSUME NEW l PROVE
            [op[e] EXCEPT !.pc = "listLayerRefs", !.layer = l].pc
              = "listLayerRefs"
      BY <2>1 DEF OpType
    <3> QED BY <1>2, <1>4, <3>1 DEF DeleteImgapiImage
  <2> QED BY <1>7, <2>2, <2>3, <2>4, <2>5, <2>6, <2>7, <2>8 DEF Rmi
<1>8. ASSUME NEW e \in Clients, Pull(e) \/ TagImage(e) \/ CreateVm(e)
                                  \/ DockerCommit(e) \/ ImageCreate(e)
      PROVE  FALSE
  <2>1. op[e] \in OpType
    BY <1>0
  <2>2. ~ImportLayers(e) /\ ~DockerCommit(e)
    <3>1. ASSUME NEW l PROVE [op[e] EXCEPT !.todo = @ \ {l}].pc = op[e].pc
      BY <2>1 DEF OpType
    <3>2. ASSUME NEW d PROVE
            [op[e] EXCEPT !.pc = "imageCreate", !.img = d].pc = "imageCreate"
      BY <2>1 DEF OpType
    <3>3. ~ImportLayers(e)
      BY <1>2, <1>3, <1>4, <3>1 DEF ImportLayers, At
    <3> QED BY <1>2, <1>4, <3>2, <3>3 DEF DockerCommit
  <2> QED BY <1>2, <1>3, <1>8, <2>2 DEF Pull, ListImagesV2, CreateImageV2,
          TagImageV2, TagImage, CreateVm, ImageCreate
<1>9. ASSUME NEW e \in Clients, Serve(e) PROVE ListLayerRefs(c)
  BY <1>6, <1>7, <1>8, <1>9 DEF Serve
<1> QED BY <1>2, <1>5, <1>9 DEF Next, Fail, VmChange, LoseLayer, vars

(* Removals keep the layers of every image that is still there.            *)
LEMMA RemovalInvariant ==
    ASSUME NoCreation, RemovalInv, [Next]_vars
    PROVE  RemovalInv'
<1> USE DEF RemovalInv
<1>1. TypeOK'
  BY NextTyped
<1>2. images' \subseteq images
  BY RowsAndLayersGo DEF DeleteImgapiImage, moray
<1>3. ImagesHaveLayers'
  <2>1. CASE UNCHANGED layers
    BY <1>2, <2>1 DEF ImagesHaveLayers
  <2>2. ASSUME NEW c \in Clients, DeleteImgapiImage(c)
        PROVE  ImagesHaveLayers'
    <3>1. \A k \in images : Top[k[2]] # op[c].layer
      BY <2>2 DEF CountStands, LayerRefs, DeleteImgapiImage
    <3>2. layers \ {op[c].layer} \subseteq layers'
      BY <2>2 DEF DeleteImgapiImage
    <3> QED BY <1>2, <3>1, <3>2 DEF ImagesHaveLayers
  <2> QED BY <2>1, <2>2, RowsAndLayersGo
<1>4. CountStands'
  <2> SUFFICES ASSUME NEW c \in Clients, op'[c].pc = "deleteImgapiImage"
               PROVE  \A k \in images' : Top[k[2]] # op'[c].layer
    BY DEF CountStands, At, LayerRefs
  <2>1. CASE op'[c] = op[c]
    BY <1>2, <2>1 DEF CountStands, At, LayerRefs
  <2>2. CASE op'[c] # op[c]
    <3>1. ListLayerRefs(c)
      BY <2>2, CountFirst
    <3>2. op[c] \in OpType /\ op \in [Clients -> OpType]
      BY DEF TypeOK, OpsOK
    <3>3. op'[c].layer = op[c].layer /\ LayerRefs(op[c].layer) = {}
      BY <2>2, <3>1, <3>2 DEF ListLayerRefs, Goto, Become, End, Idle, OpType
    <3> QED BY <1>2, <3>3 DEF LayerRefs
  <2> QED BY <2>1, <2>2
<1> QED BY <1>1, <1>3, <1>4

LEMMA RemovalInit == ASSUME Init PROVE RemovalInv
<1>1. ImagesHaveLayers
  BY DataAssumption, ChainAssumption DEF Init, ImagesHaveLayers, Keys
<1>2. CountStands
  BY DEF Init, CountStands, At, Idle
<1> QED BY <1>1, <1>2, InitTyped DEF RemovalInv

(* Any number of accounts and connections can remove images that share     *)
(* layers at the same time, and be cut short anywhere: every image row     *)
(* that is left still has its layer.                                       *)
THEOREM RemovalsKeepLayers ==
    ASSUME NoCreation PROVE Spec => []ImagesHaveLayers
<1>1. Init => RemovalInv
  BY RemovalInit
<1>2. RemovalInv /\ [Next]_vars => RemovalInv'
  BY RemovalInvariant
<1>3. RemovalInv => ImagesHaveLayers
  BY DEF RemovalInv
<1> QED BY <1>1, <1>2, <1>3, PTL DEF Spec

(* A removal is a step of the abstract store, or no step of it at all.     *)
LEMMA RemovalMaps ==
    ASSUME NoCreation, RemovalInv, [Next]_vars
    PROVE  [Shared!Next]_<<images, layers>>
<1> USE DEF RemovalInv
<1>1. CASE UNCHANGED <<images, layers>>
  BY <1>1
<1>2. CASE UNCHANGED layers /\ \E k \in images : images' = images \ {k}
  BY <1>2 DEF Shared!Next, Shared!Forget
<1>3. ASSUME NEW c \in Clients, DeleteImgapiImage(c)
      PROVE  [Shared!Next]_<<images, layers>>
  <2> DEFINE l == op[c].layer
  <2>1. UNCHANGED images
    BY <1>3 DEF DeleteImgapiImage, moray
  <2>2. CASE l \in layers /\ LayerChildren(l) = {}
    <3>1. layers' = layers \ {l}
      BY <1>3, <2>2 DEF DeleteImgapiImage
    <3>2. \A m \in layers : Origin[m] # l
      BY <2>2 DEF LayerChildren
    <3>3. \A k \in images : Top[k[2]] # l
      BY <1>3 DEF CountStands, LayerRefs, DeleteImgapiImage
    <3>4. images \subseteq Keys
      BY DEF TypeOK, StoresOK
    <3>5. Shared!Unused(l)
      BY <3>2, <3>3, <3>4 DEF Shared!Unused
    <3> QED BY <2>1, <2>2, <3>1, <3>5 DEF Shared!Next, Shared!Collect
  <2>3. CASE ~(l \in layers /\ LayerChildren(l) = {})
    BY <1>3, <2>1, <2>3 DEF DeleteImgapiImage
  <2> QED BY <2>2, <2>3
<1> QED BY <1>1, <1>2, <1>3, RowsAndLayersGo

LEMMA InitMaps == ASSUME Init PROVE Shared!Init
<1>1. TypeOK /\ ImagesHaveLayers
  BY RemovalInit DEF RemovalInv
<1>2. \A k \in images : Shared!Usable(k)
  BY <1>1 DEF ImagesHaveLayers, TypeOK, StoresOK, Shared!Usable
<1> QED BY <1>1, <1>2 DEF TypeOK, StoresOK, Shared!Init

(* Removals implement the store that collects a layer, atomically, only    *)
(* when nothing uses it.                                                   *)
THEOREM RemovalsShareLayers ==
    ASSUME NoCreation PROVE Spec => LayersShared
<1>1. Init => Shared!Init /\ RemovalInv
  BY InitMaps, RemovalInit
<1>2. RemovalInv /\ [Next]_vars => RemovalInv'
  BY RemovalInvariant
<1>3. RemovalInv /\ [Next]_vars => [Shared!Next]_<<images, layers>>
  BY RemovalMaps
<1> QED BY <1>1, <1>2, <1>3, PTL DEF Spec, LayersShared, Shared!Spec

-----------------------------------------------------------------------------
(* Accounts do not touch each other's rows.                                *)

OwnRows(o) ==
    /\ \A k \in Keys : k[1] # o =>
          /\ (k \in images') = (k \in images)
          /\ (k \in heads') = (k \in heads)
    /\ \A k \in TagKeys : k[1] # o => tags'[k] = tags[k]

LEMMA WritesOwnRows ==
    ASSUME StoresOK, NEW o,
           \/ UNCHANGED <<images, heads>>
           \/ \E d : DelImage(o, d) \/ PutImage(o, d, TRUE),
           \/ UNCHANGED tags
           \/ \E n, d : DelTag(o, n) \/ PutTag(o, n, d)
    PROVE  OwnRows(o)
<1>1. \A k \in Keys : k[1] # o =>
         /\ (k \in images') = (k \in images)
         /\ (k \in heads') = (k \in heads)
  BY DEF DelImage, PutImage
<1>2. ASSUME NEW n, NEW d, tags' = [tags EXCEPT ![<<o, n>>] = d]
      PROVE  \A k \in TagKeys : k[1] # o => tags'[k] = tags[k]
  BY <1>2 DEF StoresOK, TagKeys
<1>3. \A k \in TagKeys : k[1] # o => tags'[k] = tags[k]
  BY <1>2 DEF DelTag, PutTag
<1> QED BY <1>1, <1>3 DEF OwnRows

LEMMA ServesOwnRows ==
    ASSUME TypeOK, NEW c \in Clients, Start(c) \/ Serve(c) \/ Fail(c)
    PROVE  OwnRows(OwnerOf[c])
<1> DEFINE o == OwnerOf[c]
<1>0. StoresOK
  BY DEF TypeOK
<1> DEFINE RowsOf == \/ UNCHANGED <<images, heads>>
                     \/ \E d : DelImage(o, d) \/ PutImage(o, d, TRUE)
           TagsOf == \/ UNCHANGED tags
                     \/ \E n, d : DelTag(o, n) \/ PutTag(o, n, d)
<1>1. CASE Start(c) \/ Fail(c)
  BY <1>0, <1>1, WritesOwnRows DEF Start, Fail, moray
<1>2. CASE Lookup(c)
  <2>1. RowsOf /\ TagsOf
    BY <1>2 DEF Lookup, FindByName, FindImage, IsImageInImgapi, DelImgRef,
                DelImgTagRef, moray
  <2> QED BY <1>0, <2>1, WritesOwnRows
<1>3. CASE Rmi(c)
  <2>1. RowsOf /\ TagsOf
    <3>1. CASE DeleteDockerTags(c)
      BY <3>1 DEF DeleteDockerTags
    <3>2. CASE DeleteDockerImages(c)
      BY <3>2 DEF DeleteDockerImages
    <3> QED BY <1>3, <3>1, <3>2 DEF Rmi, GetImgTags, RemoveImageTag,
            CheckDependentImages, VerifyNotInUse, GetImageAncestry,
            CheckDependentAncestorImages, ListLayerRefs, DeleteImgapiImage,
            moray
  <2> QED BY <1>0, <2>1, WritesOwnRows
<1>4. CASE Pull(c) \/ TagImage(c) \/ CreateVm(c) \/ DockerCommit(c)
              \/ ImageCreate(c)
  <2>1. RowsOf /\ TagsOf
    BY <1>4 DEF Pull, ImportLayers, ListImagesV2, CreateImageV2, TagImageV2,
                TagImage, CreateVm, DockerCommit, ImageCreate, moray
  <2> QED BY <1>0, <2>1, WritesOwnRows
<1> QED BY <1>1, <1>2, <1>3, <1>4 DEF Serve

(* Only the client that takes a step moves.                                *)
LEMMA OneMoves ==
    ASSUME TypeOK, NEW e \in Clients, Start(e) \/ Serve(e) \/ Fail(e),
           NEW c \in Clients, op'[c] # op[c]
    PROVE  c = e
<1>1. op \in [Clients -> OpType]
  BY DEF TypeOK, OpsOK
<1>2. ASSUME NEW t, Become(e, t) PROVE c = e
  BY <1>1, <1>2 DEF Become
<1>3. End(e) => c = e
  BY <1>2 DEF End
<1>4. ASSUME NEW pc, Goto(e, pc) PROVE c = e
  BY <1>2, <1>4 DEF Goto
<1>5. Start(e) \/ Fail(e) => c = e
  BY <1>2, <1>3 DEF Start, Fail
<1>6. Lookup(e) => c = e
  BY <1>2, <1>3, <1>4 DEF Lookup, FindByName, FindImage, IsImageInImgapi,
                          DelImgRef, DelImgTagRef
<1>7. Rmi(e) => c = e
  <2>1. GetImgTags(e) \/ RemoveImageTag(e) \/ CheckDependentImages(e)
           \/ VerifyNotInUse(e) => c = e
    BY <1>2, <1>3, <1>4 DEF GetImgTags, RemoveImageTag, VerifyNotInUse,
                            CheckDependentImages
  <2>2. GetImageAncestry(e) \/ DeleteDockerTags(e)
           \/ CheckDependentAncestorImages(e) => c = e
    BY <1>2, <1>3, <1>4 DEF GetImageAncestry, DeleteDockerTags,
                            CheckDependentAncestorImages
  <2>3. DeleteDockerImages(e) \/ ListLayerRefs(e) \/ DeleteImgapiImage(e)
           => c = e
    BY <1>2, <1>3, <1>4 DEF DeleteDockerImages, ListLayerRefs,
                            DeleteImgapiImage
  <2> QED BY <2>1, <2>2, <2>3 DEF Rmi
<1>8. Pull(e) => c = e
  BY <1>2, <1>3, <1>4 DEF Pull, ImportLayers, ListImagesV2, CreateImageV2,
                          TagImageV2
<1>9. TagImage(e) \/ CreateVm(e) \/ DockerCommit(e) \/ ImageCreate(e)
         => c = e
  BY <1>2, <1>3, <1>4 DEF TagImage, CreateVm, DockerCommit, ImageCreate
<1> QED BY <1>5, <1>6, <1>7, <1>8, <1>9 DEF Serve

(* A request changes only the rows and tags of the account that sent it,   *)
(* although all accounts share one bucket and their requests interleave.   *)
THEOREM AccountsIsolated == Spec => OwnRowsOnly
<1> DEFINE Mine == \A c \in Clients : op'[c] # op[c] => OwnRows(OwnerOf[c])
<1>1. TypeOK /\ [Next]_vars => Mine
  <2> SUFFICES ASSUME TypeOK, [Next]_vars,
                      NEW c \in Clients, op'[c] # op[c]
               PROVE  OwnRows(OwnerOf[c])
    OBVIOUS
  <2>1. ASSUME NEW e \in Clients, Start(e) \/ Serve(e) \/ Fail(e)
        PROVE  OwnRows(OwnerOf[c])
    BY <2>1, OneMoves, ServesOwnRows
  <2> QED BY <2>1 DEF Next, VmChange, LoseLayer, vars
<1>2. Spec => []TypeOK
  BY TypeCorrect
<1> QED BY <1>1, <1>2, PTL DEF Spec, OwnRowsOnly, OwnRows

-----------------------------------------------------------------------------
(* What one removal has chosen to delete.                                  *)

(* Without creation, between requests that remove at the same time, a      *)
(* removal knows this of the rows ims, the heads hs and the layers ls.     *)
NoKids(ims, o, d) == \A e \in Digests : <<o, e>> \in ims => Parent[e] # d
FewKids(ims, o, d) ==
    \A a, b \in Digests : /\ <<o, a>> \in ims /\ <<o, b>> \in ims
                          /\ Parent[a] = d /\ Parent[b] = d
                          => a = b

(* dels are descendants of whatever else of the chain they depend on.      *)
Closed(s) ==
    \A e \in Ancestry[s.img], d \in s.dels : d \in Ancestry[e] => e \in s.dels
Choosing == {"getImageAncestry", "deleteDockerTags",
             "checkDependentAncestorImages", "deleteDockerImages"}
Chosen(ims, hs, s, o) ==
    /\ s.dels \subseteq Ancestry[s.img]
    /\ NoKids(ims, o, s.img)
    /\ \A d \in s.dels \ {s.img} : <<o, d>> \notin hs
Reading(s) ==
    /\ Closed(s) /\ s.cur \in Ancestry[s.img]
    /\ \/ s.headFound
       \/ s.cur \in s.dels /\ Ancestry[s.img] \subseteq s.dels \cup Ancestry[s.cur]
Checking(ims, s, o) ==
    /\ Closed(s) /\ s.cur \in Ancestry[s.img] \cup {None}
    /\ \A d \in s.dels \ {s.img} :
          FewKids(ims, o, d) \/ (s.cur # None /\ d \in Ancestry[s.cur])
Deleting(ims, s, o) ==
    /\ s.cur \in s.dels \cup {s.img} /\ NoKids(ims, o, s.cur)
    /\ \A d \in s.dels \ {s.img} : FewKids(ims, o, d)
Sound(ims, hs, ls, s, o) ==
    /\ s.pc \in Choosing => Chosen(ims, hs, s, o)
    /\ s.pc = "getImageAncestry" => Reading(s)
    /\ s.pc = "deleteDockerTags" => Closed(s)
    /\ s.pc = "checkDependentAncestorImages" => Checking(ims, s, o)
    /\ s.pc = "deleteDockerImages" => Deleting(ims, s, o)
    /\ s.pc = "verifyNotInUse" => NoKids(ims, o, s.img)
    /\ s.pc = "delImgRef" => Top[s.img] \notin ls
Stepping == Choosing \cup {"verifyNotInUse", "delImgRef"}

ChoiceInv ==
    RemovalInv /\ \A c \in Clients : Sound(images, heads, layers, op[c], OwnerOf[c])

LEMMA AncestryFacts ==
    ASSUME NEW d \in Digests
    PROVE  /\ Ancestry[d] \subseteq Digests /\ d \in Ancestry[d]
           /\ Parent[d] # None => /\ Parent[d] \in Digests
                                  /\ Parent[d] \in Ancestry[d]
                                  /\ Ancestry[d] = {d} \cup Ancestry[Parent[d]]
                                  /\ d \notin Ancestry[Parent[d]]
           /\ Parent[d] = None => Ancestry[d] = {d}
           /\ \A e \in Ancestry[d] : Ancestry[e] \subseteq Ancestry[d]
<1>1. Ancestry[d] \subseteq Digests /\ Parent[d] \in Digests \cup {None}
  BY DataAssumption
<1>2. \A e \in Digests : e \in Ancestry[e]
  BY ChainAssumption
<1> QED BY <1>1, <1>2, ChainAssumption

LEMMA NoCycle ==
    ASSUME NEW d \in Digests, NEW e \in Ancestry[d], d \in Ancestry[e]
    PROVE  d = e
<1>1. SUFFICES ASSUME d # e PROVE FALSE
  OBVIOUS
<1>2. Parent[d] # None /\ Parent[d] \in Digests /\ e \in Ancestry[Parent[d]]
      /\ d \notin Ancestry[Parent[d]]
  BY <1>1, AncestryFacts
<1>3. Ancestry[e] \subseteq Ancestry[Parent[d]]
  BY <1>2, AncestryFacts
<1> QED BY <1>2, <1>3

(* What is chosen stands while others remove.                              *)
LEMMA SoundStands ==
    ASSUME NEW ims, NEW hs, NEW ls, NEW s, NEW o, Sound(ims, hs, ls, s, o),
           NEW jms \in SUBSET ims, NEW js \in SUBSET hs, NEW ks \in SUBSET ls
    PROVE  Sound(jms, js, ks, s, o)
<1>1. \A d : /\ NoKids(ims, o, d) => NoKids(jms, o, d)
             /\ FewKids(ims, o, d) => FewKids(jms, o, d)
  BY DEF NoKids, FewKids
<1> HIDE DEF NoKids, FewKids
<1> QED BY <1>1 DEF Sound, Chosen, Checking, Deleting

LEMMA QuietSound ==
    ASSUME NEW ims, NEW hs, NEW ls, NEW s, NEW o, s.pc \notin Stepping
    PROVE  Sound(ims, hs, ls, s, o)
  BY DEF Sound, Stepping, Choosing

LEMMA HeadsGo ==
    ASSUME NoCreation, TypeOK, [Next]_vars PROVE heads' \subseteq heads
<1>1. ASSUME NEW o, NEW d, DelImage(o, d) PROVE heads' \subseteq heads
  BY <1>1 DEF DelImage
<1>2. ASSUME NEW c \in Clients, Lookup(c) PROVE heads' \subseteq heads
  <2>1. CASE DelImgRef(c)
    BY <2>1, <1>1 DEF DelImgRef
  <2> QED BY <1>2, <2>1 DEF Lookup, FindByName, FindImage, IsImageInImgapi,
                            DelImgTagRef, moray
<1>3. ASSUME NEW c \in Clients, Rmi(c) PROVE heads' \subseteq heads
  <2>1. CASE DeleteDockerImages(c)
    BY <2>1, <1>1 DEF DeleteDockerImages
  <2> QED BY <1>3, <2>1 DEF Rmi, GetImgTags, RemoveImageTag, DeleteImgapiImage,
          CheckDependentImages, VerifyNotInUse, GetImageAncestry,
          DeleteDockerTags, CheckDependentAncestorImages, ListLayerRefs, moray
<1>4. ASSUME NEW c \in Clients, Serve(c) PROVE heads' \subseteq heads
  BY <1>2, <1>3, <1>4, ServedWithoutCreation DEF TagImage, CreateVm, moray
<1>5. ASSUME NEW c \in Clients, Start(c) \/ Fail(c) PROVE heads' \subseteq heads
  BY <1>5 DEF Start, Fail, moray
<1>6. ASSUME NEW v \in Vms, VmChange(v) PROVE heads' \subseteq heads
  BY <1>6 DEF VmChange, moray
<1>7. ASSUME NEW l \in Layers, LoseLayer(l) PROVE heads' \subseteq heads
  BY <1>7 DEF LoseLayer, moray
<1>8. CASE UNCHANGED vars
  BY <1>8 DEF vars
<1> QED BY <1>4, <1>5, <1>6, <1>7, <1>8 DEF Next

LEMMA StoresShrink ==
    ASSUME NoCreation, TypeOK, [Next]_vars
    PROVE  /\ images' \in SUBSET images /\ heads' \in SUBSET heads
           /\ layers' \in SUBSET layers
<1>1. ASSUME NEW c \in Clients, DeleteImgapiImage(c)
      PROVE  images' = images /\ layers' \subseteq layers
  BY <1>1 DEF DeleteImgapiImage, moray
<1>2. images' \subseteq images /\ layers' \subseteq layers
  BY <1>1, RowsAndLayersGo
<1> QED BY <1>2, HeadsGo

(* A request that goes on, with what it knows of the stores as they are.   *)
Goes(c) == \E t : Become(c, t) /\ Sound(images, heads, layers, t, OwnerOf[c])

LEMMA EndGoes == ASSUME NEW c, End(c) PROVE Goes(c)
<1>1. Sound(images, heads, layers, Idle, OwnerOf[c])
  BY QuietSound DEF Idle, Stepping, Choosing
<1> HIDE DEF Idle
<1> QED BY <1>1 DEF End, Goes

LEMMA BecomeGoes ==
    ASSUME NEW c, NEW t, Become(c, t), t.pc \notin Stepping PROVE Goes(c)
  BY QuietSound DEF Goes

LEMMA GotoGoes ==
    ASSUME TypeOK, NEW c \in Clients, NEW pc, Goto(c, pc), pc \notin Stepping
    PROVE  Goes(c)
<1> DEFINE t == [op[c] EXCEPT !.pc = pc]
<1>1. t.pc = pc
  BY DEF TypeOK, OpsOK, OpType
<1>2. Become(c, t)
  BY DEF Goto
<1> HIDE DEF t
<1> QED BY <1>1, <1>2, BecomeGoes

LEMMA ChoiceOf ==
    ASSUME ChoiceInv, NEW c \in Clients
    PROVE  /\ TypeOK /\ op[c] \in OpType /\ Progress(op[c])
           /\ Sound(images, heads, layers, op[c], OwnerOf[c])
           /\ OwnerOf[c] \in Owners
           /\ images \subseteq Keys /\ ImagesHaveLayers
  BY DataAssumption DEF ChoiceInv, RemovalInv, TypeOK, OpsOK, StoresOK

LEMMA StartGoes == ASSUME NEW c, Start(c) PROVE Goes(c)
<1>1. PICK r \in Requests :
        IF r.kind = "pull"
        THEN Become(c, [Idle EXCEPT !.pc = "importLayers", !.req = r,
                                    !.img = r.ref, !.todo = LayersOf[r.ref]])
        ELSE Become(c, [Idle EXCEPT !.pc = "findByName", !.req = r])
  BY DEF Start
<1> DEFINE s == [Idle EXCEPT !.pc = "importLayers", !.req = r,
                             !.img = r.ref, !.todo = LayersOf[r.ref]]
           t == [Idle EXCEPT !.pc = "findByName", !.req = r]
<1>2. s.pc = "importLayers" /\ t.pc = "findByName"
  BY DEF Idle
<1>3. Become(c, s) \/ Become(c, t)
  BY <1>1
<1> HIDE DEF s, t
<1> QED BY <1>2, <1>3, BecomeGoes DEF Stepping, Choosing

LEMMA LookupGoes ==
    ASSUME ChoiceInv, NEW c \in Clients, Lookup(c) PROVE Goes(c)
<1> DEFINE s == op[c]
<1>1. s \in OpType /\ TypeOK
  BY ChoiceOf
<1>2. CASE FindByName(c)
  <2>1. ASSUME NEW n, NEW d
        PROVE  /\ [s EXCEPT !.pc = "findImage", !.tag = n, !.cur = d].pc = "findImage"
               /\ [s EXCEPT !.pc = "findImage", !.cur = d].pc = "findImage"
    BY <1>1 DEF OpType
  <2>2. "findImage" \notin Stepping
    BY DEF Stepping, Choosing
  <2> QED BY <1>2, <2>1, <2>2, EndGoes, BecomeGoes DEF FindByName
<1>3. CASE FindImage(c)
  <2>1. ASSUME NEW d
        PROVE  [s EXCEPT !.pc = "isImageInImgapi", !.img = d].pc = "isImageInImgapi"
    BY <1>1 DEF OpType
  <2>2. "isImageInImgapi" \notin Stepping
    BY DEF Stepping, Choosing
  <2> QED BY <1>3, <2>1, <2>2, EndGoes, BecomeGoes DEF FindImage
<1>4. CASE IsImageInImgapi(c)
  <2>1. CASE End(c)
    BY <2>1, EndGoes
  <2>2. CASE s.req.kind # "inspect" /\ Goto(c, Found(s.req.kind))
    <3>1. s.req.kind \in {"rmi", "tag", "run", "commit"}
      BY <1>4, <2>2, ChoiceOf, DataAssumption
      DEF IsImageInImgapi, At, Progress, LookupPcs, RequestType
    <3>2. Found(s.req.kind) \notin Stepping
      BY <3>1 DEF Found, Stepping, Choosing
    <3> QED BY <1>1, <2>2, <3>2, GotoGoes
  <2>3. CASE Top[s.img] \notin layers /\ Goto(c, "delImgRef")
    <3> DEFINE t == [s EXCEPT !.pc = "delImgRef"]
    <3>1. t.pc = "delImgRef" /\ t.img = s.img
      BY <1>1 DEF OpType
    <3>2. Become(c, t)
      BY <2>3 DEF Goto
    <3> HIDE DEF t
    <3>3. Sound(images, heads, layers, t, OwnerOf[c])
      BY <2>3, <3>1 DEF Sound, Choosing
    <3> QED BY <3>2, <3>3 DEF Goes
  <2> QED BY <1>4, <2>1, <2>2, <2>3 DEF IsImageInImgapi
<1>5. CASE DelImgRef(c)
  <2>1. "delImgTagRef" \notin Stepping
    BY DEF Stepping, Choosing
  <2> QED BY <1>1, <1>5, <2>1, EndGoes, GotoGoes DEF DelImgRef
<1>6. CASE DelImgTagRef(c)
  BY <1>6, EndGoes DEF DelImgTagRef
<1> QED BY <1>2, <1>3, <1>4, <1>5, <1>6 DEF Lookup

(* A lookup forgets only rows that are gone.                               *)
LEMMA DelImgRefForgetsNothing ==
    ASSUME ChoiceInv, NEW c \in Clients, DelImgRef(c)
    PROVE  images' = images
<1>1. Top[op[c].img] \notin layers
  BY ChoiceOf DEF DelImgRef, At, Sound
<1>2. <<OwnerOf[c], op[c].img>> \notin images
  BY <1>1, ChoiceOf DEF ImagesHaveLayers
<1> QED BY <1>2 DEF DelImgRef, DelImage

(* The first steps of a removal.                                           *)
LEMMA RmiBegins ==
    ASSUME ChoiceInv, NEW c \in Clients,
           \/ GetImgTags(c) \/ RemoveImageTag(c) \/ CheckDependentImages(c)
           \/ VerifyNotInUse(c)
    PROVE  Goes(c)
<1> DEFINE s == op[c]
           o == OwnerOf[c]
<1>1. s \in OpType /\ TypeOK
  BY ChoiceOf
<1>2. "removeImageTag" \notin Stepping /\ "checkDependentImages" \notin Stepping
  BY DEF Stepping, Choosing
<1>3. CASE GetImgTags(c)
  <2>1. ASSUME NEW x
        PROVE  [s EXCEPT !.pc = "checkDependentImages", !.tags = x].pc
                  = "checkDependentImages"
    BY <1>1 DEF OpType
  <2> QED BY <1>1, <1>2, <1>3, <2>1, EndGoes, GotoGoes, BecomeGoes DEF GetImgTags
<1>4. CASE RemoveImageTag(c)
  BY <1>4, EndGoes DEF RemoveImageTag
<1>5. CASE CheckDependentImages(c)
  <2>1. CASE End(c)
    BY <2>1, EndGoes
  <2>2. CASE Dependents(o, s.img) = {} /\ Goto(c, "verifyNotInUse")
    <3> DEFINE t == [s EXCEPT !.pc = "verifyNotInUse"]
    <3>1. t.pc = "verifyNotInUse" /\ t.img = s.img
      BY <1>1 DEF OpType
    <3>2. Become(c, t)
      BY <2>2 DEF Goto
    <3> HIDE DEF t
    <3>3. NoKids(images, o, s.img)
      BY <2>2 DEF Dependents, HasImage, NoKids
    <3>4. Sound(images, heads, layers, t, o)
      BY <3>1, <3>3 DEF Sound, Choosing
    <3> QED BY <3>2, <3>4 DEF Goes
  <2> QED BY <1>5, <2>1, <2>2 DEF CheckDependentImages
<1>6. CASE VerifyNotInUse(c)
  <2> DEFINE t == [s EXCEPT !.pc = "getImageAncestry", !.dels = {s.img},
                            !.headFound = FALSE, !.cur = s.img]
  <2>1. CASE End(c) \/ Goto(c, "removeImageTag")
    BY <1>1, <1>2, <2>1, EndGoes, GotoGoes
  <2>2. CASE Become(c, t)
    <3>1. /\ t.pc = "getImageAncestry" /\ t.dels = {s.img} /\ t.img = s.img
          /\ t.cur = s.img
      BY <1>1 DEF OpType
    <3> HIDE DEF t
    <3>2. s.img \in Digests /\ NoKids(images, o, s.img)
      BY <1>6, ChoiceOf DEF VerifyNotInUse, At, Progress, Sound
    <3>3. Chosen(images, heads, t, o)
      BY <3>1, <3>2, AncestryFacts DEF Chosen
    <3>4. Reading(t)
      BY <3>1, <3>2, AncestryFacts, NoCycle DEF Reading, Closed
    <3>5. Sound(images, heads, layers, t, o)
      BY <3>1, <3>3, <3>4 DEF Sound
    <3> QED BY <2>2, <3>5 DEF Goes
  <2>3. End(c) \/ Goto(c, "removeImageTag") \/ Become(c, t)
    BY <1>6 DEF VerifyNotInUse
  <2> QED BY <2>1, <2>2, <2>3
<1> QED BY <1>3, <1>4, <1>5, <1>6

LEMMA GetImageAncestryGoes ==
    ASSUME ChoiceInv, NEW c \in Clients, GetImageAncestry(c) PROVE Goes(c)
<1> DEFINE s == op[c]
           o == OwnerOf[c]
           p == Parent[s.cur]
<1>1. /\ s \in OpType /\ TypeOK /\ s.pc = "getImageAncestry"
      /\ s.img \in Digests /\ s.cur \in Digests
      /\ Chosen(images, heads, s, o) /\ Reading(s)
  BY ChoiceOf DEF GetImageAncestry, At, Progress, Sound, Choosing
<1>2. CASE End(c)
  BY <1>2, EndGoes
<1>3. CASE Goto(c, "deleteDockerTags")
  <2> DEFINE t == [s EXCEPT !.pc = "deleteDockerTags"]
  <2>1. t.pc = "deleteDockerTags" /\ t.dels = s.dels /\ t.img = s.img
    BY <1>1 DEF OpType
  <2>2. Become(c, t)
    BY <1>3 DEF Goto
  <2> HIDE DEF t
  <2>3. Sound(images, heads, layers, t, o)
    BY <1>1, <2>1 DEF Sound, Chosen, Reading, Closed
  <2> QED BY <2>2, <2>3 DEF Goes
<1>4. CASE p # None /\ Become(c, ReadParent(s, o))
  <2> DEFINE found == s.headFound \/ <<o, p>> \in heads
             t == ReadParent(s, o)
  <2>1. /\ t.pc = "getImageAncestry" /\ t.img = s.img /\ t.cur = p
        /\ t.dels = IF found THEN s.dels ELSE s.dels \cup {p}
        /\ t.headFound = found
    BY <1>1 DEF OpType, ReadParent
  <2>2. Become(c, t)
    BY <1>4
  <2> HIDE DEF t
  <2>3. /\ p \in Digests /\ p \in Ancestry[s.cur]
        /\ Ancestry[s.cur] = {s.cur} \cup Ancestry[p]
    BY <1>1, <1>4, AncestryFacts
  <2>4. p \in Ancestry[s.img] /\ Ancestry[s.img] \subseteq Digests
    BY <1>1, <2>3, AncestryFacts DEF Reading
  <2>5. CASE found
    <3>1. Chosen(images, heads, t, o) /\ Reading(t)
      BY <1>1, <2>1, <2>4, <2>5 DEF Chosen, Reading, Closed
    <3>2. Sound(images, heads, layers, t, o)
      BY <2>1, <3>1 DEF Sound
    <3> QED BY <2>2, <3>2 DEF Goes
  <2>6. CASE ~found
    <3>1. t.dels = s.dels \cup {p}
      BY <2>1, <2>6
    <3>2. Chosen(images, heads, t, o)
      BY <1>1, <2>1, <2>4, <2>6, <3>1 DEF Chosen
    <3>3. s.cur \in s.dels /\ Ancestry[s.img] \subseteq s.dels \cup Ancestry[p]
      BY <1>1, <2>3, <2>6 DEF Reading
    <3>4. \A e \in Ancestry[s.img], d \in s.dels \cup {p} :
             d \in Ancestry[e] => e \in s.dels \cup {p}
      <4>1. ASSUME NEW e \in Ancestry[s.img], p \in Ancestry[e], e \notin s.dels
            PROVE  e = p
        BY <2>3, <2>4, <3>3, <4>1, NoCycle
      <4> QED BY <1>1, <4>1 DEF Reading, Closed
    <3>5. Reading(t)
      BY <2>1, <2>4, <3>1, <3>3, <3>4 DEF Reading, Closed
    <3>6. Sound(images, heads, layers, t, o)
      BY <2>1, <3>2, <3>5 DEF Sound
    <3> QED BY <2>2, <3>6 DEF Goes
  <2> QED BY <2>5, <2>6
<1> HIDE DEF s, o, p
<1>5. End(c) \/ Goto(c, "deleteDockerTags") \/ (p # None /\ Become(c, ReadParent(s, o)))
  BY DEF GetImageAncestry, s, o, p
<1> QED BY <1>2, <1>3, <1>4, <1>5

LEMMA DeleteDockerTagsGoes ==
    ASSUME ChoiceInv, NEW c \in Clients, DeleteDockerTags(c) PROVE Goes(c)
<1> DEFINE s == op[c]
           o == OwnerOf[c]
           left(n) == [s EXCEPT !.tags = @ \ {n}]
           p == Parent[s.img]
           t == [s EXCEPT !.pc = "checkDependentAncestorImages", !.cur = p]
<1>1. /\ s \in OpType /\ TypeOK /\ s.pc = "deleteDockerTags" /\ s.img \in Digests
      /\ Chosen(images, heads, s, o) /\ Closed(s)
  BY ChoiceOf DEF DeleteDockerTags, At, Progress, Sound, Choosing
<1>2. CASE End(c)
  BY <1>2, EndGoes
<1>3. ASSUME NEW n, Become(c, left(n)) PROVE Goes(c)
  <2>1. /\ left(n).pc = "deleteDockerTags" /\ left(n).dels = s.dels
        /\ left(n).img = s.img
    BY <1>1 DEF OpType
  <2> HIDE DEF left
  <2>2. Sound(images, heads, layers, left(n), o)
    BY <1>1, <2>1 DEF Sound, Chosen, Closed
  <2> QED BY <1>3, <2>2 DEF Goes
<1>4. CASE Become(c, t)
  <2>1. /\ t.pc = "checkDependentAncestorImages" /\ t.dels = s.dels
        /\ t.img = s.img /\ t.cur = p
    BY <1>1 DEF OpType
  <2> HIDE DEF t
  <2>2. Chosen(images, heads, t, o)
    BY <1>1, <2>1 DEF Chosen
  <2>3. p \in Ancestry[s.img] \cup {None}
    BY <1>1, AncestryFacts
  <2>4. \A d \in s.dels \ {s.img} : p # None /\ d \in Ancestry[p]
    BY <1>1, AncestryFacts DEF Chosen
  <2>5. Checking(images, t, o)
    BY <1>1, <2>1, <2>3, <2>4 DEF Checking, Closed
  <2>6. Sound(images, heads, layers, t, o)
    BY <2>1, <2>2, <2>5 DEF Sound
  <2> QED BY <1>4, <2>6 DEF Goes
<1>5. End(c) \/ (\E n : Become(c, left(n))) \/ Become(c, t)
  BY DEF DeleteDockerTags
<1> QED BY <1>2, <1>3, <1>4, <1>5

LEMMA CheckDependentAncestorImagesGoes ==
    ASSUME ChoiceInv, NEW c \in Clients, CheckDependentAncestorImages(c)
    PROVE  Goes(c)
<1> DEFINE s == op[c]
           o == OwnerOf[c]
           all == [s EXCEPT !.pc = "deleteDockerImages", !.cur = s.img]
           some == [s EXCEPT !.pc = "deleteDockerImages", !.cur = s.img,
                             !.dels = @ \ Ancestry[s.cur]]
           next == [s EXCEPT !.cur = Parent[s.cur]]
<1>1. /\ s \in OpType /\ TypeOK /\ s.pc = "checkDependentAncestorImages"
      /\ s.img \in Digests /\ Ancestry[s.img] \subseteq Digests
      /\ Chosen(images, heads, s, o) /\ Checking(images, s, o)
  BY ChoiceOf, AncestryFacts
  DEF CheckDependentAncestorImages, At, Progress, Sound, Choosing
<1>2. CASE s.cur \notin s.dels /\ Become(c, all)
  <2>1. /\ all.pc = "deleteDockerImages" /\ all.dels = s.dels
        /\ all.img = s.img /\ all.cur = s.img
    BY <1>1 DEF OpType
  <2> HIDE DEF all
  <2>2. \A d \in s.dels \ {s.img} : FewKids(images, o, d)
    <3> HIDE DEF FewKids
    <3> QED BY <1>1, <1>2 DEF Checking, Closed
  <2>3. Chosen(images, heads, all, o) /\ Deleting(images, all, o)
    BY <1>1, <2>1, <2>2 DEF Chosen, Deleting
  <2>4. Sound(images, heads, layers, all, o)
    BY <2>1, <2>3 DEF Sound
  <2> QED BY <1>2, <2>4 DEF Goes
<1>3. CASE s.cur \in s.dels /\ Become(c, some)
  <2>1. /\ some.pc = "deleteDockerImages" /\ some.dels = s.dels \ Ancestry[s.cur]
        /\ some.img = s.img /\ some.cur = s.img
    BY <1>1 DEF OpType
  <2> HIDE DEF some
  <2>2. \A d \in (s.dels \ Ancestry[s.cur]) \ {s.img} : FewKids(images, o, d)
    <3> HIDE DEF FewKids
    <3> QED BY <1>1 DEF Checking
  <2>3. Chosen(images, heads, some, o) /\ Deleting(images, some, o)
    BY <1>1, <2>1, <2>2 DEF Chosen, Deleting
  <2>4. Sound(images, heads, layers, some, o)
    BY <2>1, <2>3 DEF Sound
  <2> QED BY <1>3, <2>4 DEF Goes
<1>4. CASE /\ s.cur \in s.dels /\ ~MoreThanOne(Dependents(o, s.cur))
           /\ Become(c, next)
  <2> DEFINE p == Parent[s.cur]
  <2>1. /\ next.pc = "checkDependentAncestorImages" /\ next.dels = s.dels
        /\ next.img = s.img /\ next.cur = p
    BY <1>1 DEF OpType
  <2> HIDE DEF next
  <2>2. s.cur \in Digests /\ s.cur \in Ancestry[s.img]
    BY <1>1, <1>4 DEF Chosen
  <2>3. /\ p \in Ancestry[s.img] \cup {None}
        /\ Ancestry[s.cur] = {s.cur} \cup (IF p = None THEN {} ELSE Ancestry[p])
    BY <1>1, <2>2, AncestryFacts
  <2>4. FewKids(images, o, s.cur)
    BY <1>4 DEF MoreThanOne, Dependents, HasImage, FewKids
  <2>5. \A d \in s.dels \ {s.img} :
            FewKids(images, o, d) \/ (p # None /\ d \in Ancestry[p])
    <3> HIDE DEF FewKids
    <3> QED BY <1>1, <2>3, <2>4 DEF Checking
  <2>6. Chosen(images, heads, next, o) /\ Checking(images, next, o)
    BY <1>1, <2>1, <2>3, <2>5 DEF Chosen, Checking, Closed
  <2>7. Sound(images, heads, layers, next, o)
    BY <2>1, <2>6 DEF Sound
  <2> QED BY <1>4, <2>7 DEF Goes
<1>5. \/ s.cur \notin s.dels /\ Become(c, all)
      \/ s.cur \in s.dels /\ Become(c, some)
      \/ s.cur \in s.dels /\ ~MoreThanOne(Dependents(o, s.cur)) /\ Become(c, next)
  BY DEF CheckDependentAncestorImages
<1> HIDE DEF all, some, next, s, o
<1> QED BY <1>2, <1>3, <1>4, <1>5

LEMMA LayersGo ==
    ASSUME ChoiceInv, NEW c \in Clients, ListLayerRefs(c) \/ DeleteImgapiImage(c)
    PROVE  Goes(c)
<1> DEFINE s == op[c]
<1>1. s \in OpType /\ TypeOK
  BY ChoiceOf
<1>2. /\ "deleteImgapiImage" \notin Stepping
      /\ "listLayerRefs" \notin Stepping
  BY DEF Stepping, Choosing
<1>3. ASSUME NEW l
      PROVE  [s EXCEPT !.pc = "listLayerRefs", !.layer = l].pc = "listLayerRefs"
  BY <1>1 DEF OpType
<1>4. CASE ListLayerRefs(c)
  BY <1>1, <1>2, <1>4, EndGoes, GotoGoes DEF ListLayerRefs
<1>5. CASE DeleteImgapiImage(c)
  BY <1>2, <1>3, <1>5, EndGoes, BecomeGoes DEF DeleteImgapiImage
<1> QED BY <1>4, <1>5

(* Deleting up the chain, each row after those that depend on it.          *)
LEMMA DeleteDockerImagesGoes ==
    ASSUME ChoiceInv, NEW c \in Clients, DeleteDockerImages(c)
    PROVE  \E t : Become(c, t) /\ Sound(images', heads', layers', t, OwnerOf[c])
<1> DEFINE s == op[c]
           o == OwnerOf[c]
           p == Parent[s.cur]
           next == [s EXCEPT !.cur = p]
           done == [s EXCEPT !.pc = "listLayerRefs", !.layer = Top[s.img]]
<1>1. /\ s \in OpType /\ TypeOK /\ s.pc = "deleteDockerImages"
      /\ s.img \in Digests /\ s.cur \in Digests
      /\ Chosen(images, heads, s, o) /\ Deleting(images, s, o)
      /\ layers' = layers /\ images' = images \ {<<o, s.cur>>}
      /\ heads' = heads \ {<<o, s.cur>>}
  BY ChoiceOf DEF DeleteDockerImages, At, Progress, Sound, Choosing, DelImage
<1>2. CASE End(c)
  <2>1. Sound(images', heads', layers', Idle, o)
    BY QuietSound DEF Idle, Stepping, Choosing
  <2> HIDE DEF Idle
  <2> QED BY <1>2, <2>1 DEF End
<1>3. CASE Become(c, done)
  <2>1. done.pc = "listLayerRefs"
    BY <1>1 DEF OpType
  <2> HIDE DEF done
  <2>2. Sound(images', heads', layers', done, o)
    BY <2>1, QuietSound DEF Stepping, Choosing
  <2> QED BY <1>3, <2>2
<1>4. CASE <<o, s.cur>> \in images /\ p \in s.dels /\ Become(c, next)
  <2>1. /\ next.pc = "deleteDockerImages" /\ next.dels = s.dels
        /\ next.img = s.img /\ next.cur = p
    BY <1>1 DEF OpType
  <2> HIDE DEF next
  <2>2. p # s.img
    BY <1>1, <1>4 DEF Chosen, NoKids
  <2>3. FewKids(images, o, p)
    <3> HIDE DEF FewKids
    <3> QED BY <1>1, <1>4, <2>2 DEF Deleting
  <2>4. NoKids(images', o, p)
    BY <1>1, <1>4, <2>3 DEF FewKids, NoKids
  <2>5. \A d : /\ NoKids(images, o, d) => NoKids(images', o, d)
               /\ FewKids(images, o, d) => FewKids(images', o, d)
    BY <1>1 DEF NoKids, FewKids
  <2> HIDE DEF NoKids, FewKids
  <2>6. Chosen(images', heads', next, o) /\ Deleting(images', next, o)
    BY <1>1, <1>4, <2>1, <2>4, <2>5 DEF Chosen, Deleting
  <2>7. Sound(images', heads', layers', next, o)
    BY <2>1, <2>6 DEF Sound
  <2> QED BY <1>4, <2>7
<1>5. \/ End(c) \/ Become(c, done)
      \/ <<o, s.cur>> \in images /\ p \in s.dels /\ Become(c, next)
  BY DEF DeleteDockerImages, HasImage
<1> HIDE DEF next, done, s, o, p
<1> QED BY <1>2, <1>3, <1>4, <1>5 DEF o

LEMMA ServeGoes ==
    ASSUME NoCreation, ChoiceInv, NEW c \in Clients,
           Start(c) \/ Serve(c) \/ Fail(c), ~DeleteDockerImages(c)
    PROVE  Goes(c)
<1>1. TypeOK
  BY ChoiceOf
<1>2. CASE Start(c)
  BY <1>2, StartGoes
<1>3. CASE Fail(c)
  BY <1>3, EndGoes DEF Fail
<1>4. CASE Serve(c)
  <2>1. Lookup(c) \/ Rmi(c) \/ TagImage(c) \/ CreateVm(c)
    BY <1>1, <1>4, ServedWithoutCreation
  <2>2. CASE Rmi(c)
    BY <2>2, RmiBegins, GetImageAncestryGoes, DeleteDockerTagsGoes,
       CheckDependentAncestorImagesGoes, LayersGo DEF Rmi
  <2> QED BY <2>1, <2>2, LookupGoes, EndGoes DEF TagImage, CreateVm
<1> QED BY <1>2, <1>3, <1>4

LEMMA ChoiceStepHolds ==
    ASSUME NoCreation, ChoiceInv, [Next]_vars PROVE ChoiceInv'
<1>1. /\ RemovalInv /\ RemovalInv' /\ TypeOK /\ op \in [Clients -> OpType]
      /\ \A c \in Clients : Sound(images, heads, layers, op[c], OwnerOf[c])
  BY RemovalInvariant DEF ChoiceInv, RemovalInv, TypeOK, OpsOK
<1>2. /\ images' \in SUBSET images /\ heads' \in SUBSET heads
      /\ layers' \in SUBSET layers
  BY <1>1, StoresShrink
<1>3. \A c \in Clients : Sound(images', heads', layers', op[c], OwnerOf[c])
  BY <1>1, <1>2, SoundStands
<1>4. CASE UNCHANGED op
  BY <1>1, <1>3, <1>4 DEF ChoiceInv
<1>5. ASSUME NEW c \in Clients, Start(c) \/ Serve(c) \/ Fail(c) PROVE ChoiceInv'
  <2>1. \E t : Become(c, t) /\ Sound(images', heads', layers', t, OwnerOf[c])
    <3>1. CASE DeleteDockerImages(c)
      BY <3>1, DeleteDockerImagesGoes
    <3>2. CASE ~DeleteDockerImages(c)
      <4>1. PICK t : Become(c, t) /\ Sound(images, heads, layers, t, OwnerOf[c])
        BY <1>5, <3>2, ServeGoes DEF Goes
      <4>2. Sound(images', heads', layers', t, OwnerOf[c])
        BY <1>2, <4>1, SoundStands
      <4> QED BY <4>1, <4>2
    <3> QED BY <3>1, <3>2
  <2>2. PICK t : Become(c, t) /\ Sound(images', heads', layers', t, OwnerOf[c])
    BY <2>1
  <2>3. \A d \in Clients : op'[d] = IF d = c THEN t ELSE op[d]
    BY <1>1, <2>2 DEF Become
  <2> HIDE DEF Sound
  <2> QED BY <1>1, <1>3, <2>2, <2>3 DEF ChoiceInv
<1> QED BY <1>4, <1>5 DEF Next, VmChange, LoseLayer, vars

LEMMA ChoiceInit == ASSUME Init PROVE ChoiceInv
<1>1. \A c \in Clients : op[c] = Idle
  BY DEF Init
<1>2. \A o : Sound(images, heads, layers, Idle, o)
  BY QuietSound DEF Idle, Stepping, Choosing
<1> QED BY <1>1, <1>2, RemovalInit DEF ChoiceInv

LEMMA ChoiceHolds == ASSUME NoCreation PROVE Spec => []ChoiceInv
<1>1. Init => ChoiceInv
  BY ChoiceInit
<1>2. ChoiceInv /\ [Next]_vars => ChoiceInv'
  BY ChoiceStepHolds
<1> QED BY <1>1, <1>2, PTL DEF Spec

(* Without pulls and commits, what a removal has counted stands: no row    *)
(* comes to name a layer between the count of its rows and its deletion.   *)
THEOREM CountsStand == ASSUME NoCreation PROVE Spec => []RemovalInv
<1>1. ChoiceInv => RemovalInv
  BY DEF ChoiceInv
<1>2. Spec => []ChoiceInv
  BY ChoiceHolds
<1> QED BY <1>1, <1>2, PTL

-----------------------------------------------------------------------------
(* Parents outlive their children.                                         *)
ParentsKept ==
    \A k \in images : Parent[k[2]] # None /\ k[2] \notin V21
                         => <<k[1], Parent[k[2]]>> \in images

LEMMA DeletesChildless ==
    ASSUME ChoiceInv, ParentsKept, NEW c \in Clients, DeleteDockerImages(c)
    PROVE  ParentsKept'
<1> DEFINE o == OwnerOf[c]
           d == op[c].cur
<1>1. /\ NoKids(images, o, d) /\ images' = images \ {<<o, d>>} /\ images \subseteq Keys
  BY ChoiceOf DEF DeleteDockerImages, At, Sound, Deleting, DelImage
<1>2. ASSUME NEW k \in images', Parent[k[2]] # None, k[2] \notin V21
      PROVE  <<k[1], Parent[k[2]]>> \in images'
  <2>1. k \in images /\ k \in Keys /\ k[2] \in Digests /\ k = <<k[1], k[2]>>
    BY <1>1 DEF Keys
  <2>2. <<k[1], Parent[k[2]]>> \in images
    BY <1>2, <2>1 DEF ParentsKept
  <2>3. k[1] = o => Parent[k[2]] # d
    BY <1>1, <2>1 DEF NoKids
  <2> QED BY <1>1, <2>2, <2>3
<1> QED BY <1>2 DEF ParentsKept

LEMMA OnlyDeletesRows ==
    ASSUME NoCreation, ChoiceInv, [Next]_vars,
           ~\E c \in Clients : DeleteDockerImages(c)
    PROVE  images' = images
<1>1. TypeOK
  BY DEF ChoiceInv, RemovalInv
<1>2. ASSUME NEW c \in Clients, Serve(c) PROVE images' = images
  <2>1. CASE DelImgRef(c)
    BY <2>1, DelImgRefForgetsNothing
  <2>2. CASE Lookup(c) /\ ~DelImgRef(c)
    BY <2>2 DEF Lookup, FindByName, FindImage, IsImageInImgapi, DelImgTagRef, moray
  <2>3. CASE Rmi(c)
    BY <2>3 DEF Rmi, GetImgTags, RemoveImageTag, CheckDependentImages,
       VerifyNotInUse, GetImageAncestry, DeleteDockerTags,
       CheckDependentAncestorImages, ListLayerRefs, DeleteImgapiImage, moray
  <2> QED BY <1>1, <1>2, <2>1, <2>2, <2>3, ServedWithoutCreation
          DEF TagImage, CreateVm, moray
<1>3. ASSUME NEW c \in Clients, Start(c) \/ Fail(c) PROVE images' = images
  BY <1>3 DEF Start, Fail, moray
<1>4. ASSUME NEW v \in Vms, VmChange(v) PROVE images' = images
  BY <1>4 DEF VmChange, moray
<1>5. ASSUME NEW l \in Layers, LoseLayer(l) PROVE images' = images
  BY <1>5 DEF LoseLayer, moray
<1>6. CASE UNCHANGED vars
  BY <1>6 DEF vars
<1> QED BY <1>2, <1>3, <1>4, <1>5, <1>6 DEF Next

(* Without pulls and commits, no removal leaves an image whose parent row  *)
(* is gone, which no later request could remove: what checkDependentImages *)
(* and checkDependentAncestorImages have counted holds when the rows go,   *)
(* whatever other removals do in between and wherever they stop.           *)
THEOREM RemovalsKeepParents ==
    ASSUME NoCreation PROVE Spec => []ParentsPresent
<1>1. Init => ParentsKept
  BY DEF Init, ParentsKept
<1>2. ChoiceInv /\ ParentsKept /\ [Next]_vars => ParentsKept'
  <2> SUFFICES ASSUME ChoiceInv, ParentsKept, [Next]_vars PROVE ParentsKept'
    OBVIOUS
  <2>1. CASE images' = images
    BY <2>1 DEF ParentsKept
  <2> QED BY <2>1, OnlyDeletesRows, DeletesChildless
<1>3. ParentsKept => ParentsPresent
  BY DEF ParentsKept, ParentsPresent
<1>4. Spec => []ChoiceInv
  BY ChoiceHolds
<1> QED BY <1>1, <1>2, <1>3, <1>4, PTL DEF Spec

-----------------------------------------------------------------------------
(* Heads that go are those that were asked for.                            *)
KeepsHeads ==
    \A c \in Clients : At(c, "deleteDockerImages") =>
        \A k \in heads : k \notin heads' /\ op'[c] # op[c] => k[2] = op[c].img

LEMMA DeletesItsHead ==
    ASSUME NoCreation, ChoiceInv, Next PROVE KeepsHeads
<1> SUFFICES ASSUME NEW c \in Clients, At(c, "deleteDockerImages"),
                    NEW k \in heads, k \notin heads', op'[c] # op[c]
             PROVE  k[2] = op[c].img
  BY DEF KeepsHeads
<1>1. TypeOK /\ op \in [Clients -> OpType]
  BY DEF ChoiceInv, RemovalInv, TypeOK, OpsOK
<1>2. PICK e \in Clients : Start(e) \/ Serve(e) \/ Fail(e)
  BY DEF Next, VmChange, LoseLayer
<1>3. e = c
  <2>1. \E t : Become(e, t)
    BY <1>2, ServeGoes, DeleteDockerImagesGoes DEF Goes
  <2> QED BY <1>1, <2>1 DEF Become
<1>4. ~Start(c) /\ ~Fail(c)
  BY DEF At, Start, Fail, moray
<1>5. DeleteDockerImages(c)
  BY <1>1, <1>2, <1>3, <1>4, ServedWithoutCreation
  DEF At, Lookup, FindByName, FindImage, IsImageInImgapi, DelImgRef, DelImgTagRef,
      TagImage, CreateVm, Rmi, GetImgTags, RemoveImageTag, CheckDependentImages,
      VerifyNotInUse, GetImageAncestry, DeleteDockerTags,
      CheckDependentAncestorImages, ListLayerRefs, DeleteImgapiImage
<1>6. k = <<OwnerOf[c], op[c].cur>>
  BY <1>5 DEF DeleteDockerImages, DelImage
<1>7. /\ op[c].cur \in op[c].dels \cup {op[c].img}
      /\ \A d \in op[c].dels \ {op[c].img} : <<OwnerOf[c], d>> \notin heads
  BY ChoiceOf DEF At, Sound, Choosing, Chosen, Deleting
<1> QED BY <1>6, <1>7

(* Without pulls and commits, a removal takes no head but the image it was *)
(* asked to remove: an ancestor that was pulled or named stays, also when  *)
(* the request read it long before it deletes the rows.                    *)
THEOREM RemovalsKeepHeads ==
    ASSUME NoCreation PROVE Spec => HeadAncestorsKept
<1>1. ChoiceInv /\ [Next]_vars => [KeepsHeads]_vars
  BY DeletesItsHead
<1>2. Spec => []ChoiceInv
  BY ChoiceHolds
<1> QED BY <1>1, <1>2, PTL DEF Spec, HeadAncestorsKept, KeepsHeads

-----------------------------------------------------------------------------
(* Tags go before their rows.                                              *)

NoTagging == NoCreation /\ \A r \in Requests : r.kind # "tag"

(* The tags tgs that name the image a removal is after.                    *)
Untagging == {"checkDependentImages", "verifyNotInUse", "getImageAncestry",
              "deleteDockerTags"}
Untagged == {"checkDependentAncestorImages", "deleteDockerImages"}
TagsSound(tgs, s, o) ==
    /\ s.pc \in Untagging => \A n \in Names : tgs[<<o, n>>] = s.img => n \in s.tags
    /\ s.pc \in Untagged => \A n \in Names : tgs[<<o, n>>] # s.img

TagsInv ==
    HeadsTagged /\ \A c \in Clients : TagsSound(tags, op[c], OwnerOf[c])

TagsShrink == \A k \in TagKeys : tags'[k] \in {tags[k], None}

LEMMA TagsSoundStands ==
    ASSUME NEW s, NEW o \in Owners, NEW tgs, NEW new, TagsSound(tgs, s, o), Progress(s),
           \A k \in TagKeys : new[k] \in {tgs[k], None}
    PROVE  TagsSound(new, s, o)
<1>1. s.pc \in Untagging \cup Untagged => s.img \in Digests /\ s.img # None
  BY DataAssumption DEF Progress, Untagging, Untagged
<1>2. \A n \in Names : <<o, n>> \in TagKeys
  BY DEF TagKeys
<1> QED BY <1>1, <1>2 DEF TagsSound

LEMMA QuietTags ==
    ASSUME NEW tgs, NEW s, NEW o, s.pc \notin Untagging \cup Untagged
    PROVE  TagsSound(tgs, s, o)
  BY DEF TagsSound

(* A request that goes on, with what it knows of the tags as they become.  *)
Untags(c) == \E t : Become(c, t) /\ TagsSound(tags', t, OwnerOf[c])

LEMMA EndUntags == ASSUME NEW c, End(c) PROVE Untags(c)
<1>1. TagsSound(tags', Idle, OwnerOf[c])
  BY QuietTags DEF Idle, Untagging, Untagged
<1> HIDE DEF Idle
<1> QED BY <1>1 DEF End, Untags

LEMMA BecomeUntags ==
    ASSUME NEW c, NEW t, Become(c, t), t.pc \notin Untagging \cup Untagged
    PROVE  Untags(c)
  BY QuietTags DEF Untags

LEMMA GotoUntags ==
    ASSUME TypeOK, NEW c \in Clients, NEW pc, Goto(c, pc),
           pc \notin Untagging \cup Untagged
    PROVE  Untags(c)
<1> DEFINE t == [op[c] EXCEPT !.pc = pc]
<1>1. t.pc = pc
  BY DEF TypeOK, OpsOK, OpType
<1>2. Become(c, t)
  BY DEF Goto
<1> HIDE DEF t
<1> QED BY <1>1, <1>2, BecomeUntags

(* Tags go one at a time.                                                  *)
LEMMA TagsGo ==
    ASSUME NoTagging, TypeOK, [Next]_vars PROVE TagsShrink
<1>1. ASSUME NEW o, NEW n, DelTag(o, n) PROVE TagsShrink
  BY <1>1 DEF DelTag, TagsShrink, TypeOK, StoresOK
<1>2. ASSUME UNCHANGED tags PROVE TagsShrink
  BY <1>2 DEF TagsShrink
<1>3. ASSUME NEW c \in Clients, Serve(c) PROVE TagsShrink
  <2>1. Lookup(c) \/ Rmi(c) \/ TagImage(c) \/ CreateVm(c)
    BY <1>3, ServedWithoutCreation DEF NoTagging
  <2>2. ~TagImage(c)
    BY DEF NoTagging, TagImage, TypeOK, OpsOK, Progress, At
  <2>3. CASE Lookup(c)
    BY <2>3, <1>1, <1>2 DEF Lookup, FindByName, FindImage, IsImageInImgapi,
       DelImgRef, DelImgTagRef, moray
  <2>4. CASE Rmi(c)
    <3>1. CASE DeleteDockerTags(c) \/ RemoveImageTag(c)
      BY <3>1, <1>1, <1>2 DEF DeleteDockerTags, RemoveImageTag
    <3> QED BY <2>4, <3>1, <1>2 DEF Rmi, GetImgTags, CheckDependentImages,
       VerifyNotInUse, GetImageAncestry, CheckDependentAncestorImages,
       DeleteDockerImages, ListLayerRefs, DeleteImgapiImage, moray
  <2> QED BY <2>1, <2>2, <2>3, <2>4, <1>2 DEF CreateVm, moray
<1>4. ASSUME NEW c \in Clients, Start(c) \/ Fail(c) PROVE TagsShrink
  BY <1>4, <1>2 DEF Start, Fail, moray
<1>5. ASSUME NEW v \in Vms, VmChange(v) PROVE TagsShrink
  BY <1>5, <1>2 DEF VmChange, moray
<1>6. ASSUME NEW l \in Layers, LoseLayer(l) PROVE TagsShrink
  BY <1>6, <1>2 DEF LoseLayer, moray
<1>7. CASE UNCHANGED vars
  BY <1>7, <1>2 DEF vars
<1> QED BY <1>3, <1>4, <1>5, <1>6, <1>7 DEF Next

LEMMA LookupUntags ==
    ASSUME ChoiceInv, NEW c \in Clients, Lookup(c) PROVE Untags(c)
<1> DEFINE s == op[c]
<1>1. s \in OpType /\ TypeOK
  BY ChoiceOf
<1>2. CASE FindByName(c)
  <2>1. ASSUME NEW n, NEW d
        PROVE  /\ [s EXCEPT !.pc = "findImage", !.tag = n, !.cur = d].pc = "findImage"
               /\ [s EXCEPT !.pc = "findImage", !.cur = d].pc = "findImage"
    BY <1>1 DEF OpType
  <2>2. "findImage" \notin Untagging \cup Untagged
    BY DEF Untagging, Untagged
  <2> QED BY <1>2, <2>1, <2>2, EndUntags, BecomeUntags DEF FindByName
<1>3. CASE FindImage(c)
  <2>1. ASSUME NEW d
        PROVE  [s EXCEPT !.pc = "isImageInImgapi", !.img = d].pc = "isImageInImgapi"
    BY <1>1 DEF OpType
  <2>2. "isImageInImgapi" \notin Untagging \cup Untagged
    BY DEF Untagging, Untagged
  <2> QED BY <1>3, <2>1, <2>2, EndUntags, BecomeUntags DEF FindImage
<1>4. CASE IsImageInImgapi(c)
  <2>1. CASE End(c)
    BY <2>1, EndUntags
  <2>2. CASE s.req.kind # "inspect" /\ Goto(c, Found(s.req.kind))
    <3>1. s.req.kind \in {"rmi", "tag", "run", "commit"}
      BY <1>4, <2>2, ChoiceOf, DataAssumption
      DEF IsImageInImgapi, At, Progress, LookupPcs, RequestType
    <3>2. Found(s.req.kind) \notin Untagging \cup Untagged
      BY <3>1 DEF Found, Untagging, Untagged
    <3> QED BY <1>1, <2>2, <3>2, GotoUntags
  <2>3. CASE Goto(c, "delImgRef")
    BY <1>1, <2>3, GotoUntags DEF Untagging, Untagged
  <2> QED BY <1>4, <2>1, <2>2, <2>3 DEF IsImageInImgapi
<1>5. CASE DelImgRef(c)
  <2>1. "delImgTagRef" \notin Untagging \cup Untagged
    BY DEF Untagging, Untagged
  <2> QED BY <1>1, <1>5, <2>1, EndUntags, GotoUntags DEF DelImgRef
<1>6. CASE DelImgTagRef(c)
  BY <1>6, EndUntags DEF DelImgTagRef
<1> QED BY <1>2, <1>3, <1>4, <1>5, <1>6 DEF Lookup

(* A removal that keeps its image and its tags.                            *)
LEMMA KeepsUntags ==
    ASSUME TypeOK, NEW c \in Clients, NEW t, Become(c, t), UNCHANGED tags,
           TagsSound(tags, op[c], OwnerOf[c]),
           t.img = op[c].img, t.tags = op[c].tags,
           t.pc \in Untagging => op[c].pc \in Untagging,
           t.pc \in Untagged => op[c].pc \in Untagged
    PROVE  Untags(c)
<1>1. TagsSound(tags', t, OwnerOf[c])
  BY DEF TagsSound
<1> QED BY <1>1 DEF Untags

LEMMA RmiUntags ==
    ASSUME ChoiceInv, TagsInv, NEW c \in Clients, Rmi(c) PROVE Untags(c)
<1> DEFINE s == op[c]
           o == OwnerOf[c]
<1>1. /\ s \in OpType /\ TypeOK /\ TagsSound(tags, s, o) /\ o \in Owners
      /\ tags \in [TagKeys -> Digests \cup {None}]
  BY ChoiceOf DEF TagsInv, TypeOK, StoresOK
<1>2. ASSUME NEW pc \in {"removeImageTag", "listLayerRefs", "deleteImgapiImage"}
      PROVE  pc \notin Untagging \cup Untagged
  BY DEF Untagging, Untagged
<1>3. CASE GetImgTags(c)
  <2> DEFINE t == [s EXCEPT !.pc = "checkDependentImages", !.tags = TagsForImage(o, s.img)]
  <2>1. CASE End(c) \/ Goto(c, "removeImageTag")
    BY <1>1, <1>2, <2>1, EndUntags, GotoUntags
  <2>2. CASE Become(c, t)
    <3>1. /\ t.pc = "checkDependentImages" /\ t.img = s.img
          /\ t.tags = TagsForImage(o, s.img)
      BY <1>1 DEF OpType
    <3>2. tags' = tags
      BY <1>3 DEF GetImgTags, moray
    <3> HIDE DEF t
    <3>3. TagsSound(tags', t, o)
      BY <3>1, <3>2 DEF TagsSound, TagsForImage, Untagged
    <3> QED BY <2>2, <3>3 DEF Untags
  <2> QED BY <1>3, <2>1, <2>2 DEF GetImgTags
<1>4. CASE RemoveImageTag(c)
  BY <1>4, EndUntags DEF RemoveImageTag
<1>5. CASE CheckDependentImages(c)
  <2> DEFINE t == [s EXCEPT !.pc = "verifyNotInUse"]
  <2>1. CASE End(c)
    BY <2>1, EndUntags
  <2>2. CASE Goto(c, "verifyNotInUse")
    <3>1. t.pc = "verifyNotInUse" /\ t.img = s.img /\ t.tags = s.tags
      BY <1>1 DEF OpType
    <3>2. Become(c, t) /\ tags' = tags /\ s.pc = "checkDependentImages"
      BY <1>5, <2>2 DEF Goto, CheckDependentImages, At, moray
    <3> HIDE DEF t
    <3> QED BY <1>1, <3>1, <3>2, KeepsUntags DEF Untagging, Untagged
  <2> QED BY <1>5, <2>1, <2>2 DEF CheckDependentImages
<1>6. CASE VerifyNotInUse(c)
  <2> DEFINE t == [s EXCEPT !.pc = "getImageAncestry", !.dels = {s.img},
                            !.headFound = FALSE, !.cur = s.img]
  <2>1. CASE End(c) \/ Goto(c, "removeImageTag")
    BY <1>1, <1>2, <2>1, EndUntags, GotoUntags
  <2>2. CASE Become(c, t)
    <3>1. t.pc = "getImageAncestry" /\ t.img = s.img /\ t.tags = s.tags
      BY <1>1 DEF OpType
    <3>2. tags' = tags /\ s.pc = "verifyNotInUse"
      BY <1>6 DEF VerifyNotInUse, At, moray
    <3> HIDE DEF t
    <3> QED BY <1>1, <2>2, <3>1, <3>2, KeepsUntags DEF Untagging, Untagged
  <2>3. End(c) \/ Goto(c, "removeImageTag") \/ Become(c, t)
    BY <1>6 DEF VerifyNotInUse
  <2> QED BY <2>1, <2>2, <2>3
<1>7. CASE GetImageAncestry(c)
  <2> DEFINE t == ReadParent(s, o)
             u == [s EXCEPT !.pc = "deleteDockerTags"]
  <2>1. CASE End(c)
    BY <2>1, EndUntags
  <2>2. CASE Become(c, t) \/ Become(c, u)
    <3>1. /\ t.pc = s.pc /\ t.img = s.img /\ t.tags = s.tags
          /\ u.pc = "deleteDockerTags" /\ u.img = s.img /\ u.tags = s.tags
      BY <1>1 DEF OpType, ReadParent
    <3>2. tags' = tags /\ s.pc = "getImageAncestry"
      BY <1>7 DEF GetImageAncestry, At, moray
    <3> HIDE DEF t, u
    <3> QED BY <1>1, <2>2, <3>1, <3>2, KeepsUntags DEF Untagging, Untagged
  <2> HIDE DEF t
  <2>3. End(c) \/ Become(c, t) \/ Become(c, u)
    BY <1>7 DEF GetImageAncestry, Goto, t
  <2> QED BY <2>1, <2>2, <2>3
<1>8. CASE DeleteDockerTags(c)
  <2> DEFINE left(n) == [s EXCEPT !.tags = @ \ {n}]
             t == [s EXCEPT !.pc = "checkDependentAncestorImages",
                            !.cur = Parent[s.img]]
  <2>0. s.pc = "deleteDockerTags" /\ s.img \in Digests /\ s.img # None
    BY <1>8, ChoiceOf, DataAssumption DEF DeleteDockerTags, At, Progress
  <2>1. CASE End(c)
    BY <2>1, EndUntags
  <2>2. ASSUME NEW n \in s.tags, Become(c, left(n)), DelTag(o, n) PROVE Untags(c)
    <3>1. /\ left(n).pc = "deleteDockerTags" /\ left(n).img = s.img
          /\ left(n).tags = s.tags \ {n} /\ n \in Names
      BY <1>1, <2>0 DEF OpType
    <3> HIDE DEF left
    <3>2. /\ \A m \in Names : <<o, m>> \in TagKeys
          /\ \A m \in Names : tags'[<<o, m>>] = IF m = n THEN None ELSE tags[<<o, m>>]
      BY <1>1, <2>2, <3>1 DEF DelTag, TagKeys
    <3>3. TagsSound(tags', left(n), o)
      BY <1>1, <2>0, <3>1, <3>2 DEF TagsSound, Untagging, Untagged
    <3> QED BY <2>2, <3>3 DEF Untags
  <2>3. CASE s.tags = {} /\ Become(c, t) /\ UNCHANGED tags
    <3>1. t.pc = "checkDependentAncestorImages" /\ t.img = s.img
      BY <1>1 DEF OpType
    <3> HIDE DEF t
    <3>2. TagsSound(tags', t, o)
      BY <1>1, <2>0, <2>3, <3>1 DEF TagsSound, Untagging, Untagged
    <3> QED BY <2>3, <3>2 DEF Untags
  <2>4. \/ End(c)
        \/ \E n \in s.tags : Become(c, left(n)) /\ DelTag(o, n)
        \/ s.tags = {} /\ Become(c, t) /\ UNCHANGED tags
    BY <1>8 DEF DeleteDockerTags
  <2> QED BY <2>1, <2>2, <2>3, <2>4
<1>9. CASE CheckDependentAncestorImages(c)
  <2> DEFINE all == [s EXCEPT !.pc = "deleteDockerImages", !.cur = s.img]
             some == [s EXCEPT !.pc = "deleteDockerImages", !.cur = s.img,
                               !.dels = @ \ Ancestry[s.cur]]
             next == [s EXCEPT !.cur = Parent[s.cur]]
  <2>1. /\ all.pc = "deleteDockerImages" /\ all.img = s.img /\ all.tags = s.tags
        /\ some.pc = "deleteDockerImages" /\ some.img = s.img /\ some.tags = s.tags
        /\ next.pc = s.pc /\ next.img = s.img /\ next.tags = s.tags
    BY <1>1 DEF OpType
  <2>2. /\ Become(c, all) \/ Become(c, some) \/ Become(c, next)
        /\ tags' = tags /\ s.pc = "checkDependentAncestorImages"
    BY <1>9 DEF CheckDependentAncestorImages, At, moray
  <2> HIDE DEF all, some, next
  <2> QED BY <1>1, <2>1, <2>2, KeepsUntags DEF Untagging, Untagged
<1>10. CASE DeleteDockerImages(c)
  <2> DEFINE next == [s EXCEPT !.cur = Parent[s.cur]]
             done == [s EXCEPT !.pc = "listLayerRefs", !.layer = Top[s.img]]
  <2>1. /\ next.pc = s.pc /\ next.img = s.img /\ next.tags = s.tags
        /\ done.pc = "listLayerRefs"
    BY <1>1 DEF OpType
  <2>2. End(c) \/ Become(c, next) \/ Become(c, done)
    BY <1>10 DEF DeleteDockerImages
  <2>3. tags' = tags
    BY <1>10 DEF DeleteDockerImages
  <2> HIDE DEF next, done
  <2>4. CASE Become(c, next)
    BY <1>1, <2>1, <2>3, <2>4, KeepsUntags
  <2> QED BY <1>2, <2>1, <2>2, <2>4, EndUntags, BecomeUntags
<1>11. CASE ListLayerRefs(c)
  BY <1>1, <1>2, <1>11, EndUntags, GotoUntags DEF ListLayerRefs
<1>12. CASE DeleteImgapiImage(c)
  <2>1. ASSUME NEW l
        PROVE  [s EXCEPT !.pc = "listLayerRefs", !.layer = l].pc = "listLayerRefs"
    BY <1>1 DEF OpType
  <2> QED BY <1>2, <1>12, <2>1, EndUntags, BecomeUntags DEF DeleteImgapiImage
<1> QED BY <1>3, <1>4, <1>5, <1>6, <1>7, <1>8, <1>9, <1>10, <1>11, <1>12 DEF Rmi

LEMMA StartUntags == ASSUME NEW c, Start(c) PROVE Untags(c)
<1>1. PICK r \in Requests :
        IF r.kind = "pull"
        THEN Become(c, [Idle EXCEPT !.pc = "importLayers", !.req = r,
                                    !.img = r.ref, !.todo = LayersOf[r.ref]])
        ELSE Become(c, [Idle EXCEPT !.pc = "findByName", !.req = r])
  BY DEF Start
<1> DEFINE s == [Idle EXCEPT !.pc = "importLayers", !.req = r,
                             !.img = r.ref, !.todo = LayersOf[r.ref]]
           t == [Idle EXCEPT !.pc = "findByName", !.req = r]
<1>2. s.pc = "importLayers" /\ t.pc = "findByName"
  BY DEF Idle
<1>3. Become(c, s) \/ Become(c, t)
  BY <1>1
<1> HIDE DEF s, t
<1> QED BY <1>2, <1>3, BecomeUntags DEF Untagging, Untagged

LEMMA ServeUntags ==
    ASSUME NoTagging, ChoiceInv, TagsInv, NEW c \in Clients,
           Start(c) \/ Serve(c) \/ Fail(c)
    PROVE  Untags(c)
<1>1. TypeOK
  BY ChoiceOf
<1>2. CASE Start(c)
  BY <1>2, StartUntags
<1>3. CASE Fail(c)
  BY <1>3, EndUntags DEF Fail
<1>4. CASE Serve(c)
  <2>1. Lookup(c) \/ Rmi(c) \/ TagImage(c) \/ CreateVm(c)
    BY <1>1, <1>4, ServedWithoutCreation DEF NoTagging
  <2>2. CASE TagImage(c) \/ CreateVm(c)
    BY <2>2, EndUntags DEF TagImage, CreateVm
  <2> QED BY <2>1, <2>2, LookupUntags, RmiUntags
<1> QED BY <1>2, <1>3, <1>4

LEMMA OnlyDeletesHeads ==
    ASSUME NoCreation, ChoiceInv, [Next]_vars,
           ~\E c \in Clients : DeleteDockerImages(c)
    PROVE  heads' = heads
<1>1. TypeOK /\ heads \subseteq images
  BY DEF ChoiceInv, RemovalInv, TypeOK, StoresOK
<1>2. ASSUME NEW c \in Clients, Serve(c) PROVE heads' = heads
  <2>1. CASE DelImgRef(c)
    <3>1. <<OwnerOf[c], op[c].img>> \notin images
      BY <2>1, ChoiceOf DEF DelImgRef, At, Sound, ImagesHaveLayers
    <3> QED BY <1>1, <2>1, <3>1 DEF DelImgRef, DelImage
  <2>2. CASE Lookup(c) /\ ~DelImgRef(c)
    BY <2>2 DEF Lookup, FindByName, FindImage, IsImageInImgapi, DelImgTagRef, moray
  <2>3. CASE Rmi(c)
    BY <2>3 DEF Rmi, GetImgTags, RemoveImageTag, CheckDependentImages,
       VerifyNotInUse, GetImageAncestry, DeleteDockerTags,
       CheckDependentAncestorImages, ListLayerRefs, DeleteImgapiImage, moray
  <2> QED BY <1>1, <1>2, <2>1, <2>2, <2>3, ServedWithoutCreation
          DEF TagImage, CreateVm, moray
<1>3. ASSUME NEW c \in Clients, Start(c) \/ Fail(c) PROVE heads' = heads
  BY <1>3 DEF Start, Fail, moray
<1>4. ASSUME NEW v \in Vms, VmChange(v) PROVE heads' = heads
  BY <1>4 DEF VmChange, moray
<1>5. ASSUME NEW l \in Layers, LoseLayer(l) PROVE heads' = heads
  BY <1>5 DEF LoseLayer, moray
<1>6. CASE UNCHANGED vars
  BY <1>6 DEF vars
<1> QED BY <1>2, <1>3, <1>4, <1>5, <1>6 DEF Next

(* The one head a removal takes is its image, and no tag names that.       *)
LEMMA TakesNoTaggedHead ==
    ASSUME ChoiceInv, TagsInv, NEW c \in Clients, DeleteDockerImages(c)
    PROVE  HeadsTagged'
<1> DEFINE o == OwnerOf[c]
           d == op[c].cur
<1>1. /\ heads' = heads \ {<<o, d>>} /\ tags' = tags
      /\ op[c].pc = "deleteDockerImages"
  BY DEF DeleteDockerImages, DelImage, At
<1>2. /\ d \in op[c].dels \cup {op[c].img}
      /\ \A e \in op[c].dels \ {op[c].img} : <<o, e>> \notin heads
      /\ \A n \in Names : tags[<<o, n>>] # op[c].img
  BY <1>1, ChoiceOf DEF Sound, Choosing, Chosen, Deleting, TagsInv, TagsSound, Untagged
<1>3. ASSUME NEW k \in TagKeys, tags[k] # None PROVE <<k[1], tags[k]>> \in heads'
  <2>1. <<k[1], tags[k]>> \in heads
    BY <1>3 DEF TagsInv, HeadsTagged
  <2>2. k[2] \in Names /\ k = <<k[1], k[2]>>
    BY DEF TagKeys
  <2>3. <<k[1], tags[k]>> # <<o, d>>
    BY <1>2, <2>1, <2>2
  <2> QED BY <1>1, <2>1, <2>3
<1> QED BY <1>1, <1>3 DEF HeadsTagged

LEMMA HeadsStayTagged ==
    ASSUME NoTagging, ChoiceInv, TagsInv, [Next]_vars PROVE HeadsTagged'
<1>1. TagsShrink
  BY TagsGo DEF ChoiceInv, RemovalInv
<1>2. CASE heads' = heads
  BY <1>1, <1>2 DEF TagsInv, HeadsTagged, TagsShrink
<1> QED BY <1>2, OnlyDeletesHeads, TakesNoTaggedHead DEF NoTagging

LEMMA TagsStepHolds ==
    ASSUME NoTagging, ChoiceInv, TagsInv, [Next]_vars PROVE TagsInv'
<1>1. /\ op \in [Clients -> OpType] /\ HeadsTagged' /\ TagsShrink
      /\ \A c \in Clients : TagsSound(tags, op[c], OwnerOf[c])
  BY HeadsStayTagged, TagsGo DEF ChoiceInv, RemovalInv, TypeOK, OpsOK, TagsInv
<1>2. ASSUME NEW c \in Clients PROVE TagsSound(tags', op[c], OwnerOf[c])
  BY <1>1, ChoiceOf, TagsSoundStands DEF TagsShrink
<1>3. CASE UNCHANGED op
  BY <1>1, <1>2, <1>3 DEF TagsInv
<1>4. ASSUME NEW c \in Clients, Start(c) \/ Serve(c) \/ Fail(c) PROVE TagsInv'
  <2>1. PICK t : Become(c, t) /\ TagsSound(tags', t, OwnerOf[c])
    BY <1>4, ServeUntags DEF Untags
  <2>2. \A d \in Clients : op'[d] = IF d = c THEN t ELSE op[d]
    BY <1>1, <2>1 DEF Become
  <2> HIDE DEF TagsSound
  <2> QED BY <1>1, <1>2, <2>1, <2>2 DEF TagsInv
<1> QED BY <1>3, <1>4 DEF Next, VmChange, LoseLayer, vars

(* From a store in which only heads are tagged, and while nobody pulls,    *)
(* commits or tags, no tag is left on a row that is gone, however the      *)
(* removals interleave and wherever they are cut short: rmi removes the    *)
(* tags of its image before the row, and its ancestors are no heads.       *)
THEOREM RemovalsKeepTags ==
    ASSUME NoTagging PROVE Spec /\ HeadsTagged => []TagsHaveImages
<1>1. Init /\ HeadsTagged => TagsInv
  <2> SUFFICES ASSUME Init, HeadsTagged, NEW c \in Clients
               PROVE  TagsSound(tags, op[c], OwnerOf[c])
    BY DEF TagsInv
  <2>1. op[c].pc = "idle"
    BY DEF Init, Idle
  <2> QED BY <2>1, QuietTags DEF Untagging, Untagged
<1>2. ChoiceInv /\ TagsInv /\ [Next]_vars => TagsInv'
  BY TagsStepHolds
<1>3. ChoiceInv /\ TagsInv => TagsHaveImages
  BY DEF ChoiceInv, RemovalInv, TypeOK, StoresOK, TagsInv, HeadsTagged, TagsHaveImages
<1>4. Spec => []ChoiceInv
  BY ChoiceHolds DEF NoTagging
<1> QED BY <1>1, <1>2, <1>3, <1>4, PTL DEF Spec

-----------------------------------------------------------------------------
(* What a pull or a commit tags exists.                                    *)

(* Every account sends one request at a time.                              *)
OneEach == \A c, d \in Clients : OwnerOf[c] = OwnerOf[d] => c = d

Recorded(ims, s, o) == s.pc = "tagImageV2" => <<o, s.img>> \in ims
RecordedInv == \A c \in Clients : Recorded(images, op[c], OwnerOf[c])

(* A request that goes on, with the row it tags.                           *)
Records(c) == \E t : Become(c, t) /\ Recorded(images', t, OwnerOf[c])

LEMMA BecomeRecords ==
    ASSUME NEW c, NEW t, Become(c, t), t.pc # "tagImageV2" PROVE Records(c)
  BY DEF Records, Recorded

LEMMA EndRecords == ASSUME NEW c, End(c) PROVE Records(c)
<1>1. Idle.pc # "tagImageV2"
  BY DEF Idle
<1> HIDE DEF Idle
<1> QED BY <1>1, BecomeRecords DEF End

LEMMA GotoRecords ==
    ASSUME TypeOK, NEW c \in Clients, NEW pc, Goto(c, pc),
           pc = "tagImageV2" => <<OwnerOf[c], op[c].img>> \in images'
    PROVE  Records(c)
<1> DEFINE t == [op[c] EXCEPT !.pc = pc]
<1>1. t.pc = pc /\ t.img = op[c].img
  BY DEF TypeOK, OpsOK, OpType
<1>2. Become(c, t)
  BY DEF Goto
<1> HIDE DEF t
<1> QED BY <1>1, <1>2 DEF Records, Recorded

LEMMA LookupRecords ==
    ASSUME TypeOK, NEW c \in Clients, Lookup(c) PROVE Records(c)
<1> DEFINE s == op[c]
<1>1. s \in OpType /\ Progress(s)
  BY DEF TypeOK, OpsOK
<1>2. CASE FindByName(c)
  <2>1. ASSUME NEW n, NEW d
        PROVE  /\ [s EXCEPT !.pc = "findImage", !.tag = n, !.cur = d].pc = "findImage"
               /\ [s EXCEPT !.pc = "findImage", !.cur = d].pc = "findImage"
    BY <1>1 DEF OpType
  <2> QED BY <1>2, <2>1, EndRecords, BecomeRecords DEF FindByName
<1>3. CASE FindImage(c)
  <2>1. ASSUME NEW d
        PROVE  [s EXCEPT !.pc = "isImageInImgapi", !.img = d].pc = "isImageInImgapi"
    BY <1>1 DEF OpType
  <2> QED BY <1>3, <2>1, EndRecords, BecomeRecords DEF FindImage
<1>4. CASE IsImageInImgapi(c)
  <2>1. CASE End(c) \/ Goto(c, "delImgRef")
    BY <2>1, EndRecords, GotoRecords
  <2>2. CASE s.req.kind # "inspect" /\ Goto(c, Found(s.req.kind))
    <3>1. s.req.kind \in {"rmi", "tag", "run", "commit"}
      BY <1>1, <1>4, <2>2, DataAssumption
      DEF IsImageInImgapi, At, Progress, LookupPcs, RequestType
    <3>2. Found(s.req.kind) # "tagImageV2"
      BY <3>1 DEF Found
    <3> QED BY <2>2, <3>2, GotoRecords
  <2> QED BY <1>4, <2>1, <2>2 DEF IsImageInImgapi
<1>5. CASE DelImgRef(c) \/ DelImgTagRef(c)
  BY <1>5, EndRecords, GotoRecords DEF DelImgRef, DelImgTagRef
<1> QED BY <1>2, <1>3, <1>4, <1>5 DEF Lookup

LEMMA RmiRecords ==
    ASSUME TypeOK, NEW c \in Clients, Rmi(c) PROVE Records(c)
<1> DEFINE s == op[c]
<1>1. s \in OpType
  BY DEF TypeOK, OpsOK
<1>2. CASE RemoveImageTag(c) \/ CheckDependentImages(c) \/ ListLayerRefs(c)
  BY <1>2, EndRecords, GotoRecords
  DEF RemoveImageTag, CheckDependentImages, ListLayerRefs
<1>3. CASE GetImgTags(c)
  <2>1. ASSUME NEW x
        PROVE  [s EXCEPT !.pc = "checkDependentImages", !.tags = x].pc
                  = "checkDependentImages"
    BY <1>1 DEF OpType
  <2> QED BY <1>3, <2>1, EndRecords, GotoRecords, BecomeRecords DEF GetImgTags
<1>4. CASE VerifyNotInUse(c)
  <2> DEFINE t == [s EXCEPT !.pc = "getImageAncestry", !.dels = {s.img},
                            !.headFound = FALSE, !.cur = s.img]
  <2>1. t.pc = "getImageAncestry"
    BY <1>1 DEF OpType
  <2>2. End(c) \/ Goto(c, "removeImageTag") \/ Become(c, t)
    BY <1>4 DEF VerifyNotInUse
  <2> HIDE DEF t
  <2> QED BY <2>1, <2>2, EndRecords, GotoRecords, BecomeRecords
<1>5. CASE GetImageAncestry(c)
  <2> DEFINE t == ReadParent(s, OwnerOf[c])
  <2>1. t.pc = s.pc /\ s.pc = "getImageAncestry"
    BY <1>1, <1>5 DEF OpType, ReadParent, GetImageAncestry, At
  <2>2. End(c) \/ Goto(c, "deleteDockerTags") \/ Become(c, t)
    BY <1>5 DEF GetImageAncestry
  <2> HIDE DEF t
  <2> QED BY <2>1, <2>2, EndRecords, GotoRecords, BecomeRecords
<1>6. CASE DeleteDockerTags(c)
  <2> DEFINE left(n) == [s EXCEPT !.tags = @ \ {n}]
             t == [s EXCEPT !.pc = "checkDependentAncestorImages",
                            !.cur = Parent[s.img]]
  <2>1. /\ t.pc = "checkDependentAncestorImages" /\ s.pc = "deleteDockerTags"
        /\ \A n : left(n).pc = s.pc
    BY <1>1, <1>6 DEF OpType, DeleteDockerTags, At
  <2>2. End(c) \/ Become(c, t) \/ \E n : Become(c, left(n))
    BY <1>6 DEF DeleteDockerTags
  <2> HIDE DEF t, left
  <2> QED BY <2>1, <2>2, EndRecords, BecomeRecords
<1>7. CASE CheckDependentAncestorImages(c)
  <2> DEFINE all == [s EXCEPT !.pc = "deleteDockerImages", !.cur = s.img]
             some == [s EXCEPT !.pc = "deleteDockerImages", !.cur = s.img,
                               !.dels = @ \ Ancestry[s.cur]]
             next == [s EXCEPT !.cur = Parent[s.cur]]
  <2>1. /\ all.pc = "deleteDockerImages" /\ some.pc = "deleteDockerImages"
        /\ next.pc = s.pc /\ s.pc = "checkDependentAncestorImages"
    BY <1>1, <1>7 DEF OpType, CheckDependentAncestorImages, At
  <2>2. Become(c, all) \/ Become(c, some) \/ Become(c, next)
    BY <1>7 DEF CheckDependentAncestorImages
  <2> HIDE DEF all, some, next
  <2> QED BY <2>1, <2>2, BecomeRecords
<1>8. CASE DeleteDockerImages(c)
  <2> DEFINE next == [s EXCEPT !.cur = Parent[s.cur]]
             done == [s EXCEPT !.pc = "listLayerRefs", !.layer = Top[s.img]]
  <2>1. /\ next.pc = s.pc /\ done.pc = "listLayerRefs"
        /\ s.pc = "deleteDockerImages"
    BY <1>1, <1>8 DEF OpType, DeleteDockerImages, At
  <2>2. End(c) \/ Become(c, next) \/ Become(c, done)
    BY <1>8 DEF DeleteDockerImages
  <2> HIDE DEF next, done
  <2> QED BY <2>1, <2>2, EndRecords, BecomeRecords
<1>9. CASE DeleteImgapiImage(c)
  <2>1. ASSUME NEW l
        PROVE  [s EXCEPT !.pc = "listLayerRefs", !.layer = l].pc = "listLayerRefs"
    BY <1>1 DEF OpType
  <2> QED BY <1>9, <2>1, EndRecords, BecomeRecords DEF DeleteImgapiImage
<1> QED BY <1>2, <1>3, <1>4, <1>5, <1>6, <1>7, <1>8, <1>9 DEF Rmi

(* The job creates the row it does not find.                               *)
LEMMA CreationRecords ==
    ASSUME TypeOK, NEW c \in Clients,
           \/ Start(c) \/ Pull(c) \/ TagImage(c) \/ CreateVm(c) \/ DockerCommit(c)
           \/ ImageCreate(c) \/ Fail(c)
    PROVE  Records(c)
<1> DEFINE s == op[c]
<1>1. s \in OpType
  BY DEF TypeOK, OpsOK
<1>2. CASE Start(c)
  <2>1. ASSUME NEW r
        PROVE  /\ [Idle EXCEPT !.pc = "importLayers", !.req = r, !.img = r.ref,
                               !.todo = LayersOf[r.ref]].pc = "importLayers"
               /\ [Idle EXCEPT !.pc = "findByName", !.req = r].pc = "findByName"
    BY DEF Idle
  <2> QED BY <1>2, <2>1, BecomeRecords DEF Start
<1>3. CASE TagImageV2(c) \/ TagImage(c) \/ CreateVm(c) \/ Fail(c)
  BY <1>3, EndRecords DEF TagImageV2, TagImage, CreateVm, Fail
<1>4. CASE ImportLayers(c)
  <2> DEFINE left(l) == [s EXCEPT !.todo = @ \ {l}]
  <2>1. s.pc = "importLayers" /\ \A l : left(l).pc = s.pc
    BY <1>1, <1>4 DEF OpType, ImportLayers, At
  <2>2. End(c) \/ Goto(c, "listImagesV2") \/ \E l : Become(c, left(l))
    BY <1>4 DEF ImportLayers
  <2> HIDE DEF left
  <2> QED BY <2>1, <2>2, EndRecords, GotoRecords, BecomeRecords
<1>5. CASE ListImagesV2(c)
  BY <1>5, GotoRecords DEF ListImagesV2, HasImage, moray
<1>6. CASE CreateImageV2(c) \/ ImageCreate(c)
  BY <1>6, GotoRecords DEF CreateImageV2, ImageCreate, PutImage
<1>7. CASE DockerCommit(c)
  <2>1. ASSUME NEW d
        PROVE  [s EXCEPT !.pc = "imageCreate", !.img = d].pc = "imageCreate"
    BY <1>1 DEF OpType
  <2> QED BY <1>7, <2>1, EndRecords, BecomeRecords DEF DockerCommit
<1> QED BY <1>2, <1>3, <1>4, <1>5, <1>6, <1>7 DEF Pull

LEMMA RecordedStepHolds ==
    ASSUME OneEach, TypeOK, RecordedInv, [Next]_vars PROVE RecordedInv'
<1>1. op \in [Clients -> OpType] /\ OpsOK
  BY DEF TypeOK, OpsOK
<1>2. ASSUME NEW e \in Clients, Start(e) \/ Serve(e) \/ Fail(e) PROVE RecordedInv'
  <2>1. PICK t : Become(e, t) /\ Recorded(images', t, OwnerOf[e])
    BY <1>2, LookupRecords, RmiRecords, CreationRecords DEF Serve, Records
  <2>2. \A c \in Clients : op'[c] = IF c = e THEN t ELSE op[c]
    BY <1>1, <2>1 DEF Become
  <2>3. ASSUME NEW c \in Clients, c # e PROVE Recorded(images', op[c], OwnerOf[c])
    <3>1. OwnRows(OwnerOf[e]) /\ OwnerOf[c] # OwnerOf[e] /\ OwnerOf[c] \in Owners
      BY <1>2, <2>3, ServesOwnRows, DataAssumption DEF OneEach
    <3>2. op[c].pc = "tagImageV2" => op[c].img \in Digests
      BY DEF TypeOK, OpsOK, Progress
    <3>3. Recorded(images, op[c], OwnerOf[c])
      BY DEF RecordedInv
    <3> QED BY <3>1, <3>2, <3>3 DEF Recorded, OwnRows, Keys
  <2> QED BY <2>1, <2>2, <2>3 DEF RecordedInv
<1>3. CASE UNCHANGED <<op, images>>
  BY <1>3 DEF RecordedInv
<1> QED BY <1>2, <1>3 DEF Next, VmChange, LoseLayer, vars, moray

(* As long as every account sends one request at a time, the row that a    *)
(* pull or a commit tags exists when it is tagged, whatever pulls, commits *)
(* and removals of the other accounts happen between its steps.            *)
THEOREM TagsFindTheirRows == ASSUME OneEach PROVE Spec => TaggedRowsExist
<1> DEFINE Exists == \A c \in Clients : At(c, "tagImageV2") /\ op'[c].pc = "idle"
                        => <<OwnerOf[c], op[c].img>> \in images
<1>1. Init => RecordedInv
  BY DEF Init, Idle, RecordedInv, Recorded
<1>2. TypeOK /\ RecordedInv /\ [Next]_vars => RecordedInv'
  BY RecordedStepHolds
<1>3. RecordedInv => Exists
  BY DEF RecordedInv, Recorded, At
<1>4. Spec => []TypeOK
  BY TypeCorrect
<1> QED BY <1>1, <1>2, <1>3, <1>4, PTL DEF Spec, TaggedRowsExist

-----------------------------------------------------------------------------
(* Requests served one at a time: the rows are whole and no layer is left. *)

(* A request that is alone and no operator beside it.  What it has seen of *)
(* the rows ims and the layers ls is still there.                          *)
Held == {"isImageInImgapi", "getImgTags", "checkDependentImages",
         "verifyNotInUse", "getImageAncestry", "deleteDockerTags",
         "checkDependentAncestorImages", "dockerCommit"}
Gathering == {"getImageAncestry", "deleteDockerTags",
              "checkDependentAncestorImages"}
Creating == {"listImagesV2", "createImageV2", "imageCreate"}
Whole(ims, ls, s, o) ==
    /\ s.pc # "delImgRef"
    /\ s.pc \in Held => <<o, s.img>> \in ims
    /\ s.pc \in Gathering => \A d \in s.dels : <<o, d>> \in ims
    /\ s.pc = "deleteDockerImages" =>
          /\ LayersOf[s.img] \subseteq ls
          /\ LayersOf[s.cur] \subseteq LayersOf[s.img]
          /\ <<o, s.cur>> \in ims
          /\ Parent[s.cur] # None =>
                \A d \in s.dels \cap Ancestry[Parent[s.cur]] : <<o, d>> \in ims
    /\ s.pc = "deleteImgapiImage" => \A k \in ims : Top[k[2]] # s.layer
    /\ s.pc = "importLayers" => /\ LayersOf[s.img] \ s.todo \subseteq ls
                                /\ s.todo \subseteq LayersOf[s.img]
    /\ s.pc \in Creating => LayersOf[s.img] \subseteq ls
Pending(s, l) ==
    \/ s.pc = "importLayers" /\ l \in LayersOf[s.img] \ s.todo
    \/ s.pc \in Creating \cup {"deleteDockerImages"} /\ l = Top[s.img]
    \/ s.pc \in {"listLayerRefs", "deleteImgapiImage"} /\ l = s.layer

RowsWhole(ims, ls) == \A k \in ims : LayersOf[k[2]] \subseteq ls
Unused(ims, ls, l) ==
    /\ \A k \in ims : Top[k[2]] # l
    /\ \A m \in ls : Origin[m] # l
NoneLeft(ims, ls, s) == \A l \in ls : Unused(ims, ls, l) => Pending(s, l)
Claiming == Held \cup Creating \cup {"delImgRef", "deleteDockerImages",
                                      "deleteImgapiImage", "importLayers"}
Leaving == Creating \cup {"importLayers", "deleteDockerImages",
                          "listLayerRefs", "deleteImgapiImage"}

WholeNow(c) == RowsWhole(images, layers) /\ Whole(images, layers, op[c], OwnerOf[c])
AloneInv(c) ==
    /\ TypeOK
    /\ lost = 0 => WholeNow(c)
    /\ lost = 0 /\ failures = 0 => NoneLeft(images, layers, op[c])

(* A request that goes on without leaving a layer behind.                  *)
Steady(c) ==
    \E t : /\ Become(c, t)
           /\ RowsWhole(images', layers') /\ Whole(images', layers', t, OwnerOf[c])
           /\ NoneLeft(images, layers, op[c]) => NoneLeft(images', layers', t)

LEMMA LayerFacts ==
    ASSUME NEW d \in Digests
    PROVE  /\ Top[d] \in LayersOf[d] /\ LayersOf[d] \subseteq Layers
           /\ \A l \in LayersOf[d] : Origin[l] \in LayersOf[d] \cup {None}
           /\ \A l \in LayersOf[d] \ {Top[d]} : \E m \in LayersOf[d] : Origin[m] = l
           /\ Parent[d] # None => LayersOf[d] = LayersOf[Parent[d]] \cup {Top[d]}
  BY DataAssumption, ChainAssumption

LEMMA ClaimsNothing ==
    ASSUME NEW ims, NEW ls, NEW s, NEW o, s.pc \notin Claiming
    PROVE  Whole(ims, ls, s, o)
  BY DEF Whole, Claiming, Held, Gathering, Creating

(* Steps before anything is created or deleted.                            *)
LEMMA QuietSteady ==
    ASSUME NEW c \in Clients, UNCHANGED <<images, layers>>, RowsWhole(images, layers),
           NEW t, Become(c, t), op[c].pc \notin Leaving,
           Whole(images, layers, t, OwnerOf[c])
    PROVE  Steady(c)
<1>1. \A l : ~Pending(op[c], l)
  BY DEF Pending, Leaving, Creating
<1>2. NoneLeft(images, layers, op[c]) => NoneLeft(images, layers, t)
  BY <1>1 DEF NoneLeft
<1> HIDE DEF Whole, RowsWhole
<1> QED BY <1>2 DEF Steady

LEMMA EndSteady ==
    ASSUME NEW c \in Clients, UNCHANGED <<images, layers>>, RowsWhole(images, layers),
           End(c), op[c].pc \notin Leaving
    PROVE  Steady(c)
<1>1. Whole(images, layers, Idle, OwnerOf[c])
  BY ClaimsNothing DEF Idle, Claiming, Held, Creating
<1> HIDE DEF Idle
<1> QED BY <1>1, QuietSteady DEF End

LEMMA GotoSteady ==
    ASSUME NEW c \in Clients, UNCHANGED <<images, layers>>, RowsWhole(images, layers),
           NEW pc, Goto(c, pc), op[c].pc \notin Leaving,
           op[c] \in OpType, pc \notin Claiming
    PROVE  Steady(c)
<1> DEFINE t == [op[c] EXCEPT !.pc = pc]
<1>1. t.pc = pc
  BY DEF OpType
<1>2. Become(c, t)
  BY DEF Goto
<1> HIDE DEF t
<1> QED BY <1>1, <1>2, ClaimsNothing, QuietSteady

LEMMA AloneFacts ==
    ASSUME TypeOK, NEW c \in Clients
    PROVE  /\ op[c] \in OpType /\ Progress(op[c]) /\ OwnerOf[c] \in Owners
           /\ images \subseteq Keys /\ layers \subseteq Layers
  BY DataAssumption DEF TypeOK, OpsOK, StoresOK

(* A request that keeps its image and its program counter's claims.        *)
LEMMA HeldSteady ==
    ASSUME NEW c \in Clients, UNCHANGED <<images, layers>>, WholeNow(c),
           NEW t, Become(c, t), op[c].pc \in Held, t.pc \in Held,
           t.img = op[c].img, t.pc \in Gathering => \A d \in t.dels : <<OwnerOf[c], d>> \in images
    PROVE  Steady(c)
<1>1. <<OwnerOf[c], op[c].img>> \in images /\ RowsWhole(images, layers)
  BY DEF WholeNow, Whole
<1>2. Whole(images, layers, t, OwnerOf[c])
  BY <1>1 DEF Whole, Held, Creating
<1>3. op[c].pc \notin Leaving
  BY DEF Held, Leaving, Creating
<1> QED BY <1>1, <1>2, <1>3, QuietSteady

LEMMA StartSteady ==
    ASSUME TypeOK, NEW c \in Clients, WholeNow(c), Start(c) PROVE Steady(c)
<1>1. PICK r \in Requests :
        IF r.kind = "pull"
        THEN Become(c, [Idle EXCEPT !.pc = "importLayers", !.req = r,
                                    !.img = r.ref, !.todo = LayersOf[r.ref]])
        ELSE Become(c, [Idle EXCEPT !.pc = "findByName", !.req = r])
  BY DEF Start
<1> DEFINE s == [Idle EXCEPT !.pc = "importLayers", !.req = r,
                             !.img = r.ref, !.todo = LayersOf[r.ref]]
           t == [Idle EXCEPT !.pc = "findByName", !.req = r]
<1>2. s.pc = "importLayers" /\ s.todo = LayersOf[s.img] /\ t.pc = "findByName"
  BY DEF Idle
<1>3. Become(c, s) \/ Become(c, t)
  BY <1>1
<1> HIDE DEF s, t
<1>4. Whole(images, layers, s, OwnerOf[c]) /\ Whole(images, layers, t, OwnerOf[c])
  BY <1>2 DEF Whole, Held, Gathering, Creating
<1>5. op[c].pc \notin Leaving /\ UNCHANGED <<images, layers>>
  BY DEF Start, At, Leaving, Creating, moray
<1> QED BY <1>3, <1>4, <1>5, QuietSteady DEF WholeNow

LEMMA LookupSteady ==
    ASSUME TypeOK, NEW c \in Clients, WholeNow(c), Lookup(c) PROVE Steady(c)
<1> DEFINE s == op[c]
           o == OwnerOf[c]
<1>1. s \in OpType /\ Progress(s) /\ RowsWhole(images, layers)
  BY AloneFacts DEF WholeNow
<1>2. ~DelImgRef(c)
  BY DEF DelImgRef, At, WholeNow, Whole
<1>3. s.pc \notin Leaving /\ UNCHANGED <<images, layers>>
  BY <1>2 DEF Lookup, FindByName, FindImage, IsImageInImgapi, DelImgTagRef, At,
              Leaving, Creating, moray
<1>4. CASE FindByName(c)
  <2>1. ASSUME NEW n, NEW d
        PROVE  /\ [s EXCEPT !.pc = "findImage", !.tag = n, !.cur = d].pc = "findImage"
               /\ [s EXCEPT !.pc = "findImage", !.cur = d].pc = "findImage"
    BY <1>1 DEF OpType
  <2>2. "findImage" \notin Claiming
    BY DEF Claiming, Held, Creating
  <2>3. ASSUME NEW t, Become(c, t), t.pc = "findImage" PROVE Steady(c)
    BY <1>1, <1>3, <2>2, <2>3, ClaimsNothing, QuietSteady
  <2> QED BY <1>1, <1>3, <1>4, <2>1, <2>3, EndSteady DEF FindByName
<1>5. CASE FindImage(c)
  <2> DEFINE t == [s EXCEPT !.pc = "isImageInImgapi", !.img = s.cur]
  <2>1. t.pc = "isImageInImgapi" /\ t.img = s.cur
    BY <1>1 DEF OpType
  <2>2. End(c) \/ (<<o, s.cur>> \in images /\ Become(c, t))
    BY <1>5 DEF FindImage, HasImage
  <2> HIDE DEF t
  <2>3. <<o, s.cur>> \in images => Whole(images, layers, t, o)
    BY <2>1 DEF Whole, Held, Gathering, Creating
  <2> QED BY <1>1, <1>3, <2>2, <2>3, EndSteady, QuietSteady
<1>6. CASE IsImageInImgapi(c)
  <2>1. Top[s.img] \in layers /\ s.pc = "isImageInImgapi"
    BY <1>1, <1>6, LayerFacts
    DEF IsImageInImgapi, At, Progress, WholeNow, Whole, Held, RowsWhole
  <2>2. CASE End(c)
    BY <1>1, <1>3, <2>2, EndSteady
  <2>3. CASE s.req.kind # "inspect" /\ Goto(c, Found(s.req.kind))
    <3> DEFINE f == Found(s.req.kind)
               t == [s EXCEPT !.pc = f]
    <3>1. s.req.kind \in {"rmi", "tag", "run", "commit"}
      BY <1>1, <2>1, <2>3, DataAssumption DEF Progress, LookupPcs, RequestType
    <3>2. f \in {"getImgTags", "tagImage", "createVm", "dockerCommit"}
      BY <3>1 DEF Found
    <3> HIDE DEF f
    <3>3. t.pc = f /\ t.img = s.img /\ Become(c, t)
      BY <1>1, <2>3 DEF OpType, Goto, f
    <3> HIDE DEF t
    <3>4. CASE f \in {"tagImage", "createVm"}
      BY <1>1, <1>3, <3>3, <3>4, ClaimsNothing, QuietSteady DEF Claiming, Held, Creating
    <3>5. CASE f \in {"getImgTags", "dockerCommit"}
      BY <1>3, <2>1, <3>3, <3>5, HeldSteady DEF Held, Gathering
    <3> QED BY <3>2, <3>4, <3>5
  <2> QED BY <1>6, <2>1, <2>2, <2>3 DEF IsImageInImgapi
<1>7. CASE DelImgTagRef(c)
  BY <1>1, <1>3, <1>7, EndSteady DEF DelImgTagRef
<1> QED BY <1>2, <1>4, <1>5, <1>6, <1>7 DEF Lookup

(* A removal until it has decided what to delete.                          *)
LEMMA RmiDecides ==
    ASSUME TypeOK, NEW c \in Clients, WholeNow(c),
           \/ GetImgTags(c) \/ RemoveImageTag(c) \/ CheckDependentImages(c)
           \/ VerifyNotInUse(c) \/ GetImageAncestry(c) \/ DeleteDockerTags(c)
    PROVE  Steady(c)
<1> DEFINE s == op[c]
           o == OwnerOf[c]
<1>1. s \in OpType /\ RowsWhole(images, layers)
  BY AloneFacts DEF WholeNow
<1>2. s.pc \notin Leaving /\ UNCHANGED <<images, layers>>
  BY DEF GetImgTags, RemoveImageTag, CheckDependentImages, VerifyNotInUse,
         GetImageAncestry, DeleteDockerTags, At, Leaving, Creating, moray
<1>3. CASE End(c)
  BY <1>1, <1>2, <1>3, EndSteady
<1>4. CASE Goto(c, "removeImageTag")
  BY <1>1, <1>2, <1>4, GotoSteady DEF Claiming, Held, Creating
<1>5. CASE GetImgTags(c)
  <2> DEFINE t == [s EXCEPT !.pc = "checkDependentImages", !.tags = TagsForImage(o, s.img)]
  <2>1. t.pc = "checkDependentImages" /\ t.img = s.img /\ s.pc = "getImgTags"
    BY <1>1, <1>5 DEF OpType, GetImgTags, At
  <2>2. End(c) \/ Goto(c, "removeImageTag") \/ Become(c, t)
    BY <1>5 DEF GetImgTags
  <2> HIDE DEF t
  <2> QED BY <1>2, <1>3, <1>4, <2>1, <2>2, HeldSteady DEF Held, Gathering
<1>6. CASE RemoveImageTag(c)
  BY <1>3, <1>6 DEF RemoveImageTag
<1>7. CASE CheckDependentImages(c)
  <2> DEFINE t == [s EXCEPT !.pc = "verifyNotInUse"]
  <2>1. t.pc = "verifyNotInUse" /\ t.img = s.img /\ s.pc = "checkDependentImages"
    BY <1>1, <1>7 DEF OpType, CheckDependentImages, At
  <2>2. End(c) \/ Become(c, t)
    BY <1>7 DEF CheckDependentImages, Goto
  <2> HIDE DEF t
  <2> QED BY <1>2, <1>3, <2>1, <2>2, HeldSteady DEF Held, Gathering
<1>8. CASE VerifyNotInUse(c)
  <2> DEFINE t == [s EXCEPT !.pc = "getImageAncestry", !.dels = {s.img},
                            !.headFound = FALSE, !.cur = s.img]
  <2>1. /\ t.pc = "getImageAncestry" /\ t.img = s.img /\ t.dels = {s.img}
        /\ s.pc = "verifyNotInUse"
    BY <1>1, <1>8 DEF OpType, VerifyNotInUse, At
  <2>2. End(c) \/ Goto(c, "removeImageTag") \/ Become(c, t)
    BY <1>8 DEF VerifyNotInUse
  <2>3. <<o, s.img>> \in images
    BY <2>1 DEF WholeNow, Whole, Held
  <2> HIDE DEF t
  <2> QED BY <1>2, <1>3, <1>4, <2>1, <2>2, <2>3, HeldSteady DEF Held
<1>9. CASE GetImageAncestry(c)
  <2> DEFINE p == Parent[s.cur]
             t == ReadParent(s, o)
             u == [s EXCEPT !.pc = "deleteDockerTags"]
  <2>1. /\ t.pc = s.pc /\ t.img = s.img /\ t.dels \subseteq s.dels \cup {p}
        /\ u.pc = "deleteDockerTags" /\ u.img = s.img /\ u.dels = s.dels
        /\ s.pc = "getImageAncestry"
    BY <1>1, <1>9 DEF OpType, GetImageAncestry, At, ReadParent
  <2>2. End(c) \/ (<<o, p>> \in images /\ Become(c, t)) \/ Become(c, u)
    BY <1>9 DEF GetImageAncestry, Goto, HasImage
  <2>3. \A d \in s.dels : <<o, d>> \in images
    BY <2>1 DEF WholeNow, Whole, Gathering
  <2> HIDE DEF t, u, p
  <2> QED BY <1>2, <1>3, <2>1, <2>2, <2>3, HeldSteady DEF Held
<1>10. CASE DeleteDockerTags(c)
  <2> DEFINE left(n) == [s EXCEPT !.tags = @ \ {n}]
             t == [s EXCEPT !.pc = "checkDependentAncestorImages",
                            !.cur = Parent[s.img]]
  <2>1. /\ t.pc = "checkDependentAncestorImages" /\ t.img = s.img /\ t.dels = s.dels
        /\ \A n : left(n).pc = s.pc /\ left(n).img = s.img /\ left(n).dels = s.dels
        /\ s.pc = "deleteDockerTags"
    BY <1>1, <1>10 DEF OpType, DeleteDockerTags, At
  <2>2. End(c) \/ Become(c, t) \/ \E n : Become(c, left(n))
    BY <1>10 DEF DeleteDockerTags
  <2>3. \A d \in s.dels : <<o, d>> \in images
    BY <2>1 DEF WholeNow, Whole, Gathering
  <2> HIDE DEF left, t
  <2> QED BY <1>2, <1>3, <2>1, <2>2, <2>3, HeldSteady DEF Held
<1> QED BY <1>5, <1>6, <1>7, <1>8, <1>9, <1>10

LEMMA ChecksAncestors ==
    ASSUME TypeOK, NEW c \in Clients, WholeNow(c), CheckDependentAncestorImages(c)
    PROVE  Steady(c)
<1> DEFINE s == op[c]
           o == OwnerOf[c]
           all == [s EXCEPT !.pc = "deleteDockerImages", !.cur = s.img]
           some == [s EXCEPT !.pc = "deleteDockerImages", !.cur = s.img,
                             !.dels = @ \ Ancestry[s.cur]]
           next == [s EXCEPT !.cur = Parent[s.cur]]
<1>1. /\ s \in OpType /\ RowsWhole(images, layers)
      /\ s.pc = "checkDependentAncestorImages" /\ <<o, s.img>> \in images
      /\ \A d \in s.dels : <<o, d>> \in images
  BY AloneFacts DEF CheckDependentAncestorImages, At, WholeNow, Whole, Held, Gathering
<1>2. s.pc \notin Leaving /\ UNCHANGED <<images, layers>>
  BY <1>1 DEF CheckDependentAncestorImages, Leaving, Creating, moray
<1>3. /\ all.pc = "deleteDockerImages" /\ all.img = s.img /\ all.cur = s.img
      /\ all.dels = s.dels
      /\ some.pc = "deleteDockerImages" /\ some.img = s.img /\ some.cur = s.img
      /\ some.dels \subseteq s.dels
      /\ next.pc = s.pc /\ next.img = s.img /\ next.dels = s.dels
  BY <1>1 DEF OpType
<1>4. Become(c, all) \/ Become(c, some) \/ Become(c, next)
  BY DEF CheckDependentAncestorImages
<1> HIDE DEF all, some, next
<1>5. LayersOf[s.img] \subseteq layers
  BY <1>1 DEF RowsWhole
<1>6. ASSUME NEW t, t.pc = "deleteDockerImages", t.img = s.img, t.cur = s.img,
             t.dels \subseteq s.dels, Become(c, t)
      PROVE  Steady(c)
  <2>1. Whole(images, layers, t, o)
    BY <1>1, <1>5, <1>6 DEF Whole, Held, Gathering, Creating
  <2> QED BY <1>1, <1>2, <1>6, <2>1, QuietSteady
<1>7. CASE Become(c, next)
  BY <1>1, <1>2, <1>3, <1>7, HeldSteady DEF Held
<1> QED BY <1>3, <1>4, <1>6, <1>7

(* Deleting up the chain: what the rows leave is the top layer at most, as *)
(* the layers of an ancestor carry those of its descendants.               *)
LEMMA DeletesRowsSteady ==
    ASSUME TypeOK, NEW c \in Clients, WholeNow(c), DeleteDockerImages(c),
           op[c].dels \subseteq Digests
    PROVE  Steady(c)
<1> DEFINE s == op[c]
           o == OwnerOf[c]
           p == Parent[s.cur]
           next == [s EXCEPT !.cur = p]
           done == [s EXCEPT !.pc = "listLayerRefs", !.layer = Top[s.img]]
<1>1. /\ s \in OpType /\ RowsWhole(images, layers) /\ s.pc = "deleteDockerImages"
      /\ s.img \in Digests /\ s.cur \in Digests
      /\ LayersOf[s.img] \subseteq layers /\ LayersOf[s.cur] \subseteq LayersOf[s.img]
      /\ <<o, s.cur>> \in images
      /\ p # None => \A d \in s.dels \cap Ancestry[p] : <<o, d>> \in images
  BY AloneFacts DEF DeleteDockerImages, At, Progress, WholeNow, Whole
<1>2. images' = images \ {<<o, s.cur>>} /\ layers' = layers
  BY DEF DeleteDockerImages, DelImage
<1>3. RowsWhole(images', layers')
  BY <1>1, <1>2 DEF RowsWhole
<1>4. /\ next.pc = s.pc /\ next.img = s.img /\ next.cur = p /\ next.dels = s.dels
      /\ done.pc = "listLayerRefs" /\ done.layer = Top[s.img]
  BY <1>1 DEF OpType
<1>5. (p \in s.dels /\ Become(c, next)) \/ Become(c, done)
  BY <1>1 DEF DeleteDockerImages, HasImage
<1> HIDE DEF next, done
<1>6. ASSUME NEW t, \A l : l = Top[s.img] => Pending(t, l), NoneLeft(images, layers, s)
      PROVE  NoneLeft(images', layers', t)
  <2> SUFFICES ASSUME NEW l \in layers, Unused(images', layers', l) PROVE l = Top[s.img]
    BY <1>2, <1>6 DEF NoneLeft
  <2>1. CASE Unused(images, layers, l)
    BY <1>1, <1>6, <2>1 DEF NoneLeft, Pending, Creating
  <2>2. CASE ~Unused(images, layers, l)
    <3>1. l = Top[s.cur]
      BY <1>2, <2>2 DEF Unused
    <3>2. l \in LayersOf[s.img]
      BY <1>1, <3>1, LayerFacts
    <3> QED BY <1>1, <1>2, <3>2, LayerFacts DEF Unused
  <2> QED BY <2>1, <2>2
<1>7. CASE Become(c, done)
  <2>1. Whole(images', layers', done, o)
    BY <1>4, ClaimsNothing DEF Claiming, Held, Creating
  <2>2. \A l : l = Top[s.img] => Pending(done, l)
    BY <1>4 DEF Pending
  <2> QED BY <1>3, <1>6, <1>7, <2>1, <2>2 DEF Steady
<1>8. CASE p \in s.dels /\ Become(c, next)
  <2>1. /\ p \in Digests /\ p # None /\ p \in Ancestry[p] /\ s.cur \notin Ancestry[p]
        /\ LayersOf[p] \subseteq LayersOf[s.cur]
        /\ Parent[p] # None => Ancestry[Parent[p]] \subseteq Ancestry[p]
    BY <1>1, <1>8, AncestryFacts, LayerFacts, DataAssumption
  <2>2. \A d \in s.dels \cap Ancestry[p] : <<o, d>> \in images'
    BY <1>1, <1>2, <2>1
  <2>3. /\ LayersOf[next.cur] \subseteq LayersOf[next.img]
        /\ LayersOf[next.img] \subseteq layers' /\ <<o, next.cur>> \in images'
    BY <1>1, <1>2, <1>4, <1>8, <2>1, <2>2
  <2>4. Parent[next.cur] # None =>
          \A d \in next.dels \cap Ancestry[Parent[next.cur]] : <<o, d>> \in images'
    BY <1>4, <2>1, <2>2
  <2>5. Whole(images', layers', next, o)
    BY <1>1, <1>4, <2>3, <2>4 DEF Whole, Held, Gathering, Creating
  <2>6. \A l : l = Top[s.img] => Pending(next, l)
    BY <1>1, <1>4 DEF Pending
  <2> QED BY <1>3, <1>6, <1>8, <2>5, <2>6 DEF Steady
<1> QED BY <1>5, <1>7, <1>8

(* Walking down: the layer looked at is the only one that may be unused.   *)
LEMMA CountsSteady ==
    ASSUME TypeOK, NEW c \in Clients, WholeNow(c), ListLayerRefs(c) PROVE Steady(c)
<1> DEFINE s == op[c]
           t == [s EXCEPT !.pc = "deleteImgapiImage"]
<1>1. /\ s \in OpType /\ RowsWhole(images, layers) /\ s.pc = "listLayerRefs"
      /\ images' = images /\ layers' = layers
  BY AloneFacts DEF ListLayerRefs, At, WholeNow, moray
<1>2. t.pc = "deleteImgapiImage" /\ t.layer = s.layer
  BY <1>1 DEF OpType
<1>3. \/ LayerRefs(s.layer) = {} /\ Become(c, t)
      \/ LayerRefs(s.layer) # {} /\ Become(c, Idle)
  BY DEF ListLayerRefs, Goto, End
<1>4. Idle.pc = "idle"
  BY DEF Idle
<1> HIDE DEF t, Idle
<1>5. CASE LayerRefs(s.layer) = {} /\ Become(c, t)
  <2>1. Whole(images, layers, t, OwnerOf[c])
    BY <1>2, <1>5 DEF Whole, Held, Gathering, Creating, LayerRefs
  <2>2. NoneLeft(images, layers, s) => NoneLeft(images, layers, t)
    BY <1>1, <1>2 DEF NoneLeft, Pending, Creating
  <2> HIDE DEF Whole, NoneLeft, RowsWhole
  <2> QED BY <1>1, <1>5, <2>1, <2>2 DEF Steady
<1>6. CASE LayerRefs(s.layer) # {} /\ Become(c, Idle)
  <2>1. Whole(images, layers, Idle, OwnerOf[c])
    BY <1>4, ClaimsNothing DEF Claiming, Held, Creating
  <2>2. NoneLeft(images, layers, s) => NoneLeft(images, layers, Idle)
    BY <1>1, <1>6 DEF NoneLeft, Pending, Creating, LayerRefs, Unused
  <2> HIDE DEF Whole, NoneLeft, RowsWhole
  <2> QED BY <1>1, <1>6, <2>1, <2>2 DEF Steady
<1> QED BY <1>3, <1>5, <1>6

LEMMA DeletesLayerSteady ==
    ASSUME TypeOK, NEW c \in Clients, WholeNow(c), DeleteImgapiImage(c)
    PROVE  Steady(c)
<1> DEFINE s == op[c]
           l == s.layer
           below == [s EXCEPT !.pc = "listLayerRefs", !.layer = Origin[l]]
           gone == l \in layers /\ LayerChildren(l) = {}
<1>1. /\ s \in OpType /\ RowsWhole(images, layers) /\ s.pc = "deleteImgapiImage"
      /\ images' = images /\ images \subseteq Keys /\ layers \subseteq Layers
      /\ \A k \in images : Top[k[2]] # l
      /\ layers' = IF gone THEN layers \ {l} ELSE layers
  BY AloneFacts DEF DeleteImgapiImage, At, WholeNow, Whole, moray
<1>2. below.pc = "listLayerRefs" /\ below.layer = Origin[l] /\ Idle.pc = "idle"
  BY <1>1 DEF OpType, Idle
<1>3. \/ gone /\ Origin[l] # None /\ Become(c, below)
      \/ ~(gone /\ Origin[l] # None) /\ Become(c, Idle)
  BY DEF DeleteImgapiImage, End
<1>4. RowsWhole(images', layers')
  <2> SUFFICES ASSUME gone, NEW k \in images PROVE LayersOf[k[2]] \subseteq layers \ {l}
    BY <1>1 DEF RowsWhole
  <2>1. k[2] \in Digests /\ LayersOf[k[2]] \subseteq layers
    BY <1>1 DEF Keys, RowsWhole
  <2>2. \A m \in LayersOf[k[2]] : Origin[m] # l
    BY <2>1 DEF LayerChildren
  <2> QED BY <1>1, <2>1, <2>2, LayerFacts
<1> HIDE DEF below, Idle
<1>5. ASSUME NEW t, Become(c, t), t.pc \in {"listLayerRefs", "idle"},
             gone /\ Origin[l] # None => \A m : m = Origin[l] => Pending(t, m)
      PROVE  Steady(c)
  <2>1. Whole(images', layers', t, OwnerOf[c])
    BY <1>5, ClaimsNothing DEF Claiming, Held, Creating
  <2>2. ASSUME NoneLeft(images, layers, s), NEW m \in layers', Unused(images', layers', m)
        PROVE  Pending(t, m)
    <3>1. m \in layers /\ m # None
      BY <1>1, DataAssumption
    <3>2. ~Unused(images, layers, m)
      <4>1. Unused(images, layers, m) => m = l
        BY <1>1, <2>2, <3>1 DEF NoneLeft, Pending, Creating
      <4>2. m = l => ~gone
        BY <1>1, <2>2
      <4>3. m = l /\ Unused(images, layers, m) => gone
        BY <3>1 DEF Unused, LayerChildren
      <4> QED BY <4>1, <4>2, <4>3
    <3>3. gone /\ Origin[l] = m
      BY <1>1, <2>2, <3>2 DEF Unused
    <3> QED BY <1>5, <3>1, <3>3
  <2>3. NoneLeft(images, layers, s) => NoneLeft(images', layers', t)
    BY <2>2 DEF NoneLeft
  <2> HIDE DEF Whole, NoneLeft, RowsWhole
  <2> QED BY <1>4, <1>5, <2>1, <2>3 DEF Steady
<1>6. \A m : m = Origin[l] => Pending(below, m)
  BY <1>2 DEF Pending
<1> QED BY <1>2, <1>3, <1>5, <1>6

(* A pull: each layer it has added is below the next, or the top.          *)
LEMMA ImportSteady ==
    ASSUME TypeOK, NEW c \in Clients, WholeNow(c), ImportLayers(c) PROVE Steady(c)
<1> DEFINE s == op[c]
           left(l) == [s EXCEPT !.todo = @ \ {l}]
           done == [s EXCEPT !.pc = "listImagesV2"]
<1>1. /\ s \in OpType /\ RowsWhole(images, layers) /\ s.pc = "importLayers"
      /\ images' = images /\ s.img \in Digests
      /\ LayersOf[s.img] \ s.todo \subseteq layers /\ s.todo \subseteq LayersOf[s.img]
  BY AloneFacts DEF ImportLayers, At, Progress, WholeNow, Whole, moray
<1>2. /\ done.pc = "listImagesV2" /\ done.img = s.img
      /\ \A l : left(l).pc = s.pc /\ left(l).img = s.img /\ left(l).todo = s.todo \ {l}
  BY <1>1 DEF OpType
<1>3. \/ s.todo = {} /\ Become(c, done) /\ layers' = layers
      \/ \E l \in s.todo : Become(c, left(l)) /\ layers' = layers \cup {l}
  <2>1. \A l \in s.todo : Origin[l] \notin s.todo => Origin[l] \in layers \cup {None}
    BY <1>1, LayerFacts
  <2> QED BY <2>1 DEF ImportLayers, Goto
<1> HIDE DEF left, done
<1>4. CASE s.todo = {} /\ Become(c, done) /\ layers' = layers
  <2>1. Whole(images, layers, done, OwnerOf[c])
    BY <1>1, <1>2, <1>4 DEF Whole, Held, Gathering, Creating
  <2>2. ASSUME NoneLeft(images, layers, s), NEW l \in layers, Unused(images, layers, l)
        PROVE  Pending(done, l)
    <3>1. l \in LayersOf[s.img]
      BY <1>1, <2>2 DEF NoneLeft, Pending, Creating
    <3>2. l = Top[s.img]
      BY <1>1, <1>4, <2>2, <3>1, LayerFacts DEF Unused
    <3> QED BY <1>2, <3>2 DEF Pending, Creating
  <2>3. NoneLeft(images, layers, s) => NoneLeft(images, layers, done)
    BY <2>2 DEF NoneLeft
  <2> HIDE DEF Whole, NoneLeft, RowsWhole
  <2> QED BY <1>1, <1>4, <2>1, <2>3 DEF Steady
<1>5. ASSUME NEW l \in s.todo, Become(c, left(l)), layers' = layers \cup {l}
      PROVE  Steady(c)
  <2>1. RowsWhole(images', layers')
    BY <1>1, <1>5 DEF RowsWhole
  <2>2. Whole(images', layers', left(l), OwnerOf[c])
    BY <1>1, <1>2, <1>5 DEF Whole, Held, Gathering, Creating
  <2>3. ASSUME NoneLeft(images, layers, s), NEW m \in layers', Unused(images', layers', m)
        PROVE  Pending(left(l), m)
    <3>1. m = l \/ m \in LayersOf[s.img] \ s.todo
      BY <1>1, <1>5, <2>3 DEF NoneLeft, Pending, Creating, Unused
    <3> QED BY <1>1, <1>2, <1>5, <3>1 DEF Pending
  <2>4. NoneLeft(images, layers, s) => NoneLeft(images', layers', left(l))
    BY <2>3 DEF NoneLeft
  <2> HIDE DEF Whole, NoneLeft, RowsWhole
  <2> QED BY <1>5, <2>1, <2>2, <2>4 DEF Steady
<1> QED BY <1>3, <1>4, <1>5

LEMMA CreateSteady ==
    ASSUME TypeOK, NEW c \in Clients, WholeNow(c),
           ListImagesV2(c) \/ CreateImageV2(c) \/ ImageCreate(c)
    PROVE  Steady(c)
<1> DEFINE s == op[c]
           o == OwnerOf[c]
           tag == [s EXCEPT !.pc = "tagImageV2"]
           create == [s EXCEPT !.pc = "createImageV2"]
<1>1. /\ s \in OpType /\ RowsWhole(images, layers) /\ s.pc \in Creating
      /\ layers' = layers /\ LayersOf[s.img] \subseteq layers
  BY AloneFacts DEF ListImagesV2, CreateImageV2, ImageCreate, At, WholeNow, Whole,
                    Creating, moray
<1>2. /\ tag.pc = "tagImageV2" /\ create.pc = "createImageV2" /\ create.img = s.img
  BY <1>1 DEF OpType
<1>3. \/ <<o, s.img>> \in images' /\ images' \subseteq images \cup {<<o, s.img>>}
         /\ images \subseteq images' /\ Become(c, tag)
      \/ images' = images /\ Become(c, create)
  BY DEF ListImagesV2, CreateImageV2, ImageCreate, HasImage, PutImage, Goto, moray
<1> HIDE DEF tag, create
<1>4. CASE images' = images /\ Become(c, create)
  <2>1. Whole(images, layers, create, o)
    BY <1>1, <1>2 DEF Whole, Held, Gathering, Creating
  <2>2. NoneLeft(images, layers, s) => NoneLeft(images, layers, create)
    BY <1>1, <1>2 DEF NoneLeft, Pending, Creating
  <2> HIDE DEF Whole, NoneLeft, RowsWhole
  <2> QED BY <1>1, <1>4, <2>1, <2>2 DEF Steady
<1>5. CASE /\ <<o, s.img>> \in images' /\ images' \subseteq images \cup {<<o, s.img>>}
           /\ images \subseteq images' /\ Become(c, tag)
  <2>1. Whole(images', layers', tag, o)
    BY <1>2, ClaimsNothing DEF Claiming, Held, Creating
  <2>2. RowsWhole(images', layers')
    BY <1>1, <1>5 DEF RowsWhole
  <2>3. ASSUME NoneLeft(images, layers, s), NEW l \in layers
        PROVE  ~Unused(images', layers', l)
    <3>1. Unused(images, layers, l) => l = Top[s.img]
      BY <1>1, <2>3 DEF NoneLeft, Pending, Creating
    <3>2. Unused(images', layers', l) => Unused(images, layers, l) /\ l # Top[s.img]
      BY <1>1, <1>5 DEF Unused
    <3> QED BY <3>1, <3>2
  <2>4. NoneLeft(images, layers, s) => NoneLeft(images', layers', tag)
    BY <1>1, <2>3 DEF NoneLeft
  <2> HIDE DEF Whole, NoneLeft, RowsWhole
  <2> QED BY <1>5, <2>1, <2>2, <2>4 DEF Steady
<1> QED BY <1>3, <1>4, <1>5

LEMMA CommitSteady ==
    ASSUME TypeOK, NEW c \in Clients, WholeNow(c), DockerCommit(c) PROVE Steady(c)
<1> DEFINE s == op[c]
           o == OwnerOf[c]
           made(d) == [s EXCEPT !.pc = "imageCreate", !.img = d]
<1>1. /\ s \in OpType /\ RowsWhole(images, layers) /\ s.pc = "dockerCommit"
      /\ images' = images /\ s.img \in Digests /\ s.img # None
      /\ LayersOf[s.img] \subseteq layers
  <2>1. s \in OpType /\ s.pc = "dockerCommit" /\ images' = images
    BY AloneFacts DEF DockerCommit, At, moray
  <2>2. <<o, s.img>> \in images /\ RowsWhole(images, layers) /\ s.img \in Digests
    BY <2>1, AloneFacts DEF WholeNow, Whole, Held, Progress
  <2> QED BY <2>1, <2>2, DataAssumption DEF RowsWhole
<1>2. CASE End(c) /\ layers' = layers
  BY <1>1, <1>2, EndSteady DEF Leaving, Creating
<1>3. ASSUME NEW d \in Digests, Parent[d] = s.img, layers' = layers \cup {Top[d]},
             Become(c, made(d))
      PROVE  Steady(c)
  <2>1. made(d).pc = "imageCreate" /\ made(d).img = d
    BY <1>1 DEF OpType
  <2>2. LayersOf[d] \subseteq layers'
    BY <1>1, <1>3, LayerFacts
  <2> HIDE DEF made
  <2>3. RowsWhole(images', layers') /\ Whole(images', layers', made(d), o)
    BY <1>1, <1>3, <2>1, <2>2 DEF RowsWhole, Whole, Held, Gathering, Creating
  <2>4. ASSUME NoneLeft(images, layers, s), NEW l \in layers', Unused(images', layers', l)
        PROVE  Pending(made(d), l)
    <3>1. l = Top[d]
      BY <1>1, <1>3, <2>4 DEF NoneLeft, Pending, Creating, Unused
    <3> QED BY <2>1, <3>1 DEF Pending, Creating
  <2>5. NoneLeft(images, layers, s) => NoneLeft(images', layers', made(d))
    BY <2>4 DEF NoneLeft
  <2> HIDE DEF Whole, NoneLeft, RowsWhole
  <2> QED BY <1>3, <2>3, <2>5 DEF Steady
<1>4. \/ End(c) /\ layers' = layers
      \/ \E d \in Digests : Parent[d] = s.img /\ layers' = layers \cup {Top[d]}
                            /\ Become(c, made(d))
  BY DEF DockerCommit
<1> QED BY <1>2, <1>3, <1>4

LEMMA ServeSteady ==
    ASSUME TypeOK, NEW c \in Clients, WholeNow(c), Start(c) \/ Serve(c) PROVE Steady(c)
<1>1. CASE Start(c)
  BY <1>1, StartSteady
<1>2. CASE Rmi(c)
  <2>1. op[c].dels \subseteq Digests
    BY AloneFacts DEF OpType
  <2> QED BY <1>2, <2>1, RmiDecides, ChecksAncestors, DeletesRowsSteady, CountsSteady,
             DeletesLayerSteady DEF Rmi
<1>3. CASE TagImageV2(c) \/ TagImage(c) \/ CreateVm(c)
  <2>1. /\ End(c) /\ UNCHANGED <<images, layers>>
        /\ op[c].pc \in {"tagImageV2", "tagImage", "createVm"}
    BY <1>3 DEF TagImageV2, TagImage, CreateVm, At, moray
  <2> QED BY <2>1, EndSteady DEF WholeNow, Leaving, Creating
<1> QED BY <1>1, <1>2, <1>3, LookupSteady, ImportSteady, CreateSteady, CommitSteady
        DEF Serve, Pull

LEMMA AloneStepHolds ==
    ASSUME NEW c, Clients = {c}, AloneInv(c), [Next]_vars PROVE AloneInv(c)'
<1>1. TypeOK /\ TypeOK' /\ c \in Clients /\ op \in [Clients -> OpType]
      /\ failures \in Nat /\ lost \in Nat
  BY NextTyped, DataAssumption DEF AloneInv, TypeOK, OpsOK, StoresOK
<1>2. CASE UNCHANGED <<images, layers, op, failures, lost>>
  BY <1>1, <1>2 DEF AloneInv, WholeNow
<1>3. CASE Start(c) \/ Serve(c)
  <2>1. lost' = lost /\ failures' = failures
    <3>1. CASE Start(c)
      BY <3>1 DEF Start, env
    <3>2. CASE Lookup(c)
      BY <3>2 DEF Lookup, FindByName, FindImage, IsImageInImgapi, DelImgRef,
                  DelImgTagRef, env
    <3>3. CASE Rmi(c)
      BY <3>3 DEF Rmi, GetImgTags, RemoveImageTag, CheckDependentImages,
         VerifyNotInUse, GetImageAncestry, DeleteDockerTags, DeleteDockerImages,
         CheckDependentAncestorImages, ListLayerRefs, DeleteImgapiImage, env
    <3>4. CASE Pull(c) \/ TagImage(c) \/ CreateVm(c) \/ DockerCommit(c) \/ ImageCreate(c)
      BY <3>4 DEF Pull, ImportLayers, ListImagesV2, CreateImageV2, TagImageV2, TagImage,
                  CreateVm, DockerCommit, ImageCreate, env
    <3> QED BY <1>3, <3>1, <3>2, <3>3, <3>4 DEF Serve
  <2>2. SUFFICES ASSUME lost = 0
                 PROVE  WholeNow(c)' /\ (failures = 0 => NoneLeft(images, layers, op[c])')
    BY <1>1, <2>1 DEF AloneInv
  <2>3. PICK t : /\ Become(c, t)
                 /\ RowsWhole(images', layers') /\ Whole(images', layers', t, OwnerOf[c])
                 /\ NoneLeft(images, layers, op[c]) => NoneLeft(images', layers', t)
    BY <1>1, <1>3, <2>2, ServeSteady DEF AloneInv, Steady
  <2>4. op'[c] = t
    BY <1>1, <2>3 DEF Become
  <2>5. failures = 0 => NoneLeft(images, layers, op[c])
    BY <2>2 DEF AloneInv
  <2> HIDE DEF RowsWhole, Whole, NoneLeft
  <2> QED BY <2>3, <2>4, <2>5 DEF WholeNow
<1>4. CASE Fail(c)
  <2>1. /\ failures' = failures + 1 /\ lost' = lost /\ images' = images
        /\ layers' = layers /\ op'[c] = Idle
    BY <1>1, <1>4 DEF Fail, End, Become, moray
  <2>2. failures' # 0
    BY <1>1, <2>1
  <2>3. Whole(images, layers, Idle, OwnerOf[c])
    BY ClaimsNothing DEF Idle, Claiming, Held, Creating
  <2> HIDE DEF RowsWhole, Whole, NoneLeft, Idle
  <2> QED BY <1>1, <2>1, <2>2, <2>3 DEF AloneInv, WholeNow
<1>5. ASSUME NEW l \in Layers, LoseLayer(l) PROVE AloneInv(c)'
  <2>1. lost' # 0
    BY <1>1, <1>5 DEF LoseLayer
  <2> QED BY <1>1, <2>1 DEF AloneInv
<1>6. ASSUME NEW v \in Vms, VmChange(v) PROVE AloneInv(c)'
  BY <1>2, <1>6 DEF VmChange, moray
<1>7. CASE UNCHANGED vars
  BY <1>2, <1>7 DEF vars
<1> QED BY <1>3, <1>4, <1>5, <1>6, <1>7 DEF Next

LEMMA AloneInit == ASSUME NEW c \in Clients, Init PROVE AloneInv(c)
<1>1. TypeOK /\ op[c] = Idle /\ images \subseteq Keys
      /\ layers = UNION {LayersOf[k[2]] : k \in images}
  BY InitTyped DEF Init
<1>2. RowsWhole(images, layers)
  BY <1>1 DEF RowsWhole
<1>3. Whole(images, layers, Idle, OwnerOf[c])
  BY ClaimsNothing DEF Idle, Claiming, Held, Creating
<1>4. ASSUME NEW l \in layers PROVE ~Unused(images, layers, l)
  <2>1. PICK k \in images : l \in LayersOf[k[2]]
    BY <1>1
  <2>2. k[2] \in Digests /\ LayersOf[k[2]] \subseteq layers
    BY <1>1 DEF Keys
  <2> QED BY <2>1, <2>2, LayerFacts DEF Unused
<1> QED BY <1>1, <1>2, <1>3, <1>4 DEF AloneInv, WholeNow, NoneLeft

LEMMA AloneHolds ==
    ASSUME NEW CONSTANT c, Clients = {c} PROVE Spec => []AloneInv(c)
<1>1. Init => AloneInv(c)
  BY AloneInit
<1>2. AloneInv(c) /\ [Next]_vars => AloneInv(c)'
  BY AloneStepHolds
<1> QED BY <1>1, <1>2, PTL DEF Spec

(* One request at a time, pulls and commits among them, keeps the layers   *)
(* of every row, as long as no operator removes layers.                    *)
THEOREM AloneKeepsLayers ==
    ASSUME NEW CONSTANT c, Clients = {c}, MaxLost = 0 PROVE Spec => []ImagesHaveLayers
<1>1. AloneInv(c) => ImagesHaveLayers
  <2> SUFFICES ASSUME AloneInv(c), NEW k \in images PROVE Top[k[2]] \in layers
    BY DEF ImagesHaveLayers
  <2>1. lost = 0 /\ k[2] \in Digests
    BY DEF AloneInv, TypeOK, StoresOK, Keys
  <2>2. LayersOf[k[2]] \subseteq layers
    BY <2>1 DEF AloneInv, WholeNow, RowsWhole
  <2> QED BY <2>1, <2>2, LayerFacts
<1>2. Spec => []AloneInv(c)
  BY AloneHolds
<1> QED BY <1>1, <1>2, PTL

(* One request at a time leaves no layer behind in IMGAPI: when a removal  *)
(* has deleted its rows, the walk down from the top layer ends only at a   *)
(* layer that is in use, and what a pull or commit adds gets its row.      *)
THEOREM AloneLeaksNothing ==
    ASSUME NEW CONSTANT c, Clients = {c} PROVE Spec => []NoLayerLeaks
<1>1. AloneInv(c) => NoLayerLeaks
  BY DEF AloneInv, NoLayerLeaks, NoneLeft, Unused, Pending, Creating, At, LayerRefs,
         LayerChildren
<1>2. Spec => []AloneInv(c)
  BY AloneHolds
<1> QED BY <1>1, <1>2, PTL
===============================================================================
