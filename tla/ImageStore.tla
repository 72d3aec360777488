----------------------------- MODULE ImageStore -----------------------------
(***************************************************************************)
(* Images in sdc-docker live in three stores.  Moray holds, per owner, the *)
(* docker_images_v2 rows (models/image-v2.js) and the docker_image_tags_v2 *)
(* rows (models/image-tag-v2.js); IMGAPI holds the layers, shared by every *)
(* owner of the datacenter.  No transaction spans them: a docker request   *)
(* is a pipeline of single reads and writes, and requests interleave       *)
(* between any two of them.  This module models the requests that read or  *)
(* write the three stores -- pull, rmi, tag, commit, run and every lookup  *)
(* by name (backends/sdc/images.js, backends/sdc/build.js) -- one action   *)
(* per remote call.                                                        *)
(***************************************************************************)
EXTENDS Naturals

CONSTANTS
    Owners,      \* account uuids
    Clients,     \* concurrent connections, each serving one request at a time
    OwnerOf,     \* [Clients -> Owners], req.account.uuid
    Names,       \* repo:tag pairs
    Digests,     \* config digests
    Layers,      \* IMGAPI image uuids of the layers
    Vms,         \* containers that may exist at once
    Parent,      \* [Digests -> Digests \cup {None}], image.parent
    Ancestry,    \* [Digests -> SUBSET Digests], a digest and its ancestors
    Top,         \* [Digests -> Layers], image_uuid
    LayersOf,    \* [Digests -> SUBSET Layers], manifest.layers
    Origin,      \* [Layers -> Layers \cup {None}], the layer below
    V21,         \* digests whose dockerImageVersion is '2.1'
    Requests,    \* the requests clients may issue
    MaxFailures, \* bound: remote calls that fail
    MaxLost,     \* bound: layers removed from IMGAPI behind sdc-docker's back
    None

Keys == Owners \X Digests      \* objectKey in models/image-v2.js
TagKeys == Owners \X Names     \* objectKey in models/image-tag-v2.js

RequestType ==
    [kind: {"inspect", "run", "commit", "tag", "pull", "rmi"},
     ref: Names \cup Digests,   \* the image asked for
     name: Names \cup {None},   \* the tag to write
     force: BOOLEAN]

ASSUME DataAssumption ==
    /\ OwnerOf \in [Clients -> Owners]
    /\ Parent \in [Digests -> Digests \cup {None}]
    /\ Ancestry \in [Digests -> SUBSET Digests]
    /\ Top \in [Digests -> Layers]
    /\ LayersOf \in [Digests -> SUBSET Layers]
    /\ Origin \in [Layers -> Layers \cup {None}]
    /\ V21 \subseteq Digests
    /\ Requests \subseteq RequestType
    /\ \A r \in Requests : r.kind = "pull" => r.ref \in Digests
    /\ \A r \in Requests : r.kind = "tag" => r.name \in Names
    /\ None \notin Names \cup Digests \cup Layers \cup Vms
    /\ Names \cap Digests = {}
    /\ MaxFailures \in Nat /\ MaxLost \in Nat

(* Digests are content hashes, so parents and layers form finite chains.   *)
(* An image has the layers of its parent and at most one more on top.      *)
ASSUME ChainAssumption ==
    /\ \A d \in Digests :
          /\ Ancestry[d] = {d} \cup (IF Parent[d] = None THEN {}
                                     ELSE Ancestry[Parent[d]])
          /\ Parent[d] # None => d \notin Ancestry[Parent[d]]
          /\ \A e \in Ancestry[d] : Ancestry[e] \subseteq Ancestry[d]
          /\ Top[d] \in LayersOf[d]
          /\ \A l \in LayersOf[d] : Origin[l] \in LayersOf[d] \cup {None}
          /\ \A l \in LayersOf[d] \ {Top[d]} : \E m \in LayersOf[d] : Origin[m] = l
          /\ Parent[d] # None => LayersOf[d] = LayersOf[Parent[d]] \cup {Top[d]}
    /\ \A l \in Layers : Origin[l] # l

VARIABLES
    images,   \* the docker_images_v2 rows, a subset of Keys
    heads,    \* the rows whose head field is true
    tags,     \* [TagKeys -> Digests \cup {None}], the docker_image_tags_v2 rows
    layers,   \* the layers IMGAPI has
    vms,      \* [Vms -> VmType \cup {None}], VMAPI's active containers
    op,       \* [Clients -> OpType], the request each client is serving
    failures, \* remote calls that have failed
    lost      \* layers removed behind sdc-docker's back

vars == <<images, heads, tags, layers, vms, op, failures, lost>>
moray == <<images, heads, tags>>
env == <<vms, failures, lost>>

VmType == [owner: Owners, layer: Layers, state: {"running", "stopped"}]

LookupPcs == {"findByName", "findImage", "isImageInImgapi", "delImgRef",
              "delImgTagRef"}
RmiPcs == {"getImgTags", "removeImageTag", "checkDependentImages",
           "verifyNotInUse", "getImageAncestry", "deleteDockerTags",
           "checkDependentAncestorImages", "deleteDockerImages",
           "listLayerRefs", "deleteImgapiImage"}
CreatePcs == {"importLayers", "listImagesV2", "createImageV2", "tagImageV2"}
OtherPcs == {"idle", "tagImage", "createVm", "dockerCommit", "imageCreate"}

(* The closure variables of a request: req.* is what the client sent, tag  *)
(* is imgTag, img is opts.img, tags is ctx.imgTags, dels is                *)
(* ctx.imgsToDelete, cur and layer are the positions of the loops over     *)
(* images and over layerInfos, todo the layers an import has still to add. *)
OpType ==
    [pc: LookupPcs \cup RmiPcs \cup CreatePcs \cup OtherPcs,
     req: Requests \cup {None},
     tag: Names \cup {None},
     img: Digests \cup {None},
     tags: SUBSET Names,
     dels: SUBSET Digests,
     headFound: BOOLEAN,
     cur: Digests \cup {None},
     layer: Layers \cup {None},
     todo: SUBSET Layers]

Idle == [pc |-> "idle", req |-> None, tag |-> None, img |-> None,
         tags |-> {}, dels |-> {}, headFound |-> FALSE, cur |-> None,
         layer |-> None, todo |-> {}]

-----------------------------------------------------------------------------
(* Reads and writes of the stores.                                         *)

MoreThanOne(S) == \E a, b \in S : a # b

HasImage(o, d) == <<o, d>> \in images
TagsForImage(o, d) == {n \in Names : tags[<<o, n>>] = d}
Dependents(o, d) == {e \in Digests : HasImage(o, e) /\ Parent[e] = d}
LayerRefs(l) == {k \in images : Top[k[2]] = l}
LayerChildren(l) == {m \in layers : Origin[m] = l}

PutImage(o, d, head) ==
    /\ images' = images \cup {<<o, d>>}
    /\ heads' = IF head THEN heads \cup {<<o, d>>} ELSE heads \ {<<o, d>>}
(* Mutants: the head flag outlives the row; the account is not in the key. *)
DelImageNotHead(o, d) == images' = images \ {<<o, d>>} /\ UNCHANGED heads
DelImageOfAll(o, d) == /\ images' = {k \in images : k[2] # d}
                       /\ heads' = {k \in heads : k[2] # d}
DelImage(o, d) ==
    /\ images' = images \ {<<o, d>>}
    /\ heads' = heads \ {<<o, d>>}
PutTag(o, n, d) == tags' = [tags EXCEPT ![<<o, n>>] = d]
DelTag(o, n) == tags' = [tags EXCEPT ![<<o, n>>] = None]

(* Steps of a request: the answer (or error) ends it.                      *)
At(c, pc) == op[c].pc = pc
Become(c, s) == op' = [op EXCEPT ![c] = s]
Goto(c, pc) == Become(c, [op[c] EXCEPT !.pc = pc])
End(c) == Become(c, Idle)

-----------------------------------------------------------------------------
(* imgFromName, the pipeline behind every name: it resolves a tag or a     *)
(* digest to a row, and forgets a row whose layer IMGAPI no longer has.    *)

Start(c) ==
    /\ At(c, "idle")
    /\ \E r \in Requests :
          IF r.kind = "pull"
          THEN Become(c, [Idle EXCEPT !.pc = "importLayers", !.req = r,
                                      !.img = r.ref,
                                      !.todo = LayersOf[r.ref]])
          ELSE Become(c, [Idle EXCEPT !.pc = "findByName", !.req = r])
    /\ UNCHANGED <<moray, layers, env>>

FindByName(c) ==
    LET o == OwnerOf[c]
        ref == op[c].req.ref
        named == ref \in Names /\ tags[<<o, ref>>] # None
    IN /\ At(c, "findByName")
       /\ \/ /\ named
             /\ Become(c, [op[c] EXCEPT !.pc = "findImage", !.tag = ref,
                                        !.cur = tags[<<o, ref>>]])
          \/ /\ ref \in Digests
             /\ Become(c, [op[c] EXCEPT !.pc = "findImage", !.cur = ref])
          \/ /\ ref \in Names /\ ~named
             /\ End(c)
       /\ UNCHANGED <<moray, layers, env>>

FindImage(c) ==
    /\ At(c, "findImage")
    /\ IF HasImage(OwnerOf[c], op[c].cur)
       THEN Become(c, [op[c] EXCEPT !.pc = "isImageInImgapi",
                                    !.img = op[c].cur])
       ELSE End(c)
    /\ UNCHANGED <<moray, layers, env>>

(* What the handler does with the image it asked for.                      *)
Found(kind) == CASE kind = "rmi" -> "getImgTags"
                 [] kind = "tag" -> "tagImage"
                 [] kind = "run" -> "createVm"
                 [] kind = "commit" -> "dockerCommit"

IsImageInImgapi(c) ==
    LET kind == op[c].req.kind
    IN /\ At(c, "isImageInImgapi")
       /\ \/ /\ Top[op[c].img] \in layers
             /\ kind = "inspect"
             /\ End(c)
          \/ /\ Top[op[c].img] \in layers
             /\ kind # "inspect"
             /\ Goto(c, Found(kind))
          \/ /\ Top[op[c].img] \notin layers
             /\ Goto(c, "delImgRef")
       /\ UNCHANGED <<moray, layers, env>>

DelImgRef(c) ==
    LET o == OwnerOf[c]  d == op[c].img
    IN /\ At(c, "delImgRef")
       /\ IF HasImage(o, d) /\ op[c].tag # None
          THEN Goto(c, "delImgTagRef")
          ELSE End(c)
       /\ DelImage(o, d)
       /\ UNCHANGED <<tags, layers, env>>

DelImgTagRef(c) ==
    /\ At(c, "delImgTagRef")
    /\ DelTag(OwnerOf[c], op[c].tag)
    /\ End(c)
    /\ UNCHANGED <<images, heads, layers, env>>

Lookup(c) == FindByName(c) \/ FindImage(c) \/ IsImageInImgapi(c)
                \/ DelImgRef(c) \/ DelImgTagRef(c)

-----------------------------------------------------------------------------
(* docker rmi: _deleteImageV2, a pipeline of ten functions.                *)

(* Mutant: tags are looked up only when the image was named by one.        *)
GetImgTagsOfTag(c) ==
    /\ At(c, "getImgTags")
    /\ IF op[c].tag # None /\ MoreThanOne(TagsForImage(OwnerOf[c], op[c].img))
       THEN Goto(c, "removeImageTag")
       ELSE Become(c, [op[c] EXCEPT
                         !.pc = "checkDependentImages",
                         !.tags = IF op[c].tag = None THEN {}
                                  ELSE TagsForImage(OwnerOf[c], op[c].img)])
    /\ UNCHANGED <<moray, layers, env>>

(* getImgTags and the two synchronous decisions that follow its answer.    *)
GetImgTags(c) ==
    LET found == TagsForImage(OwnerOf[c], op[c].img)
        byTag == op[c].tag # None
    IN /\ At(c, "getImgTags")
       /\ \/ /\ ~byTag /\ ~op[c].req.force /\ MoreThanOne(found)
             /\ End(c)
          \/ /\ byTag /\ MoreThanOne(found)
             /\ Goto(c, "removeImageTag")
          \/ /\ MoreThanOne(found) => (~byTag /\ op[c].req.force)
             /\ Become(c, [op[c] EXCEPT !.pc = "checkDependentImages",
                                        !.tags = found])
       /\ UNCHANGED <<moray, layers, env>>

RemoveImageTag(c) ==
    /\ At(c, "removeImageTag")
    /\ DelTag(OwnerOf[c], op[c].tag)
    /\ End(c)
    /\ UNCHANGED <<images, heads, layers, env>>

CheckDependentImages(c) ==
    /\ At(c, "checkDependentImages")
    /\ IF Dependents(OwnerOf[c], op[c].img) = {}
       THEN Goto(c, "verifyNotInUse")
       ELSE End(c)
    /\ UNCHANGED <<moray, layers, env>>

(* The owner's containers made from the image: running ones only when the  *)
(* removal is forced.                                                      *)
VmsUsing(o, d, force) ==
    {v \in Vms : /\ vms[v] # None
                 /\ vms[v].owner = o
                 /\ vms[v].layer = Top[d]
                 /\ force => vms[v].state = "running"}

VerifyNotInUse(c) ==
    LET using == VmsUsing(OwnerOf[c], op[c].img, op[c].req.force)
        untag == op[c].tag # None /\ op[c].req.force
    IN /\ At(c, "verifyNotInUse")
       /\ \/ /\ using = {}
             /\ Become(c, [op[c] EXCEPT !.pc = "getImageAncestry",
                                        !.dels = {op[c].img},
                                        !.headFound = FALSE,
                                        !.cur = op[c].img])
          \/ /\ using # {} /\ untag
             /\ Goto(c, "removeImageTag")
          \/ /\ using # {} /\ ~untag
             /\ End(c)
       /\ UNCHANGED <<moray, layers, env>>

(* Mutants: the ancestors above a head are collected too; the loop stays   *)
(* on the image it has read.                                               *)
ReadParentPastHead(s, o) ==
    [s EXCEPT !.cur = Parent[s.cur], !.dels = @ \cup {Parent[s.cur]}]
ReadParentAgain(s, o) ==
    [s EXCEPT !.headFound = @ \/ <<o, Parent[s.cur]>> \in heads]

(* getImageAncestry reads one parent row per step; getImgsToDelete keeps   *)
(* the ancestors below the first head.                                     *)
ReadParent(s, o) ==
    LET p == Parent[s.cur]
        headFound == s.headFound \/ <<o, p>> \in heads
    IN [s EXCEPT !.cur = p,
                 !.headFound = headFound,
                 !.dels = IF headFound THEN @ ELSE @ \cup {p}]

GetImageAncestry(c) ==
    LET o == OwnerOf[c]
        p == Parent[op[c].cur]
    IN /\ At(c, "getImageAncestry")
       /\ \/ /\ p # None /\ HasImage(o, p)
             /\ Become(c, ReadParent(op[c], o))
          \/ /\ p = None \/ (~HasImage(o, p) /\ op[c].cur \in V21)
             /\ Goto(c, "deleteDockerTags")
          \/ /\ p # None /\ ~HasImage(o, p) /\ op[c].cur \notin V21
             /\ End(c)
       /\ UNCHANGED <<moray, layers, env>>

DeleteDockerTags(c) ==
    LET o == OwnerOf[c]
    IN /\ At(c, "deleteDockerTags")
       /\ \/ \E n \in op[c].tags :
                /\ IF tags[<<o, n>>] = None
                   THEN End(c)
                   ELSE Become(c, [op[c] EXCEPT !.tags = @ \ {n}])
                /\ DelTag(o, n)
          \/ /\ op[c].tags = {}
             /\ Become(c, [op[c] EXCEPT !.pc = "checkDependentAncestorImages",
                                        !.cur = Parent[op[c].img]])
             /\ UNCHANGED tags
       /\ UNCHANGED <<images, heads, layers, env>>

(* Mutant: the children an ancestor has besides this image are ignored.    *)
SkipDependentAncestors(c) ==
    LET s == op[c]
    IN /\ At(c, "checkDependentAncestorImages")
       /\ IF s.cur \in s.dels
          THEN Become(c, [s EXCEPT !.cur = Parent[s.cur]])
          ELSE Become(c, [s EXCEPT !.pc = "deleteDockerImages",
                                   !.cur = s.img])
       /\ UNCHANGED <<moray, layers, env>>

(* An ancestor that another image also depends on stays, and so do its     *)
(* own ancestors.                                                          *)
CheckDependentAncestorImages(c) ==
    LET s == op[c]
    IN /\ At(c, "checkDependentAncestorImages")
       /\ \/ /\ s.cur \notin s.dels
             /\ Become(c, [s EXCEPT !.pc = "deleteDockerImages",
                                    !.cur = s.img])
          \/ /\ s.cur \in s.dels
             /\ MoreThanOne(Dependents(OwnerOf[c], s.cur))
             /\ Become(c, [s EXCEPT !.pc = "deleteDockerImages",
                                    !.cur = s.img,
                                    !.dels = @ \ Ancestry[s.cur]])
          \/ /\ s.cur \in s.dels
             /\ ~MoreThanOne(Dependents(OwnerOf[c], s.cur))
             /\ Become(c, [s EXCEPT !.cur = Parent[s.cur]])
       /\ UNCHANGED <<moray, layers, env>>

(* Mutant: the top layer is deleted without counting the rows that name it.*)
DeleteDockerImagesUncounted(c) ==
    LET o == OwnerOf[c]  s == op[c]
    IN /\ At(c, "deleteDockerImages")
       /\ DelImage(o, s.cur)
       /\ IF Parent[s.cur] \in s.dels
          THEN Become(c, [s EXCEPT !.cur = Parent[s.cur]])
          ELSE Become(c, [s EXCEPT !.pc = "deleteImgapiImage",
                                   !.layer = Top[s.img]])
       /\ UNCHANGED <<tags, layers, env>>

(* Delete up the ancestor chain; a row already gone is an error.           *)
DeleteDockerImages(c) ==
    LET o == OwnerOf[c]
        s == op[c]
        last == Parent[s.cur] \notin s.dels
    IN /\ At(c, "deleteDockerImages")
       /\ DelImage(o, s.cur)
       /\ \/ /\ ~HasImage(o, s.cur)
             /\ End(c)
          \/ /\ HasImage(o, s.cur) /\ ~last
             /\ Become(c, [s EXCEPT !.cur = Parent[s.cur]])
          \/ /\ HasImage(o, s.cur) /\ last
             /\ Become(c, [s EXCEPT !.pc = "listLayerRefs",
                                    !.layer = Top[s.img]])
       /\ UNCHANGED <<tags, layers, env>>

(* Mutants: off by one, as if the removed row were still counted; only the *)
(* rows of the account are counted.                                        *)
ListLayerRefsButOne(c) ==
    /\ At(c, "listLayerRefs")
    /\ IF MoreThanOne(LayerRefs(op[c].layer))
       THEN End(c)
       ELSE Goto(c, "deleteImgapiImage")
    /\ UNCHANGED <<moray, layers, env>>
ListOwnLayerRefs(c) ==
    /\ At(c, "listLayerRefs")
    /\ IF \E k \in LayerRefs(op[c].layer) : k[1] = OwnerOf[c]
       THEN End(c)
       ELSE Goto(c, "deleteImgapiImage")
    /\ UNCHANGED <<moray, layers, env>>

(* deleteImgapiLayers: from the top layer down, count the rows of all      *)
(* owners that name the layer, then ask IMGAPI to delete it.               *)
ListLayerRefs(c) ==
    /\ At(c, "listLayerRefs")
    /\ IF LayerRefs(op[c].layer) = {}
       THEN Goto(c, "deleteImgapiImage")
       ELSE End(c)
    /\ UNCHANGED <<moray, layers, env>>

(* Mutant: the layers below the top one are not visited.                   *)
DeleteTopImgapiImage(c) ==
    LET l == op[c].layer
    IN /\ At(c, "deleteImgapiImage")
       /\ layers' = IF LayerChildren(l) = {} THEN layers \ {l} ELSE layers
       /\ End(c)
       /\ UNCHANGED <<moray, env>>

DeleteImgapiImage(c) ==
    LET l == op[c].layer
        deletable == l \in layers /\ LayerChildren(l) = {}
    IN /\ At(c, "deleteImgapiImage")
       /\ layers' = IF deletable THEN layers \ {l} ELSE layers
       /\ IF deletable /\ Origin[l] # None
          THEN Become(c, [op[c] EXCEPT !.pc = "listLayerRefs",
                                       !.layer = Origin[l]])
          ELSE End(c)
       /\ UNCHANGED <<moray, env>>

Rmi(c) == \/ GetImgTags(c) \/ RemoveImageTag(c) \/ CheckDependentImages(c)
          \/ VerifyNotInUse(c) \/ GetImageAncestry(c) \/ DeleteDockerTags(c)
          \/ CheckDependentAncestorImages(c) \/ DeleteDockerImages(c)
          \/ ListLayerRefs(c) \/ DeleteImgapiImage(c)

-----------------------------------------------------------------------------
(* docker pull: IMGAPI adds the layers it lacks from the base up, then the *)
(* pull-image-v2 job creates the row and the tag.                          *)

ImportLayers(c) ==
    /\ At(c, "importLayers")
    /\ \/ \E l \in op[c].todo :
             /\ Origin[l] \notin op[c].todo
             /\ IF l \in layers \/ Origin[l] \in layers \cup {None}
                THEN /\ layers' = layers \cup {l}
                     /\ Become(c, [op[c] EXCEPT !.todo = @ \ {l}])
                ELSE /\ UNCHANGED layers
                     /\ End(c)
       \/ /\ op[c].todo = {}
          /\ Goto(c, "listImagesV2")
          /\ UNCHANGED layers
    /\ UNCHANGED <<moray, env>>

(* Mutant: the row of any account will do.                                 *)
ListImagesOfAll(c) ==
    /\ At(c, "listImagesV2")
    /\ IF \E k \in images : k[2] = op[c].img
       THEN Goto(c, "tagImageV2")
       ELSE Goto(c, "createImageV2")
    /\ UNCHANGED <<moray, layers, env>>

ListImagesV2(c) ==
    /\ At(c, "listImagesV2")
    /\ IF HasImage(OwnerOf[c], op[c].img)
       THEN Goto(c, "tagImageV2")
       ELSE Goto(c, "createImageV2")
    /\ UNCHANGED <<moray, layers, env>>

CreateImageV2(c) ==
    /\ At(c, "createImageV2")
    /\ PutImage(OwnerOf[c], op[c].img, TRUE)
    /\ Goto(c, "tagImageV2")
    /\ UNCHANGED <<tags, layers, env>>

TagImageV2(c) ==
    LET n == op[c].req.name
    IN /\ At(c, "tagImageV2")
       /\ IF n = None THEN UNCHANGED tags
                      ELSE PutTag(OwnerOf[c], n, op[c].img)
       /\ End(c)
       /\ UNCHANGED <<images, heads, layers, env>>

Pull(c) == ImportLayers(c) \/ ListImagesV2(c) \/ CreateImageV2(c)
              \/ TagImageV2(c)

-----------------------------------------------------------------------------
(* docker tag, docker run and docker commit, after the lookup.             *)

TagImage(c) ==
    /\ At(c, "tagImage")
    /\ PutTag(OwnerOf[c], op[c].req.name, op[c].img)
    /\ End(c)
    /\ UNCHANGED <<images, heads, layers, env>>

(* Provisioning installs the layer from IMGAPI on the compute node.        *)
CreateVm(c) ==
    LET l == Top[op[c].img]
        free == {v \in Vms : vms[v] = None}
    IN /\ At(c, "createVm")
       /\ \/ /\ l \in layers
             /\ \E v \in free :
                   vms' = [vms EXCEPT ![v] = [owner |-> OwnerOf[c],
                                              layer |-> l,
                                              state |-> "running"]]
          \/ /\ l \notin layers \/ free = {}
             /\ UNCHANGED vms
       /\ End(c)
       /\ UNCHANGED <<moray, layers, failures, lost>>

(* cn-agent writes the layer of the new image to IMGAPI and reports it     *)
(* with an image_create event.                                             *)
DockerCommit(c) ==
    /\ At(c, "dockerCommit")
    /\ \/ \E d \in Digests :
             LET l == Top[d]
             IN /\ Parent[d] = op[c].img
                /\ l \in layers \/ Origin[l] \in layers \cup {None}
                /\ layers' = layers \cup {l}
                /\ Become(c, [op[c] EXCEPT !.pc = "imageCreate", !.img = d])
       \/ /\ \A d \in Digests : Parent[d] = op[c].img =>
                Top[d] \notin layers
                   /\ Origin[Top[d]] \notin layers \cup {None}
          /\ UNCHANGED layers
          /\ End(c)
    /\ UNCHANGED <<moray, env>>

ImageCreate(c) ==
    /\ At(c, "imageCreate")
    /\ PutImage(OwnerOf[c], op[c].img, TRUE)
    /\ Goto(c, "tagImageV2")
    /\ UNCHANGED <<tags, layers, env>>

-----------------------------------------------------------------------------
(* The environment: containers stop, start and go; a remote call fails and *)
(* with it the request, leaving the steps already taken; an operator       *)
(* removes a layer from IMGAPI directly.                                   *)

VmChange(v) ==
    /\ vms[v] # None
    /\ \/ \E st \in {"running", "stopped"} :
             vms' = [vms EXCEPT ![v] = [@ EXCEPT !.state = st]]
       \/ vms' = [vms EXCEPT ![v] = None]
    /\ UNCHANGED <<moray, layers, op, failures, lost>>

Fail(c) ==
    /\ ~At(c, "idle")
    /\ failures < MaxFailures
    /\ failures' = failures + 1
    /\ End(c)
    /\ UNCHANGED <<moray, layers, vms, lost>>

LoseLayer(l) ==
    /\ lost < MaxLost
    /\ l \in layers /\ LayerChildren(l) = {}
    /\ layers' = layers \ {l}
    /\ lost' = lost + 1
    /\ UNCHANGED <<moray, vms, op, failures>>

-----------------------------------------------------------------------------
(* Any store earlier requests can have left behind, all served.            *)
Init ==
    /\ images \in SUBSET Keys
    /\ \A k \in images : Parent[k[2]] # None /\ k[2] \notin V21
                            => <<k[1], Parent[k[2]]>> \in images
    /\ heads \in SUBSET images
    /\ tags \in [TagKeys -> Digests \cup {None}]
    /\ \A k \in TagKeys : tags[k] # None => <<k[1], tags[k]>> \in images
    /\ layers = UNION {LayersOf[k[2]] : k \in images}
    /\ vms = [v \in Vms |-> None]
    /\ op = [c \in Clients |-> Idle]
    /\ failures = 0
    /\ lost = 0

(* A store in which only images that were pulled or named are tagged.      *)
HeadsTagged == \A k \in TagKeys : tags[k] # None => <<k[1], tags[k]>> \in heads

Serve(c) == \/ Lookup(c) \/ Rmi(c) \/ Pull(c)
            \/ TagImage(c) \/ CreateVm(c) \/ DockerCommit(c) \/ ImageCreate(c)

Next == \/ \E c \in Clients : Start(c) \/ Serve(c) \/ Fail(c)
        \/ \E v \in Vms : VmChange(v)
        \/ \E l \in Layers : LoseLayer(l)

Spec == Init /\ [][Next]_vars
FairSpec == Spec /\ \A c \in Clients : WF_vars(Serve(c))
-----------------------------------------------------------------------------
(* Properties.                                                             *)

(* What a request has found out by the time it reaches a step.             *)
Progress(s) ==
    /\ s.pc # "idle" => s.req \in Requests
    /\ s.pc \notin {"idle", "findByName", "findImage"} => s.img \in Digests
    /\ s.pc \in {"findImage", "getImageAncestry", "deleteDockerImages"}
          => s.cur \in Digests
    /\ s.pc \in {"listLayerRefs", "deleteImgapiImage"} => s.layer \in Layers
    /\ s.pc \in {"delImgTagRef", "removeImageTag"} => s.tag \in Names
    /\ s.pc \in CreatePcs \ {"tagImageV2"} => s.req.kind = "pull"
    /\ s.pc \in {"imageCreate", "dockerCommit"} => s.req.kind = "commit"
    /\ s.pc \in RmiPcs => s.req.kind = "rmi"
    /\ s.pc = "tagImage" => s.req.kind = "tag"
    /\ s.pc = "tagImageV2" => s.req.kind \in {"pull", "commit"}
    /\ s.pc \in LookupPcs => s.req.kind # "pull"

StoresOK ==
    /\ images \subseteq Keys
    /\ heads \subseteq images
    /\ tags \in [TagKeys -> Digests \cup {None}]
    /\ layers \subseteq Layers
    /\ vms \in [Vms -> VmType \cup {None}]
    /\ failures \in 0..MaxFailures
    /\ lost \in 0..MaxLost

OpsOK ==
    /\ op \in [Clients -> OpType]
    /\ \A c \in Clients : Progress(op[c])

TypeOK == StoresOK /\ OpsOK

(* Every image row can be run: IMGAPI has its top layer.  rmi deletes its  *)
(* own row first, counts the rows of all owners next and the layer last,   *)
(* so that removals alone never break this, whoever runs them at once and  *)
(* wherever they are cut short.                                            *)
ImagesHaveLayers == \A k \in images : Top[k[2]] \in layers

(* What a removal has counted stands: between the count of the rows that   *)
(* name a layer and the deletion of the layer, no row comes to name it.    *)
CountStands ==
    \A c \in Clients :
        At(c, "deleteImgapiImage") => LayerRefs(op[c].layer) = {}

(* Inductive as long as no request creates rows: why ImagesHaveLayers.     *)
RemovalInv == TypeOK /\ ImagesHaveLayers /\ CountStands

(* A row's parent row exists: getImageAncestry answers an error for a      *)
(* child whose parent is gone, and then the child can never be removed.    *)
(* A row whose layer is gone too is excepted: the next lookup forgets it.  *)
ParentsPresent ==
    \A k \in images :
        /\ Parent[k[2]] # None /\ k[2] \notin V21
        /\ Top[k[2]] \in layers
        => <<k[1], Parent[k[2]]>> \in images

(* A tag names a row its owner has: rmi removes the tags before the row.   *)
TagsHaveImages ==
    \A k \in TagKeys : tags[k] # None => <<k[1], tags[k]>> \in images

(* Layers do not pile up in IMGAPI: once every request is answered and no  *)
(* remote call has failed, each layer is the top of some owner's image or  *)
(* carries another layer.  True of requests served one at a time: the last *)
(* removal of an image walks its layers down to the first one still named. *)
(* docs/development/images.md: "sdc-docker will be removing                *)
(* unused/abandoned docker images in the background (e.g. when last user   *)
(* does a 'docker rmi ID' for a given image ID)".                          *)
NoLayerLeaks ==
    (failures = 0 /\ lost = 0 /\ \A c \in Clients : At(c, "idle"))
        => \A l \in layers : LayerRefs(l) # {} \/ LayerChildren(l) # {}

(* Every row and tag belongs to one account: a request changes only those  *)
(* of the account that sent it.                                            *)
OwnRowsOnly ==
    [][\A c \in Clients : op'[c] # op[c] =>
          /\ \A k \in Keys : k[1] # OwnerOf[c] =>
                /\ (k \in images') = (k \in images)
                /\ (k \in heads') = (k \in heads)
          /\ \A k \in TagKeys : k[1] # OwnerOf[c] => tags'[k] = tags[k]
      ]_vars

(* What a pull (or a commit) tags is a row its owner has, as long as an    *)
(* account sends one request at a time: the job looks for the row of this  *)
(* account before it decides that nothing has to be created.               *)
TaggedRowsExist ==
    [][\A c \in Clients : At(c, "tagImageV2") /\ op'[c].pc = "idle"
          => <<OwnerOf[c], op[c].img>> \in images]_vars

(* rmi stops below the first head among the ancestors: the image the user  *)
(* pulled or named stays when one built on top of it goes.                 *)
HeadAncestorsKept ==
    [][\A c \in Clients : At(c, "deleteDockerImages") =>
          \A k \in heads : k \notin heads' /\ op'[c] # op[c]
                             => k[2] = op[c].img]_vars

(* Every request is answered: no pipeline stops on the way, whatever the   *)
(* other requests do.                                                      *)
RequestsAnswered == \A c \in Clients : ~At(c, "idle") ~> At(c, "idle")

(* The rows and layers behave as one store that collects a layer only when *)
(* nothing uses it.  True of removals; a row created between the count and *)
(* the deletion of its layer breaks it.                                    *)
Shared == INSTANCE LayerStore
            WITH Rows <- Keys, TopOf <- [k \in Keys |-> Top[k[2]]],
                 Below <- Origin, Nothing <- None,
                 rows <- images, store <- layers
LayersShared == Shared!Spec

-----------------------------------------------------------------------------
(* What the documentation and the comments say, and the code does not do.  *)

(* images.js: "Check that there are no other docker references to these    *)
(* IMGAPI layers anywhere in the DC, if there are none then the IMGAPI     *)
(* layer(s) can be deleted."                                               *)
UnreferencedLayersOnly ==
    [][\A l \in layers : l \notin layers' => LayerRefs(l) = {}]_vars

=============================================================================
