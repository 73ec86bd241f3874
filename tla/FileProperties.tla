----------------------------- MODULE FileProperties -----------------------------
(***************************************************************************)
(* What creating, updating, verifying and deleting owners, and uploading,  *)
(* may do to images, however the transactions overlap.                     *)
(***************************************************************************)
EXTENDS Files

\* Rows and transactions have their types, and join rows refer to rows.
TypeOK ==
  /\ persons \in [Persons -> {"free", "unverified", "verified", "deleted"}]
  /\ files \in [Hashes -> {"none", "empty", "full"}]
  /\ \A j \in joins :
       j \in [owner: Persons, hash: Hashes, request: 0..requests] /\ Exists(j.owner) /\ files[j.hash] # "none"
  /\ requests \in 0..MaxRequests
  /\ tokens \subseteq Persons
  /\ \A c \in Clients : tx[c].pc # "idle" => tx[c].req \in Requests

\* The content of a file is not lost: a file with content that an owner has
\* before and after a step still has its content, although updates delete and
\* recreate the join rows and every request collects the files of all others
\* (the order of the parts of multi_update, file/domain.ex:102-115).
ContentKept ==
  [][\A h \in Hashes :
       files[h] = "full" /\ h \in HashesOf(joins) /\ h \in HashesOf(joins')
         => files'[h] = "full"]_vars

LastWrite(o) ==
  LET commits == {i \in DOMAIN history : history[i].req.owner = o}
  IN history[CHOOSE i \in commits : \A k \in commits : k <= i]

\* An owner has the images that the last committed update named (none, if it
\* named none), and of others only those of updates that overlapped it
\* (delete_old_files and multi_insert, file/domain.ex:62-115).
ImagesOfLastUpdate ==
  \A o \in Persons :
    LET rows == {j \in joins : j.owner = o}
    IN Exists(o) /\ (\E i \in DOMAIN history : history[i].req.owner = o) =>
         /\ HashesOf({j \in rows : j.request = LastWrite(o).id}) = ToSet(Images(LastWrite(o).req))
         /\ \A j \in rows : j.request # LastWrite(o).id => j.request \notin LastWrite(o).before \cup {0}

\* A person is verified exactly when a verification of hers was committed, to
\* which a token for her was sent: no update that overlaps it or comes later
\* takes it back (verify_email_verification and multi_update,
\* vf/person/domain.ex:88-97, 189-196).
VerifiedByVerification ==
  \A o \in Persons :
    Exists(o) =>
      (persons[o] = "verified"
         <=> \E i \in DOMAIN history :
               history[i].req.owner = o /\ history[i].req.op = "verify" /\ o \in tokens)
=============================================================================
