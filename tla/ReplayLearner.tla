---------------------------- MODULE ReplayLearner ---------------------------
(***************************************************************************)
(* EnterpriseDQNAgent, its PrioritizedReplayBuffer and EnterpriseTrainer   *)
(* (orchestration/neural/reinforcement/dqn.py).  An experience is told     *)
(* apart by a number, a network by the number of updates it has had, a     *)
(* priority by whether it is that of a new experience or comes from an     *)
(* error, and epsilon by the number of times it has decayed.  A file that  *)
(* is opened for writing loses what it held, and it is whole again only    *)
(* when torch.save returns.                                                *)
(***************************************************************************)
EXTENDS Naturals, Sequences, FiniteSetsExt

CONSTANTS
    buffer_size, batch_size, update_every, pretrain_steps,
    num_episodes, max_steps,
    SaveEvery,       \* 100 in train
    Floor,           \* decays after which epsilon is at epsilon.end
    MaxCrashes       \* bound on the number of crashes

ASSUME LearnerAssumption ==
    buffer_size \in Nat \ {0} /\ num_episodes \in Nat \ {0} /\ Floor \in Nat

VARIABLES
    buffer, priorities,
    t_step, epsilon,
    qnetwork_local, qnetwork_target,
    mode,            \* "new", "train", "save", "done", or "serve" in a DQNService
    i_episode, t,    \* of the loops of train
    files,           \* what each file holds: checkpoint_ep<n> for n > 0, or final_model
    saving,          \* the file that save_checkpoint writes last
    experience,      \* history: the number of the last experience,
    errors,          \* those in the buffer that an error was computed for,
    crashes          \* and the number of crashes

memory == <<buffer, priorities>>
networks == <<qnetwork_local, qnetwork_target>>
learnerVars == <<buffer, priorities, t_step, epsilon, qnetwork_local, qnetwork_target,
                 mode, i_episode, t, files, saving, experience, errors, crashes>>

FinalModel == 0

Absent == <<>>
Partial == <<"partial">>

LearnerInit ==
    /\ buffer = <<>> /\ priorities = <<>>
    /\ t_step = 0 /\ epsilon = 0
    /\ qnetwork_local = 0 /\ qnetwork_target = 0
    /\ mode = "new" /\ i_episode = 1 /\ t = 0
    /\ files = [n \in 0..num_episodes |-> Absent] /\ saving = FinalModel
    /\ experience = 0 /\ errors = {} /\ crashes = 0

-----------------------------------------------------------------------------
\* append to a deque with a maxlen.
Push(q, e) == IF Len(q) < buffer_size THEN Append(q, e) ELSE Append(Tail(q), e)

PushPriority_Unbounded(q, e) == Append(q, e)

PushPriority(q, e) == Push(q, e)

\* step: add, and every update_every steps sample and learn.
TimeToLearn(size) ==
    (t_step + 1) % update_every = 0 /\ size > pretrain_steps

Batches(size) == [1..batch_size -> 1..size]

UpdatePriorities(q, indices) ==
    [i \in DOMAIN q |-> IF i \in Range(indices) THEN "error" ELSE q[i]]

Decay(e) == IF e < Floor THEN e + 1 ELSE e

Learn(b, p, indices) ==
    /\ buffer' = b
    /\ priorities' = UpdatePriorities(p, indices)
    /\ errors' = (errors \cup {b[i] : i \in Range(indices)}) \cap Range(b)
    /\ \/ qnetwork_local' = qnetwork_local + 1
       \/ UNCHANGED qnetwork_local          \* scaler.step skips inf or NaN gradients
    /\ qnetwork_target' = qnetwork_target + 1        \* soft_update
    /\ epsilon' = Decay(epsilon)

AgentStep ==
    LET b == Push(buffer, experience + 1)
        p == PushPriority(priorities, "new")
    IN  /\ experience' = experience + 1
        /\ t_step' = (t_step + 1) % update_every
        /\ \/ TimeToLearn(Len(b)) /\ \E indices \in Batches(Len(b)) : Learn(b, p, indices)
           \/ /\ ~TimeToLearn(Len(b))
              /\ buffer' = b /\ priorities' = p
              /\ errors' = errors \cap Range(b)
              /\ UNCHANGED <<networks, epsilon>>

-----------------------------------------------------------------------------
(* train.                                                                  *)

Checkpoint == <<qnetwork_local, qnetwork_target, epsilon>>

\* save_checkpoint has opened the file.
BeginSave(fs, name) ==
    /\ mode' = "save" /\ saving' = name
    /\ files' = [fs EXCEPT ![name] = Partial]

AfterEpisode_NoFinal(fs) ==
    /\ mode' = IF i_episode = num_episodes THEN "done" ELSE "train"
    /\ i_episode' = i_episode + 1
    /\ files' = fs /\ UNCHANGED saving

AfterEpisode(fs) ==
    IF i_episode = num_episodes
    THEN BeginSave(fs, FinalModel) /\ UNCHANGED i_episode
    ELSE mode' = "train" /\ i_episode' = i_episode + 1 /\ files' = fs /\ UNCHANGED saving

Train ==
    /\ mode = "new"
    /\ mode' = "train"
    /\ UNCHANGED <<memory, networks, t_step, epsilon, i_episode, t, files, saving,
                   experience, errors, crashes>>

EpisodeEnds(done) == done \/ t + 1 = max_steps

\* A round of the inner loop, and what follows the loop when it is the last.
TrainStep(done) ==
    /\ mode = "train"
    /\ AgentStep
    /\ IF EpisodeEnds(done)
       THEN /\ t' = 0
            /\ IF i_episode % SaveEvery = 0
               THEN BeginSave(files, i_episode) /\ UNCHANGED i_episode
               ELSE AfterEpisode(files)
       ELSE t' = t + 1 /\ UNCHANGED <<mode, i_episode, files, saving>>
    /\ UNCHANGED crashes

EndSave ==
    /\ mode = "save"
    /\ LET fs == [files EXCEPT ![saving] = Checkpoint]
       IN  IF saving = FinalModel
           THEN mode' = "done" /\ files' = fs /\ UNCHANGED <<i_episode, saving>>
           ELSE AfterEpisode(fs)
    /\ UNCHANGED <<memory, networks, t_step, epsilon, t, experience, errors, crashes>>

-----------------------------------------------------------------------------
NewAgent(local, target, e) ==
    /\ buffer' = <<>> /\ priorities' = <<>>
    /\ t_step' = 0 /\ epsilon' = e
    /\ qnetwork_local' = local /\ qnetwork_target' = target
    /\ i_episode' = 1 /\ t' = 0
    /\ experience' = 0 /\ errors' = {}
    /\ UNCHANGED <<files, saving>>

\* The process ends, and train is called in another one.  It loads no file.
Crash ==
    /\ mode \in {"train", "save", "done"}
    /\ crashes < MaxCrashes
    /\ crashes' = crashes + 1
    /\ NewAgent(0, 0, 0)
    /\ mode' = "train"

\* DQNService, with load_checkpoint, which raises when the file is not whole.
\* What follows is about the service.
Serve(name) ==
    /\ mode # "serve"
    /\ files[name] \notin {Absent, Partial}
    /\ NewAgent(files[name][1], files[name][2], files[name][3])
    /\ mode' = "serve"
    /\ UNCHANGED crashes

LearnerNext ==
    \/ Train \/ (\E done \in BOOLEAN : TrainStep(done)) \/ EndSave
    \/ Crash \/ (\E name \in DOMAIN files : Serve(name))

LearnerSpec == LearnerInit /\ [][LearnerNext]_learnerVars

\* The environment answers, and a write returns.
LearnerProceed == (\E done \in BOOLEAN : TrainStep(done)) \/ EndSave

-----------------------------------------------------------------------------
\* The two deques stay in step: a priority is that of a new experience until an
\* error has been computed for the experience at its place, also once the
\* buffer is full and every addition moves all places by one.
PrioritiesStayAligned ==
    /\ Len(buffer) = Len(priorities) /\ Len(buffer) <= buffer_size
    /\ \A i \in DOMAIN buffer : (priorities[i] = "error") <=> (buffer[i] \in errors)

\* Training ends, and then final_model is whole and holds what was learned,
\* whichever crash, in the middle of a save of the same file too, came before.
TrainingLeavesAModel ==
    mode \in {"train", "save"}
        ~> (mode = "serve" \/ (mode = "done" /\ files[FinalModel] = Checkpoint))
=============================================================================
