-------------------------- MODULE ProducerConsumerMC --------------------------
(* Instances of ProducerConsumer (hw6/producer-consumer.c) for TLC.        *)
EXTENDS ProducerConsumer

==============================================================================
