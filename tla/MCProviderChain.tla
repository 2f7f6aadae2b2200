---------------------------- MODULE MCProviderChain ----------------------------
EXTENDS ProviderChain

MCDeployments ==
    {{}, {"openai"}, {"groq"}, {"anthropic"}, {"anthropic", "groq"}}
================================================================================
